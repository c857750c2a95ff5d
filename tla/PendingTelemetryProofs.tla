----------------------- MODULE PendingTelemetryProofs -----------------------
(* What merge_patch does to the pending telemetry and to the payloads copied  *)
(* from it, for any keys and any bound.                                       *)
EXTENDS PendingTelemetry, TLAPS

\* No pending value is newer than the newest merged one of its field.
PendingBounded ==
    /\ \A k \in FlatKeys : pending[k] <= latest[<<k, NoChild>>]
    /\ \A k \in NestedKeys, r \in PatchIds, c \in Children :
         dicts[k][r][c] <= latest[<<k, c>>]

\* Nor is one of the payload p.
PayloadBounded(p) == \A k \in FlatKeys : p[k] <= latest[<<k, NoChild>>]

\* The payload p shares no nested dictionary with the pending telemetry.
Isolated(p) == \A k \in NestedKeys : p[k] # 0 => p[k] # pending[k]

LEMMA LeafCases ==
    ASSUME NEW l \in Leaves
    PROVE  \/ KeyOf(l) \in FlatKeys /\ KeyOf(l) \notin NestedKeys /\ l = <<KeyOf(l), NoChild>>
           \/ /\ KeyOf(l) \in NestedKeys /\ KeyOf(l) \notin FlatKeys
              /\ l[2] \in Children /\ l = <<KeyOf(l), l[2]>>
BY KeysAssumption DEF Leaves, KeyOf

LEMMA ValueType ==
    ASSUME PendingTypeOK, NEW p \in [Keys -> 0..patches], NEW l \in Leaves
    PROVE  Value(p, l) \in 0..patches
<1>1. patches \in Nat /\ patches <= MaxPatches /\ MaxPatches \in Nat
  BY MaxPatchesAssumption DEF PendingTypeOK
<1>2. CASE KeyOf(l) \in FlatKeys
  BY <1>1, <1>2 DEF Value, ValueIn, Keys
<1>3. CASE KeyOf(l) \notin FlatKeys
  <2>1. KeyOf(l) \in NestedKeys /\ l[2] \in Children
    BY <1>3, LeafCases
  <2>2. CASE p[KeyOf(l)] = 0
    BY <1>1, <1>3, <2>2 DEF Value, ValueIn
  <2>3. CASE p[KeyOf(l)] # 0
    <3>1. p[KeyOf(l)] \in PatchIds
      BY <1>1, <2>1, <2>3 DEF Keys, PatchIds
    <3> QED
      BY <1>3, <2>1, <2>3, <3>1 DEF Value, ValueIn, PendingTypeOK
  <2> QED
    BY <2>2, <2>3
<1> QED
  BY <1>2, <1>3

LEMMA ValueBound ==
    ASSUME PendingTypeOK, PendingBounded, NEW p \in [Keys -> 0..patches], PayloadBounded(p),
           NEW l \in Leaves
    PROVE  Value(p, l) \in Nat /\ Value(p, l) <= latest[l]
<1>1. patches \in Nat /\ patches <= MaxPatches /\ MaxPatches \in Nat /\ latest[l] \in Nat
  BY MaxPatchesAssumption DEF PendingTypeOK
<1>2. Value(p, l) \in Nat
  BY <1>1, ValueType
<1>3. CASE KeyOf(l) \in FlatKeys
  <2>1. l = <<KeyOf(l), NoChild>>
    BY <1>3, LeafCases
  <2> QED
    BY <1>2, <1>3, <2>1 DEF Value, ValueIn, PayloadBounded
<1>4. CASE KeyOf(l) \notin FlatKeys
  <2>1. KeyOf(l) \in NestedKeys /\ l[2] \in Children /\ l = <<KeyOf(l), l[2]>>
    BY <1>4, LeafCases
  <2>2. CASE p[KeyOf(l)] = 0
    BY <1>1, <1>2, <1>4, <2>2 DEF Value, ValueIn
  <2>3. CASE p[KeyOf(l)] # 0
    <3>1. p[KeyOf(l)] \in PatchIds
      BY <1>1, <2>1, <2>3 DEF Keys, PatchIds
    <3>2. dicts[KeyOf(l)][p[KeyOf(l)]][l[2]] <= latest[<<KeyOf(l), l[2]>>]
      BY <2>1, <3>1 DEF PendingBounded
    <3> QED
      BY <1>2, <1>4, <2>1, <2>3, <3>2 DEF Value, ValueIn
  <2> QED
    BY <2>2, <2>3
<1> QED
  BY <1>2, <1>3, <1>4

------------------------------------------------------------------------------
(* The merge of a patch *)

LEMMA MergeTypes ==
    ASSUME PendingTypeOK, NEW fs \in SUBSET Leaves, patches < MaxPatches, MergePatch(fs)
    PROVE  /\ PendingTypeOK'
           /\ patches' = patches + 1
           /\ \A l \in Leaves : latest[l] <= latest'[l]
<1> DEFINE n == patches + 1
           keys == {KeyOf(f) : f \in fs}
<1>1. /\ patches \in Nat /\ MaxPatches \in Nat /\ n <= MaxPatches
      /\ pending \in [Keys -> 0..patches]
      /\ dicts \in [NestedKeys -> [PatchIds -> [Children -> 0..patches]]]
      /\ latest \in [Leaves -> 0..patches]
  BY MaxPatchesAssumption DEF PendingTypeOK
<1>2. /\ patches' = n
      /\ latest' = [l \in Leaves |-> IF l \in fs THEN n ELSE latest[l]]
      /\ pending' = [j \in Keys |->
           IF j \notin keys \/ (j \in NestedKeys /\ pending[j] # 0)
           THEN pending[j] ELSE n]
      /\ dicts' = [j \in NestedKeys |-> [r \in PatchIds |-> [c \in Children |->
           IF r = pending'[j] /\ <<j, c>> \in fs THEN n ELSE dicts[j][r][c]]]]
  BY DEF MergePatch
<1> HIDE DEF keys
<1>3. pending' \in [Keys -> 0..n]
  BY <1>1, <1>2
<1>4. dicts' \in [NestedKeys -> [PatchIds -> [Children -> 0..n]]]
  BY <1>1, <1>2
<1>5. latest' \in [Leaves -> 0..n] /\ \A l \in Leaves : latest[l] <= latest'[l]
  BY <1>1, <1>2
<1> QED
  BY <1>1, <1>2, <1>3, <1>4, <1>5 DEF PendingTypeOK

\* A merge touches no payload that is isolated, and leaves it isolated.
LEMMA MergeKeepsPayload ==
    ASSUME PendingTypeOK, NEW fs \in SUBSET Leaves, MergePatch(fs),
           NEW p \in [Keys -> 0..patches], Isolated(p)
    PROVE  /\ \A k \in NestedKeys : p[k] # 0 => p[k] # pending'[k]
           /\ \A l \in Leaves : ValueIn(p, dicts', l) = Value(p, l)
<1>1. patches \in Nat /\ patches <= MaxPatches /\ MaxPatches \in Nat
  BY MaxPatchesAssumption DEF PendingTypeOK
<1>2. ASSUME NEW k \in NestedKeys, p[k] # 0
      PROVE  p[k] # pending'[k] /\ p[k] \in PatchIds
  <2>1. k \in Keys /\ p[k] \in PatchIds /\ p[k] <= patches
    BY <1>1, <1>2 DEF Keys, PatchIds
  <2>2. pending'[k] = pending[k] \/ pending'[k] = patches + 1
    BY <2>1 DEF MergePatch
  <2>3. p[k] # pending[k]
    BY <1>2 DEF Isolated
  <2> QED
    BY <1>1, <2>1, <2>2, <2>3
<1>3. ASSUME NEW l \in Leaves
      PROVE  ValueIn(p, dicts', l) = Value(p, l)
  <2> DEFINE k == KeyOf(l)
  <2>1. CASE k \in FlatKeys \/ p[k] = 0
    BY <2>1 DEF Value, ValueIn
  <2>2. CASE k \notin FlatKeys /\ p[k] # 0
    <3>1. k \in NestedKeys /\ l[2] \in Children
      BY <2>2, LeafCases
    <3>2. p[k] # pending'[k] /\ p[k] \in PatchIds
      BY <1>2, <2>2, <3>1
    <3>3. dicts'[k][p[k]][l[2]] = dicts[k][p[k]][l[2]]
      BY <3>1, <3>2 DEF MergePatch
    <3> QED
      BY <2>2, <3>3 DEF Value, ValueIn
  <2> QED
    BY <2>1, <2>2
<1> QED
  BY <1>2, <1>3

\* After the merge the pending telemetry has the newest value of the fields of
\* the patch, and the value it had of the others.
LEMMA MergeValues ==
    ASSUME PendingTypeOK, NEW fs \in SUBSET Leaves, patches < MaxPatches, MergePatch(fs),
           NEW l \in Leaves
    PROVE  /\ l \in fs => Value(pending, l)' = latest'[l]
           /\ l \notin fs => /\ latest'[l] = latest[l]
                             /\ Value(pending, l) # 0 => Value(pending, l)' = Value(pending, l)
<1> DEFINE k == KeyOf(l)
           n == patches + 1
           keys == {KeyOf(f) : f \in fs}
<1>1. /\ patches \in Nat /\ MaxPatches \in Nat /\ n \in PatchIds
      /\ pending \in [Keys -> 0..patches]
  BY MaxPatchesAssumption DEF PendingTypeOK, PatchIds
<1>2. /\ latest'[l] = IF l \in fs THEN n ELSE latest[l]
      /\ pending' = [j \in Keys |->
           IF j \notin keys \/ (j \in NestedKeys /\ pending[j] # 0)
           THEN pending[j] ELSE n]
      /\ dicts' = [j \in NestedKeys |-> [r \in PatchIds |-> [c \in Children |->
           IF r = pending'[j] /\ <<j, c>> \in fs THEN n ELSE dicts[j][r][c]]]]
  BY DEF MergePatch
<1>3. l \in fs => k \in keys
  OBVIOUS
<1>4. CASE k \in FlatKeys
  <2>1. l = <<k, NoChild>> /\ k \notin NestedKeys /\ k \in Keys
    BY <1>4, LeafCases DEF Keys
  <2>2. k \in keys => l \in fs
    <3> SUFFICES ASSUME NEW f \in fs, KeyOf(f) = k PROVE l \in fs
      OBVIOUS
    <3>1. f = <<k, NoChild>>
      BY <1>4, LeafCases
    <3> QED
      BY <2>1, <3>1
  <2>3. Value(pending, l) = pending[k] /\ Value(pending, l)' = pending'[k]
    BY <1>4 DEF Value, ValueIn
  <2> HIDE DEF k, keys
  <2> QED
    BY <1>2, <1>3, <2>1, <2>2, <2>3
<1>5. CASE k \notin FlatKeys
  <2>1. k \in NestedKeys /\ l[2] \in Children /\ l = <<k, l[2]>> /\ k \in Keys
    BY <1>5, LeafCases DEF Keys
  <2>2. ASSUME l \in fs
        PROVE  Value(pending, l)' = n
    <3>1. pending'[k] \in PatchIds /\ pending'[k] # 0
      <4>1. pending'[k] = n \/ (pending'[k] = pending[k] /\ pending[k] # 0)
        BY <1>2, <1>3, <2>1, <2>2
      <4> QED
        BY <1>1, <2>1, <4>1 DEF PatchIds
    <3>2. dicts'[k][pending'[k]][l[2]] = n
      BY <1>2, <2>1, <2>2, <3>1
    <3> QED
      BY <1>5, <3>1, <3>2 DEF Value, ValueIn
  <2>3. ASSUME l \notin fs, Value(pending, l) # 0
        PROVE  Value(pending, l)' = Value(pending, l)
    <3>1. pending[k] # 0 /\ Value(pending, l) = dicts[k][pending[k]][l[2]]
      BY <1>5, <2>3 DEF Value, ValueIn
    <3>2. pending'[k] = pending[k] /\ pending[k] \in PatchIds
      BY <1>1, <1>2, <2>1, <3>1 DEF PatchIds
    <3>3. dicts'[k][pending[k]][l[2]] = dicts[k][pending[k]][l[2]]
      BY <1>2, <2>1, <2>3, <3>2
    <3> QED
      BY <1>5, <3>1, <3>2, <3>3 DEF Value, ValueIn
  <2> QED
    BY <1>2, <2>2, <2>3
<1> QED
  BY <1>4, <1>5

LEMMA MergeBounds ==
    ASSUME PendingTypeOK, PendingBounded, NEW fs \in SUBSET Leaves, patches < MaxPatches,
           MergePatch(fs)
    PROVE  PendingBounded'
<1> DEFINE n == patches + 1
           keys == {KeyOf(f) : f \in fs}
<1>1. /\ patches \in Nat
      /\ pending \in [Keys -> 0..patches]
      /\ dicts \in [NestedKeys -> [PatchIds -> [Children -> 0..patches]]]
      /\ latest \in [Leaves -> 0..patches]
  BY MaxPatchesAssumption DEF PendingTypeOK
<1>2. /\ latest' = [l \in Leaves |-> IF l \in fs THEN n ELSE latest[l]]
      /\ pending' = [j \in Keys |->
           IF j \notin keys \/ (j \in NestedKeys /\ pending[j] # 0)
           THEN pending[j] ELSE n]
      /\ dicts' = [j \in NestedKeys |-> [r \in PatchIds |-> [c \in Children |->
           IF r = pending'[j] /\ <<j, c>> \in fs THEN n ELSE dicts[j][r][c]]]]
  BY DEF MergePatch
<1> HIDE DEF keys
<1>3. ASSUME NEW k \in FlatKeys PROVE pending'[k] <= latest'[<<k, NoChild>>]
  <2>1. <<k, NoChild>> \in Leaves /\ k \in Keys /\ k \notin NestedKeys
    BY KeysAssumption DEF Leaves, Keys
  <2>2. \A f \in fs : KeyOf(f) = k => f = <<k, NoChild>>
    BY LeafCases
  <2>3. k \in keys => <<k, NoChild>> \in fs
    BY <2>2 DEF keys
  <2>4. CASE k \in keys
    BY <1>1, <1>2, <2>1, <2>3, <2>4
  <2>5. CASE k \notin keys
    <3>1. pending'[k] = pending[k] /\ pending[k] <= latest[<<k, NoChild>>]
      BY <1>2, <2>1, <2>5 DEF PendingBounded
    <3>2. /\ pending[k] \in Nat /\ pending[k] <= patches /\ latest[<<k, NoChild>>] \in Nat
          /\ latest'[<<k, NoChild>>] \in {n, latest[<<k, NoChild>>]}
      BY <1>1, <1>2, <2>1
    <3> QED
      BY <1>1, <3>1, <3>2
  <2> QED
    BY <2>4, <2>5
<1>4. ASSUME NEW k \in NestedKeys, NEW r \in PatchIds, NEW c \in Children
      PROVE  dicts'[k][r][c] <= latest'[<<k, c>>]
  <2>1. <<k, c>> \in Leaves
    BY DEF Leaves
  <2>2. /\ dicts[k][r][c] \in Nat /\ dicts[k][r][c] <= patches
        /\ dicts[k][r][c] <= latest[<<k, c>>] /\ latest[<<k, c>>] \in Nat
    BY <1>1, <2>1 DEF PendingBounded
  <2> QED
    BY <1>1, <1>2, <2>1, <2>2
<1> QED
  BY <1>3, <1>4 DEF PendingBounded
------------------------------------------------------------------------------
(* The pending telemetry is never behind *)

\* The dictionary that the next patch may create is not used yet.
FreshIsEmpty ==
    \A k \in NestedKeys, r \in PatchIds, c \in Children : r > patches => dicts[k][r][c] = 0

\* A pending value is the newest one of its field.
PendingIsLatest == \A l \in Leaves : Value(pending, l) \in {0, latest[l]}

LEMMA EmptyHasNothing ==
    ASSUME NEW d
    PROVE  \A l \in Leaves : ValueIn(Empty, d, l) = 0
BY LeafCases DEF ValueIn, Empty, Keys

LEMMA MergeFresh ==
    ASSUME PendingTypeOK, FreshIsEmpty, NEW fs \in SUBSET Leaves, MergePatch(fs)
    PROVE  FreshIsEmpty'
<1>1. patches \in Nat /\ pending \in [Keys -> 0..patches] /\ patches' = patches + 1
  BY MaxPatchesAssumption DEF PendingTypeOK, MergePatch
<1> SUFFICES ASSUME NEW k \in NestedKeys, NEW r \in PatchIds, NEW c \in Children, r > patches'
             PROVE  dicts'[k][r][c] = 0
  BY DEF FreshIsEmpty
<1>2. k \in Keys /\ r \in Nat
  BY MaxPatchesAssumption DEF Keys, PatchIds
<1>3. pending'[k] = pending[k] \/ pending'[k] = patches + 1
  BY <1>2 DEF MergePatch
<1>4. r # pending'[k] /\ r > patches
  BY <1>1, <1>2, <1>3
<1>5. dicts'[k][r][c] = dicts[k][r][c]
  BY <1>4 DEF MergePatch
<1> QED
  BY <1>4, <1>5 DEF FreshIsEmpty

LEMMA MergeIsLatest ==
    ASSUME PendingTypeOK, FreshIsEmpty, PendingIsLatest, NEW fs \in SUBSET Leaves,
           patches < MaxPatches, MergePatch(fs)
    PROVE  PendingIsLatest'
<1>1. /\ patches \in Nat /\ MaxPatches \in Nat /\ pending \in [Keys -> 0..patches]
      /\ patches + 1 \in PatchIds
  BY MaxPatchesAssumption DEF PendingTypeOK, PatchIds
<1> SUFFICES ASSUME NEW l \in Leaves PROVE Value(pending, l)' \in {0, latest'[l]}
  BY DEF PendingIsLatest
<1> DEFINE k == KeyOf(l)
<1>2. /\ l \in fs => Value(pending, l)' = latest'[l]
      /\ l \notin fs => /\ latest'[l] = latest[l]
                        /\ Value(pending, l) # 0 => Value(pending, l)' = Value(pending, l)
  BY MergeValues
<1>3. ASSUME l \notin fs, Value(pending, l) = 0
      PROVE  Value(pending, l)' = 0
  <2>1. CASE k \in FlatKeys
    <3>1. l = <<k, NoChild>> /\ k \notin NestedKeys /\ k \in Keys
      BY <2>1, LeafCases DEF Keys
    <3>2. \A f \in fs : KeyOf(f) # k
      BY <1>3, <2>1, <3>1, LeafCases
    <3>3. pending'[k] = pending[k]
      BY <3>1, <3>2 DEF MergePatch
    <3> QED
      BY <1>3, <2>1, <3>3 DEF Value, ValueIn
  <2>2. CASE k \notin FlatKeys
    <3>1. k \in NestedKeys /\ k \in Keys /\ l[2] \in Children /\ l = <<k, l[2]>>
      BY <2>2, LeafCases DEF Keys
    <3>2. CASE pending[k] # 0
      <4>1. pending'[k] = pending[k] /\ pending[k] \in PatchIds
        BY <1>1, <3>1, <3>2 DEF MergePatch, PatchIds
      <4>2. dicts'[k][pending[k]][l[2]] = dicts[k][pending[k]][l[2]]
        BY <1>3, <3>1, <4>1 DEF MergePatch
      <4> QED
        BY <1>3, <2>2, <3>2, <4>1, <4>2 DEF Value, ValueIn
    <3>3. CASE pending[k] = 0
      <4>1. pending'[k] = 0 \/ pending'[k] = patches + 1
        BY <3>1, <3>3 DEF MergePatch
      <4>2. dicts'[k][patches + 1][l[2]] = 0
        <5>1. dicts[k][patches + 1][l[2]] = 0
          BY <1>1, <3>1 DEF FreshIsEmpty
        <5>2. dicts'[k][patches + 1][l[2]] = dicts[k][patches + 1][l[2]]
          BY <1>1, <1>3, <3>1 DEF MergePatch
        <5> QED
          BY <5>1, <5>2
      <4> QED
        BY <2>2, <4>1, <4>2 DEF Value, ValueIn
    <3> QED
      BY <3>2, <3>3
  <2> QED
    BY <2>1, <2>2
<1> QED
  BY <1>2, <1>3 DEF PendingIsLatest
==============================================================================
