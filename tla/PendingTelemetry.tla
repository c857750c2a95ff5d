--------------------------- MODULE PendingTelemetry ---------------------------
(***************************************************************************)
(* The dictionary of pending telemetry that the Linux bridges and the Java *)
(* plugin both keep, and its only update, merge_patch (merge in Java).     *)
(*                                                                         *)
(* The n-th patch merged into the pending dictionary carries the value n   *)
(* for each of its fields, so comparing values compares their age.  Nested *)
(* dictionaries (gps, can) are heap objects: a shallow copy of the pending *)
(* dictionary shares them with it until it is cleared.                     *)
(***************************************************************************)
EXTENDS Naturals

CONSTANTS
    FlatKeys,       \* top-level telemetry keys holding a scalar (rpm, ts, ...)
    NestedKeys,     \* top-level telemetry keys holding a dictionary (gps, can)
    Children,       \* the keys of the nested dictionaries
    MaxPatches      \* bound on the number of patches merged in a behaviour

ASSUME KeysAssumption == FlatKeys \cap NestedKeys = {}
ASSUME MaxPatchesAssumption == MaxPatches \in Nat

VARIABLES
    pending,    \* key -> scalar, or reference to a nested dictionary
    dicts,      \* the nested dictionaries: key -> reference -> child -> value
    \* history
    patches,    \* number of patches merged so far
    latest      \* latest[l]: newest value merged for field l

bufferVars == <<pending, dicts, patches, latest>>

NoChild == "no child"
Keys == FlatKeys \cup NestedKeys
Leaves == (FlatKeys \X {NoChild}) \cup (NestedKeys \X Children)
KeyOf(l) == l[1]
Empty == [k \in Keys |-> 0]     \* the empty dictionary
PatchIds == 1..MaxPatches

PendingInit ==
    /\ pending = Empty
    /\ dicts = [k \in NestedKeys |-> [r \in PatchIds |-> [c \in Children |-> 0]]]
    /\ patches = 0
    /\ latest = [l \in Leaves |-> 0]

PendingTypeOK ==
    /\ pending \in [Keys -> 0..patches]
    /\ dicts \in [NestedKeys -> [PatchIds -> [Children -> 0..patches]]]
    /\ patches \in 0..MaxPatches
    /\ latest \in [Leaves -> 0..patches]

\* The value of field l in a dictionary p whose nested dictionaries are in d.
ValueIn(p, d, l) ==
    LET k == KeyOf(l) IN
    IF k \in FlatKeys THEN p[k]
    ELSE IF p[k] = 0 THEN 0
    ELSE d[k][p[k]][l[2]]

Value(p, l) == ValueIn(p, dicts, l)

\* Fault: merge_patch replaces the nested dictionary that is already there.
MergePatchReplacing(fs) ==
    LET n == patches + 1
        keys == {KeyOf(l) : l \in fs}
    IN
    /\ patches' = n
    /\ pending' = [k \in Keys |-> IF k \in keys THEN n ELSE pending[k]]
    /\ dicts' = [k \in NestedKeys |-> [r \in PatchIds |-> [c \in Children |->
         IF r = n /\ <<k, c>> \in fs THEN n ELSE dicts[k][r][c]]]]
    /\ latest' = [l \in Leaves |-> IF l \in fs THEN n ELSE latest[l]]

\* merge_patch(pending, patch), for a patch with the fields fs: a nested
\* dictionary already present is updated in place, any other key is assigned,
\* which stores the patch's own nested dictionary.
MergePatch(fs) ==
    LET n == patches + 1
        keys == {KeyOf(l) : l \in fs}
    IN
    /\ patches' = n
    /\ pending' = [k \in Keys |->
         IF k \notin keys \/ (k \in NestedKeys /\ pending[k] # 0)
         THEN pending[k] ELSE n]
    /\ dicts' = [k \in NestedKeys |-> [r \in PatchIds |-> [c \in Children |->
         IF r = pending'[k] /\ <<k, c>> \in fs THEN n ELSE dicts[k][r][c]]]]
    /\ latest' = [l \in Leaves |-> IF l \in fs THEN n ELSE latest[l]]
==============================================================================
