----------------------------- MODULE PluginProofs -----------------------------
(***************************************************************************)
(* Proofs about the plugin: about its publisher in direct mode             *)
(* (DirectPublisher), for any telemetry fields and number of callbacks;    *)
(* about its life cycle (PluginLifecycle) and the mapping of values, for   *)
(* any channels, servers, settings and number of publishers; and about the *)
(* Socket.IO client (SocketIoClient), for any callers and connections.     *)
(***************************************************************************)
EXTENDS DirectPublisher, PluginLifecycle, SocketIoClient, PendingTelemetryProofs, SequenceTheorems

\* No value is newer than the newest merged one of its field.
NothingNewerThanLatest ==
    /\ PendingBounded
    /\ \A t \in Threads : PayloadBounded(snap[t])
    /\ \A l \in Leaves : settled[l] <= latest[l]

\* There is room for the patch a callback holds, and a payload in flushDirect
\* shares no nested object with the pending one.
PublisherInv ==
    /\ TypeOK
    /\ held # NoPatch => patches < MaxPatches
    /\ \A t \in InEmit : Isolated(snap[t])
    /\ NothingNewerThanLatest
    /\ NoLostUpdate

LEMMA PublisherInitially == Init => PublisherInv
<1> SUFFICES ASSUME Init PROVE PublisherInv
  OBVIOUS
<1> USE DEF Init, PendingInit
<1>1. MaxPatches \in Nat /\ patches = 0 /\ InEmit = {}
  BY MaxPatchesAssumption DEF InEmit
<1>2. /\ pending \in [Keys -> 0..patches] /\ snap \in [Threads -> [Keys -> 0..patches]]
      /\ dicts \in [NestedKeys -> [PatchIds -> [Children -> 0..patches]]]
      /\ latest \in [Leaves -> 0..patches] /\ shown \in [Leaves -> 0..patches]
      /\ settled \in [Leaves -> 0..patches] /\ held \in SUBSET Leaves
  BY <1>1 DEF Empty, NoPatch
<1>3. TypeOK
  <2>1. PendingTypeOK
    BY <1>1, <1>2 DEF PendingTypeOK
  <2> QED
    BY <1>2, <2>1 DEF TypeOK
<1>4. \A l \in Leaves : latest[l] = 0 /\ settled[l] = 0
  OBVIOUS
<1>5. NothingNewerThanLatest
  BY <1>4 DEF NothingNewerThanLatest, PendingBounded, PayloadBounded, Empty, Keys, Leaves
<1> QED
  BY <1>1, <1>3, <1>4, <1>5 DEF PublisherInv, NoLostUpdate, NoPatch

\* A step that leaves the telemetry, the payloads and who emits them alone.
LEMMA QuietStep ==
    ASSUME PublisherInv, TypeOK', InEmit' = InEmit,
           UNCHANGED <<bufferVars, snap, settled>>,
           held' # NoPatch => patches < MaxPatches
    PROVE  PublisherInv'
<1> USE DEF PublisherInv, bufferVars
<1>1. \A t \in InEmit' : Isolated(snap[t])'
  BY DEF Isolated
<1>2. NothingNewerThanLatest'
  BY DEF NothingNewerThanLatest, PendingBounded, PayloadBounded
<1>3. NoLostUpdate'
  BY DEF NoLostUpdate, Value, ValueIn
<1> QED
  BY <1>1, <1>2, <1>3

------------------------------------------------------------------------------
(* flushDirect *)

LEMMA CopyStep ==
    ASSUME PublisherInv, TypeOK', NEW t \in Threads, CopyAndClear(t), t \notin InEmit,
           InEmit' = InEmit \cup {t}, UNCHANGED <<held, settled>>
    PROVE  PublisherInv'
<1> USE DEF CopyAndClear
<1>1. /\ pending \in [Keys -> 0..patches] /\ snap \in [Threads -> [Keys -> 0..patches]]
      /\ patches \in Nat /\ latest \in [Leaves -> 0..patches] /\ t \in Threads
  BY MaxPatchesAssumption DEF PublisherInv, TypeOK, PendingTypeOK
<1>2. /\ snap'[t] = pending
      /\ \A u \in Threads : u # t => snap'[u] = snap[u]
      /\ InEmit \subseteq Threads
  BY <1>1 DEF InEmit
<1>3. \A u \in InEmit' : Isolated(snap[u])'
  BY <1>2 DEF PublisherInv, Isolated, Empty, Keys
<1>4. NothingNewerThanLatest'
  <2>1. \A k \in FlatKeys : pending'[k] = 0 /\ latest[<<k, NoChild>>] \in Nat
    BY <1>1 DEF Empty, Keys, Leaves
  <2>2. PendingBounded'
    BY <2>1 DEF PublisherInv, NothingNewerThanLatest, PendingBounded
  <2>3. \A u \in Threads : PayloadBounded(snap[u])'
    BY <1>2 DEF PublisherInv, NothingNewerThanLatest, PendingBounded, PayloadBounded
  <2> QED
    BY <2>2, <2>3 DEF PublisherInv, NothingNewerThanLatest
<1>5. NoLostUpdate'
  <2> SUFFICES ASSUME NEW l \in Leaves, latest[l] # 0
               PROVE  \/ \E u \in InEmit' : ValueIn(snap'[u], dicts, l) = latest[l]
                      \/ settled[l] = latest[l]
    BY DEF NoLostUpdate, Value
  <2>1. CASE Value(pending, l) = latest[l]
    BY <1>2, <2>1 DEF Value
  <2>2. CASE \E u \in InEmit : Value(snap[u], l) = latest[l]
    BY <1>2, <2>2 DEF Value
  <2> QED
    BY <2>1, <2>2 DEF PublisherInv, NoLostUpdate
<1> QED
  BY <1>3, <1>4, <1>5 DEF PublisherInv

LEMMA EmitTypes ==
    ASSUME PublisherInv, NEW t \in Threads, EmitPayload(t)
    PROVE  /\ snap' \in [Threads -> [Keys -> 0..patches]]
           /\ settled' \in [Leaves -> 0..patches] /\ shown' \in [Leaves -> 0..patches]
           /\ client' \in {"open", "closed"} /\ failed' \in BOOLEAN /\ vanished' \in BOOLEAN
           /\ UNCHANGED <<bufferVars, link>>
           /\ \A l \in Leaves : /\ settled'[l] <= latest[l]
                                /\ settled[l] = latest[l] => settled'[l] = latest[l]
                                /\ Value(snap[t], l) = latest[l] => settled'[l] = latest[l]
<1>1. /\ PendingTypeOK /\ patches \in Nat /\ snap \in [Threads -> [Keys -> 0..patches]]
      /\ settled \in [Leaves -> 0..patches] /\ shown \in [Leaves -> 0..patches]
      /\ latest \in [Leaves -> 0..patches]
  BY MaxPatchesAssumption DEF PublisherInv, TypeOK, PendingTypeOK
<1>2. \A l \in Leaves :
         /\ Value(snap[t], l) \in 0..patches /\ Value(snap[t], l) <= latest[l]
         /\ settled[l] <= latest[l]
  BY <1>1, ValueType, ValueBound DEF PublisherInv, NothingNewerThanLatest
<1>3. snap' \in [Threads -> [Keys -> 0..patches]]
  BY <1>1 DEF EmitPayload, Empty
<1>4. settled' = [l \in Leaves |->
        IF Value(snap[t], l) > settled[l] THEN Value(snap[t], l) ELSE settled[l]]
  BY DEF EmitPayload
<1>5. settled' \in [Leaves -> 0..patches]
  BY <1>1, <1>2, <1>4
<1>6. ASSUME NEW l \in Leaves
      PROVE  /\ settled'[l] <= latest[l]
             /\ settled[l] = latest[l] => settled'[l] = latest[l]
             /\ Value(snap[t], l) = latest[l] => settled'[l] = latest[l]
  <2> DEFINE v == Value(snap[t], l)
  <2>1. /\ v \in Nat /\ settled[l] \in Nat /\ latest[l] \in Nat
        /\ v <= latest[l] /\ settled[l] <= latest[l]
        /\ settled'[l] = IF v > settled[l] THEN v ELSE settled[l]
    BY <1>1, <1>2, <1>4
  <2> HIDE DEF v
  <2>2. /\ settled'[l] <= latest[l]
        /\ settled[l] = latest[l] => settled'[l] = latest[l]
        /\ v = latest[l] => settled'[l] = latest[l]
    BY <2>1
  <2> QED
    BY <2>2 DEF v
<1>7. shown' \in [Leaves -> 0..patches]
  BY <1>1, <1>2 DEF EmitPayload
<1>8. client' \in {"open", "closed"} /\ failed' \in BOOLEAN /\ vanished' \in BOOLEAN
      /\ UNCHANGED <<bufferVars, link>>
  BY DEF EmitPayload, PublisherInv, TypeOK
<1> QED
  BY <1>3, <1>5, <1>6, <1>7, <1>8

LEMMA EmitStep ==
    ASSUME PublisherInv, TypeOK', NEW t \in Threads, EmitPayload(t), t \in InEmit,
           InEmit' = InEmit \ {t}, UNCHANGED held
    PROVE  PublisherInv'
<1>1. /\ UNCHANGED <<pending, dicts, patches, latest>>
      /\ snap \in [Threads -> [Keys -> 0..patches]]
      /\ snap' = [snap EXCEPT ![t] = Empty]
      /\ latest \in [Leaves -> 0..patches] /\ patches \in Nat
      /\ InEmit \subseteq Threads
  BY MaxPatchesAssumption DEF EmitPayload, PublisherInv, TypeOK, PendingTypeOK, bufferVars, InEmit
<1>2. \A u \in Threads : snap'[u] = IF u = t THEN Empty ELSE snap[u]
  BY <1>1
<1>3. \A u \in InEmit' : Isolated(snap[u])'
  BY <1>1, <1>2 DEF PublisherInv, Isolated
<1>4. NothingNewerThanLatest'
  <2>1. PendingBounded'
    BY <1>1 DEF PublisherInv, NothingNewerThanLatest, PendingBounded
  <2>2. \A k \in FlatKeys : Empty[k] = 0 /\ latest[<<k, NoChild>>] \in Nat
    BY <1>1 DEF Empty, Keys, Leaves
  <2>3. \A u \in Threads : PayloadBounded(snap[u])'
    BY <1>1, <1>2, <2>2 DEF PublisherInv, NothingNewerThanLatest, PayloadBounded
  <2> QED
    BY <1>1, <2>1, <2>3, EmitTypes DEF NothingNewerThanLatest
<1>5. NoLostUpdate'
  <2> SUFFICES ASSUME NEW l \in Leaves, latest[l] # 0
               PROVE  \/ Value(pending, l) = latest[l]
                      \/ \E u \in InEmit \ {t} : Value(snap[u], l) = latest[l]
                      \/ settled'[l] = latest[l]
    BY <1>1, <1>2 DEF NoLostUpdate, Value, ValueIn
  <2> QED
    BY EmitTypes DEF PublisherInv, NoLostUpdate
<1> QED
  BY <1>1, <1>3, <1>4, <1>5 DEF PublisherInv

------------------------------------------------------------------------------
(* Every step *)

LEMMA CallbackStep ==
    ASSUME PublisherInv, NEW l \in Leaves, Callback(l)
    PROVE  PublisherInv'
<1>1. TypeOK'
  BY DEF Callback, PublisherInv, TypeOK, PendingTypeOK, bufferVars, linkVars, publishVars
<1>2. InEmit' = InEmit /\ UNCHANGED <<bufferVars, snap, settled>>
  BY DEF Callback, InEmit, publishVars
<1> QED
  BY <1>1, <1>2, QuietStep DEF Callback

LEMMA MapPendingStep ==
    ASSUME PublisherInv, MapPending
    PROVE  PublisherInv'
<1>1. /\ PendingTypeOK /\ PendingBounded /\ held \in SUBSET Leaves /\ patches < MaxPatches
      /\ MergePatch(held) /\ held' = NoPatch /\ patches \in Nat
      /\ UNCHANGED <<timer, ticking, closer, snap, linkVars, subscribed, publishVars, overlap>>
      /\ snap \in [Threads -> [Keys -> 0..patches]]
      /\ settled \in [Leaves -> 0..patches] /\ shown \in [Leaves -> 0..patches]
      /\ latest \in [Leaves -> 0..patches]
  BY MaxPatchesAssumption DEF MapPending, PublisherInv, NothingNewerThanLatest, TypeOK, PendingTypeOK
<1>2. /\ PendingTypeOK' /\ patches' = patches + 1
      /\ \A l \in Leaves : latest[l] <= latest'[l]
  BY <1>1, MergeTypes
<1>3. InEmit' = InEmit /\ InEmit \subseteq Threads
  BY <1>1 DEF InEmit
<1>4. TypeOK'
  <2>1. 0..patches \subseteq 0..patches'
    BY <1>1, <1>2
  <2>2. /\ snap' \in [Threads -> [Keys -> 0..patches']]
        /\ settled' \in [Leaves -> 0..patches'] /\ shown' \in [Leaves -> 0..patches']
    BY <1>1, <2>1 DEF publishVars
  <2>3. late' \in BOOLEAN
    BY DEF MapPending, PublisherInv, TypeOK
  <2>4. held' \in SUBSET Leaves
    BY <1>1 DEF NoPatch
  <2> QED
    BY <1>1, <1>2, <2>2, <2>3, <2>4 DEF PublisherInv, TypeOK, linkVars, publishVars
<1>5. ASSUME NEW t \in InEmit
      PROVE  Isolated(snap[t])' /\ \A l \in Leaves : ValueIn(snap'[t], dicts', l) = Value(snap[t], l)
  <2>1. snap[t] \in [Keys -> 0..patches] /\ Isolated(snap[t])
    BY <1>1, <1>3, <1>5 DEF PublisherInv
  <2>2. /\ \A k \in NestedKeys : snap[t][k] # 0 => snap[t][k] # pending'[k]
        /\ \A l \in Leaves : ValueIn(snap[t], dicts', l) = Value(snap[t], l)
    BY <1>1, <2>1, MergeKeepsPayload
  <2> QED
    BY <1>1, <2>2 DEF Isolated
<1>6. NothingNewerThanLatest'
  <2>1. PendingBounded'
    BY <1>1, MergeBounds
  <2>2. latest' \in [Leaves -> 0..patches']
    BY <1>2 DEF PendingTypeOK
  <2>3. ASSUME NEW t \in Threads, NEW k \in FlatKeys
        PROVE  snap'[t][k] <= latest'[<<k, NoChild>>]
    <3>1. <<k, NoChild>> \in Leaves /\ k \in Keys
      BY DEF Leaves, Keys
    <3>2. snap[t][k] \in 0..patches /\ snap[t][k] <= latest[<<k, NoChild>>] /\ snap' = snap
      BY <1>1, <3>1 DEF PublisherInv, NothingNewerThanLatest, PayloadBounded
    <3>3. /\ latest[<<k, NoChild>>] \in 0..patches /\ latest'[<<k, NoChild>>] \in 0..patches'
          /\ latest[<<k, NoChild>>] <= latest'[<<k, NoChild>>]
      BY <1>1, <1>2, <2>2, <3>1
    <3> QED
      BY <1>1, <1>2, <3>2, <3>3
  <2>4. ASSUME NEW l \in Leaves PROVE settled'[l] <= latest'[l]
    <3>1. settled[l] \in 0..patches /\ settled[l] <= latest[l] /\ settled' = settled
      BY <1>1 DEF PublisherInv, NothingNewerThanLatest, publishVars
    <3> QED
      BY <1>1, <1>2, <2>2, <3>1
  <2> QED
    BY <2>1, <2>3, <2>4 DEF NothingNewerThanLatest, PayloadBounded
<1>7. NoLostUpdate'
  <2> SUFFICES ASSUME NEW l \in Leaves, latest'[l] # 0
               PROVE  \/ Value(pending, l)' = latest'[l]
                      \/ \E t \in InEmit : ValueIn(snap'[t], dicts', l) = latest'[l]
                      \/ settled'[l] = latest'[l]
    BY <1>3 DEF NoLostUpdate, Value
  <2>1. /\ l \in held => Value(pending, l)' = latest'[l]
        /\ l \notin held => /\ latest'[l] = latest[l]
                            /\ Value(pending, l) # 0 => Value(pending, l)' = Value(pending, l)
    BY <1>1, MergeValues
  <2>2. CASE l \in held
    BY <2>1, <2>2
  <2>3. CASE l \notin held
    <3>1. latest'[l] = latest[l] /\ settled' = settled
      BY <1>1, <2>1, <2>3 DEF publishVars
    <3>2. CASE Value(pending, l) = latest[l]
      BY <2>1, <2>3, <3>1, <3>2
    <3>3. CASE \E t \in InEmit : Value(snap[t], l) = latest[l]
      BY <1>5, <3>1, <3>3
    <3>4. CASE settled[l] = latest[l]
      BY <3>1, <3>4
    <3> QED
      BY <3>1, <3>2, <3>3, <3>4 DEF PublisherInv, NoLostUpdate
  <2> QED
    BY <2>2, <2>3
<1> QED
  BY <1>1, <1>3, <1>4, <1>5, <1>6, <1>7 DEF PublisherInv

\* The types that the copy of a thread leaves in place.
LEMMA CopyTypes ==
    ASSUME PublisherInv, NEW t \in Threads, CopyAndClear(t)
    PROVE  PendingTypeOK' /\ snap' \in [Threads -> [Keys -> 0..patches]] /\ patches' = patches
BY MaxPatchesAssumption DEF CopyAndClear, PublisherInv, TypeOK, PendingTypeOK, Empty

LEMMA TimerStep ==
    ASSUME PublisherInv, TimerThread
    PROVE  PublisherInv'
<1> USE DEF InEmit, Threads
<1>1. CASE TimerFire
  <2>1. TypeOK'
    BY <1>1 DEF TimerFire, PublisherInv, TypeOK, PendingTypeOK, bufferVars, linkVars, publishVars
  <2>2. InEmit' = InEmit /\ UNCHANGED <<bufferVars, snap, settled, held>>
    BY <1>1 DEF TimerFire, publishVars
  <2> QED
    BY <2>1, <2>2, QuietStep DEF PublisherInv
<1>2. CASE TimerCopy /\ pending = Empty
  <2>1. TypeOK'
    BY <1>2 DEF TimerCopy, PublisherInv, TypeOK, PendingTypeOK, bufferVars, linkVars, publishVars
  <2>2. InEmit' = InEmit /\ UNCHANGED <<bufferVars, snap, settled, held>>
    BY <1>2 DEF TimerCopy, publishVars
  <2> QED
    BY <2>1, <2>2, QuietStep DEF PublisherInv
<1>3. CASE TimerCopy /\ pending # Empty
  <2>1. TypeOK'
    BY <1>3, CopyTypes DEF TimerCopy, PublisherInv, TypeOK, linkVars, publishVars
  <2>2. /\ "timer" \notin InEmit /\ InEmit' = InEmit \cup {"timer"}
        /\ UNCHANGED <<held, settled>>
    BY <1>3 DEF TimerCopy, publishVars
  <2> QED
    BY <1>3, <2>1, <2>2, CopyStep DEF TimerCopy
<1>4. CASE TimerEmit
  <2>1. TypeOK'
    BY <1>4, EmitTypes DEF TimerEmit, PublisherInv, TypeOK, PendingTypeOK, bufferVars
  <2>2. "timer" \in InEmit /\ InEmit' = InEmit \ {"timer"} /\ UNCHANGED held
    BY <1>4 DEF TimerEmit
  <2> QED
    BY <1>4, <2>1, <2>2, EmitStep DEF TimerEmit
<1> QED
  BY <1>1, <1>2, <1>3, <1>4 DEF TimerThread

LEMMA CloseStep ==
    ASSUME PublisherInv, Unsubscribe \/ CloseThread
    PROVE  PublisherInv'
<1> USE DEF InEmit, Threads
<1>1. CASE Unsubscribe \/ CancelTimer \/ CloseClient \/ (CloseFlush /\ pending = Empty)
  <2>1. TypeOK'
    <3> USE DEF PublisherInv, TypeOK, PendingTypeOK, bufferVars, linkVars, publishVars
    <3>1. CASE Unsubscribe
      BY <3>1 DEF Unsubscribe
    <3>2. CASE CancelTimer
      BY <3>2 DEF CancelTimer
    <3>3. CASE CloseClient
      BY <3>3 DEF CloseClient
    <3>4. CASE CloseFlush /\ pending = Empty
      BY <3>4 DEF CloseFlush
    <3> QED
      BY <1>1, <3>1, <3>2, <3>3, <3>4
  <2>2. InEmit' = InEmit /\ UNCHANGED <<bufferVars, snap, settled, held>>
    BY <1>1 DEF Unsubscribe, CancelTimer, CloseClient, CloseFlush, publishVars
  <2> QED
    BY <2>1, <2>2, QuietStep DEF PublisherInv
<1>2. CASE CloseFlush /\ pending # Empty
  <2>1. TypeOK'
    BY <1>2, CopyTypes DEF CloseFlush, PublisherInv, TypeOK, linkVars, publishVars
  <2>2. /\ "closer" \notin InEmit /\ InEmit' = InEmit \cup {"closer"}
        /\ UNCHANGED <<held, settled>>
    BY <1>2 DEF CloseFlush, publishVars
  <2> QED
    BY <1>2, <2>1, <2>2, CopyStep DEF CloseFlush
<1>3. CASE CloseEmit
  <2>1. TypeOK'
    BY <1>3, EmitTypes DEF CloseEmit, PublisherInv, TypeOK, PendingTypeOK, bufferVars
  <2>2. "closer" \in InEmit /\ InEmit' = InEmit \ {"closer"} /\ UNCHANGED held
    BY <1>3 DEF CloseEmit
  <2> QED
    BY <1>3, <2>1, <2>2, EmitStep DEF CloseEmit
<1> QED
  BY <1>1, <1>2, <1>3 DEF CloseThread

LEMMA PublisherStep == PublisherInv /\ [Next]_vars => PublisherInv'
<1> SUFFICES ASSUME PublisherInv, [Next]_vars PROVE PublisherInv'
  OBVIOUS
<1>1. CASE LinkChange \/ UNCHANGED vars
  <2>1. TypeOK'
    BY <1>1 DEF LinkChange, vars, PublisherInv, TypeOK, PendingTypeOK, bufferVars, linkVars, publishVars
  <2>2. InEmit' = InEmit /\ UNCHANGED <<bufferVars, snap, settled, held>>
    BY <1>1 DEF LinkChange, vars, InEmit, publishVars
  <2> QED
    BY <2>1, <2>2, QuietStep DEF PublisherInv
<1> QED
  BY <1>1, CallbackStep, MapPendingStep, TimerStep, CloseStep DEF Next

LEMMA PublisherInvariant == Spec => []PublisherInv
BY PublisherInitially, PublisherStep, PTL DEF Spec

------------------------------------------------------------------------------
(* Theorems *)

\* Every variable of the publisher keeps its type.
THEOREM PublisherTypeCorrect == Spec => []TypeOK
<1>1. PublisherInv => TypeOK
  BY DEF PublisherInv
<1> QED
  BY PublisherInvariant, <1>1, PTL

\* No value merged by a callback is dropped on its way to the client, however
\* callbacks, timer runs and close() interleave.
THEOREM PublisherNoLostUpdate == Spec => []NoLostUpdate
<1>1. PublisherInv => NoLostUpdate
  BY DEF PublisherInv
<1> QED
  BY PublisherInvariant, <1>1, PTL

\* What flushDirect copied keeps its values until it is emitted, although the
\* copy is shallow and callbacks go on updating nested objects in place.
THEOREM PublisherPayloadFrozen == Spec => PayloadFrozen
<1> DEFINE Kept == \A t \in InEmit \cap InEmit' :
                     \A l \in Leaves : ValueIn(snap'[t], dicts', l) = Value(snap[t], l)
<1>1. PublisherInv /\ [Next]_vars => [Kept]_vars
  <2> SUFFICES ASSUME PublisherInv, Next, NEW t \in InEmit, t \in InEmit', NEW l \in Leaves
               PROVE  ValueIn(snap'[t], dicts', l) = Value(snap[t], l)
    BY DEF Next
  <2>1. CASE MapPending
    <3>1. /\ PendingTypeOK /\ held \in SUBSET Leaves /\ MergePatch(held) /\ snap' = snap
          /\ snap[t] \in [Keys -> 0..patches] /\ Isolated(snap[t])
      BY <2>1 DEF MapPending, PublisherInv, TypeOK, InEmit
    <3> QED
      BY <3>1, MergeKeepsPayload
  <2>2. CASE ~MapPending
    <3>1. dicts' = dicts
      BY <2>2 DEF Next, Callback, TimerThread, TimerFire, TimerCopy, TimerEmit, Unsubscribe,
         CloseThread, CancelTimer, CloseFlush, CloseEmit, CloseClient, CopyAndClear, EmitPayload,
         LinkChange, bufferVars
    <3>2. snap \in [Threads -> [Keys -> 0..patches]]
      BY DEF PublisherInv, TypeOK
    <3>3. snap'[t] = snap[t]
      BY <2>2, <3>2 DEF Next, Callback, TimerThread, TimerFire, TimerCopy, TimerEmit, Unsubscribe,
         CloseThread, CancelTimer, CloseFlush, CloseEmit, CloseClient, CopyAndClear, EmitPayload,
         LinkChange, InEmit, Threads
    <3> QED
      BY <3>1, <3>3 DEF Value, ValueIn
  <2> QED
    BY <2>1, <2>2
<1> QED
  BY PublisherInvariant, <1>1, PTL DEF PayloadFrozen, Spec

\* A close() that did not overlap a run of the timer leaves no thread that
\* could emit: the timer is idle and will not fire.
TimerSilenced ==
    /\ closer \notin {"away", "cancel"} => ~ticking
    /\ closer \notin {"away", "cancel"} /\ ~overlap => timer = "idle"

\* The client stays closed after a close() that did not overlap a run of the
\* timer: no flush connects it again.
THEOREM PublisherStaysClosed == Spec => []ClosedStaysClosed
<1> DEFINE ClosedInv == TimerSilenced /\ ClosedStaysClosed
<1>1. Init => ClosedInv
  BY DEF Init, TimerSilenced, ClosedStaysClosed
<1>2. ClosedInv /\ [Next]_vars => ClosedInv'
  <2> SUFFICES ASSUME ClosedInv, [Next]_vars PROVE ClosedInv'
    OBVIOUS
  <2> USE DEF TimerSilenced, ClosedStaysClosed
  <2>1. CASE (\E l \in Leaves : Callback(l)) \/ MapPending \/ LinkChange \/ UNCHANGED vars
    <3>1. UNCHANGED <<timer, ticking, closer, client, overlap>>
      BY <2>1 DEF Callback, MapPending, LinkChange, vars, linkVars
    <3> QED
      BY <3>1
  <2>2. CASE TimerFire \/ TimerCopy
    BY <2>2 DEF TimerFire, TimerCopy, linkVars
  <2>3. CASE TimerEmit
    BY <2>3 DEF TimerEmit, EmitPayload
  <2>4. CASE Unsubscribe \/ CancelTimer
    BY <2>4 DEF Unsubscribe, CancelTimer, linkVars
  <2>5. CASE CloseFlush \/ CloseClient
    BY <2>5 DEF CloseFlush, CloseClient, linkVars
  <2>6. CASE CloseEmit
    BY <2>6 DEF CloseEmit, EmitPayload
  <2> QED
    BY <2>1, <2>2, <2>3, <2>4, <2>5, <2>6 DEF Next, TimerThread, CloseThread
<1>3. ClosedInv => ClosedStaysClosed
  OBVIOUS
<1> QED
  BY <1>1, <1>2, <1>3, PTL DEF Spec
------------------------------------------------------------------------------
(* The order of what is shown *)

\* Nothing is pending after the last copy of close(), until a callback merges.
NothingLeft == CopiedForClose /\ ~late => pending = Empty

\* No payload is older than what was already passed to emit().
PayloadsInOrder ==
    ~overlap => \A t \in InEmit, l \in Leaves :
                    Value(snap[t], l) = 0 \/ Value(snap[t], l) >= settled[l]

\* What LIVI was shown is what was passed to emit(), unless an emit() raised or
\* wrote to a lost connection.
ShownIsSettled ==
    /\ \A l \in Leaves : shown[l] <= settled[l]
    /\ ~overlap /\ ~failed /\ ~vanished => shown = settled

OrderInv ==
    /\ TimerSilenced
    /\ closer \in {"away", "cancel"} => ~overlap
    /\ NothingLeft
    /\ FreshIsEmpty
    /\ PendingIsLatest
    /\ PayloadsInOrder
    /\ ShownIsSettled

LEMMA OrderInitially == Init => OrderInv
<1> SUFFICES ASSUME Init PROVE OrderInv
  OBVIOUS
<1>1. InEmit = {} /\ ~CopiedForClose
  BY DEF Init, InEmit, CopiedForClose
<1>2. FreshIsEmpty
  BY DEF Init, PendingInit, FreshIsEmpty
<1>3. PendingIsLatest
  BY EmptyHasNothing DEF Init, PendingInit, PendingIsLatest, Value
<1>4. ShownIsSettled
  BY DEF Init, ShownIsSettled
<1> QED
  BY <1>1, <1>2, <1>3, <1>4 DEF Init, OrderInv, TimerSilenced, NothingLeft, PayloadsInOrder

\* A step that leaves the telemetry, the payloads and who emits them alone.
LEMMA OrderQuiet ==
    ASSUME OrderInv, InEmit' = InEmit, TimerSilenced', closer' \in {"away", "cancel"} => ~overlap',
           overlap => overlap', CopiedForClose' /\ ~late' => pending = Empty,
           UNCHANGED <<bufferVars, snap, publishVars>>
    PROVE  OrderInv'
<1> USE DEF OrderInv, bufferVars, publishVars
<1>1. NothingLeft' /\ FreshIsEmpty' /\ ShownIsSettled'
  BY DEF NothingLeft, FreshIsEmpty, ShownIsSettled
<1>2. PendingIsLatest'
  BY DEF PendingIsLatest, Value, ValueIn
<1>3. PayloadsInOrder'
  BY DEF PayloadsInOrder, Value, ValueIn
<1> QED
  BY <1>1, <1>2, <1>3

LEMMA OrderCopy ==
    ASSUME PublisherInv, OrderInv, NEW t \in Threads, CopyAndClear(t), InEmit' = InEmit \cup {t},
           TimerSilenced', closer' \in {"away", "cancel"} => ~overlap',
           UNCHANGED <<publishVars, overlap>>
    PROVE  OrderInv'
<1>1. /\ snap \in [Threads -> [Keys -> 0..patches]] /\ snap' = [snap EXCEPT ![t] = pending]
      /\ pending' = Empty /\ UNCHANGED <<dicts, patches, latest, settled, shown, failed, vanished, overlap>>
      /\ InEmit \subseteq Threads
  BY DEF PublisherInv, TypeOK, CopyAndClear, publishVars, InEmit
<1>2. NothingLeft' /\ FreshIsEmpty' /\ ShownIsSettled'
  BY <1>1 DEF OrderInv, NothingLeft, FreshIsEmpty, ShownIsSettled
<1>3. PendingIsLatest'
  BY <1>1, EmptyHasNothing DEF PendingIsLatest, Value
<1>4. PayloadsInOrder'
  <2> SUFFICES ASSUME ~overlap, NEW u \in InEmit \cup {t}, NEW l \in Leaves
               PROVE  ValueIn(snap'[u], dicts, l) = 0 \/ ValueIn(snap'[u], dicts, l) >= settled[l]
    BY <1>1 DEF PayloadsInOrder, Value, ValueIn
  <2>1. CASE u = t
    <3>1. snap'[t] = pending
      BY <1>1
    <3>2. Value(pending, l) \in {0, latest[l]} /\ settled[l] <= latest[l]
      BY DEF OrderInv, PendingIsLatest, PublisherInv, NothingNewerThanLatest
    <3>3. settled[l] \in Nat /\ latest[l] \in Nat
      BY MaxPatchesAssumption DEF PublisherInv, TypeOK, PendingTypeOK
    <3> QED
      BY <2>1, <3>1, <3>2, <3>3 DEF Value
  <2>2. CASE u # t
    <3>1. u \in InEmit /\ snap'[u] = snap[u]
      BY <1>1, <2>2
    <3> QED
      BY <3>1 DEF OrderInv, PayloadsInOrder, Value
  <2> QED
    BY <2>1, <2>2
<1> QED
  BY <1>1, <1>2, <1>3, <1>4 DEF OrderInv

\* What an emit does to one field.
LEMMA EmitValues ==
    ASSUME PublisherInv, OrderInv, NEW t \in InEmit, EmitPayload(t), NEW l \in Leaves
    PROVE  /\ shown'[l] <= settled'[l] /\ settled'[l] <= latest[l]
           /\ ~overlap => shown'[l] >= shown[l]
           /\ ~overlap /\ ~failed' /\ ~vanished' => shown'[l] = settled'[l]
           /\ shown'[l] \in Nat /\ settled'[l] \in Nat
<1> DEFINE v == Value(snap[t], l)
<1>1. /\ PendingTypeOK /\ snap[t] \in [Keys -> 0..patches] /\ patches \in Nat
      /\ PendingBounded /\ PayloadBounded(snap[t])
  BY MaxPatchesAssumption DEF PublisherInv, TypeOK, PendingTypeOK, NothingNewerThanLatest, InEmit
<1>2. v \in Nat /\ v <= latest[l]
  BY <1>1, ValueBound
<1>3. /\ settled[l] \in Nat /\ shown[l] \in Nat /\ latest[l] \in Nat
      /\ settled[l] <= latest[l] /\ shown[l] <= settled[l]
  BY <1>1 DEF PublisherInv, TypeOK, PendingTypeOK, NothingNewerThanLatest, OrderInv, ShownIsSettled
<1>4. ~overlap => v = 0 \/ v >= settled[l]
  BY DEF OrderInv, PayloadsInOrder
<1>5. ~overlap /\ ~failed /\ ~vanished => shown[l] = settled[l]
  BY DEF OrderInv, ShownIsSettled
<1>6. settled'[l] = IF v > settled[l] THEN v ELSE settled[l]
  BY DEF EmitPayload
<1>7. \/ shown'[l] = (IF v # 0 THEN v ELSE shown[l]) /\ failed' = failed /\ vanished' = vanished
      \/ shown'[l] = shown[l] /\ (failed' = TRUE \/ vanished' = TRUE)
  BY DEF EmitPayload
<1> HIDE DEF v
<1> QED
  BY <1>2, <1>3, <1>4, <1>5, <1>6, <1>7

LEMMA OrderEmit ==
    ASSUME PublisherInv, OrderInv, NEW t \in InEmit, EmitPayload(t), InEmit' = InEmit \ {t},
           ~overlap => InEmit = {t}, TimerSilenced', closer' \in {"away", "cancel"} => ~overlap',
           CopiedForClose' => CopiedForClose, UNCHANGED <<overlap, late>>
    PROVE  OrderInv'
<1>1. UNCHANGED <<pending, dicts, patches, latest, overlap, late>>
  BY DEF EmitPayload, bufferVars
<1>2. NothingLeft' /\ FreshIsEmpty' /\ PendingIsLatest'
  BY <1>1 DEF OrderInv, NothingLeft, FreshIsEmpty, PendingIsLatest, Value, ValueIn
<1>3. ShownIsSettled'
  <2>1. shown' = [l \in Leaves |-> shown'[l]] /\ settled' = [l \in Leaves |-> settled'[l]]
    BY DEF EmitPayload, PublisherInv, TypeOK
  <2>2. ~overlap /\ ~failed' /\ ~vanished' => \A l \in Leaves : shown'[l] = settled'[l]
    BY EmitValues
  <2>3. ~overlap /\ ~failed' /\ ~vanished' => shown' = settled'
    BY <2>1, <2>2
  <2> QED
    BY <1>1, <2>3, EmitValues DEF ShownIsSettled
<1>4. PayloadsInOrder'
  BY <1>1 DEF PayloadsInOrder
<1> QED
  BY <1>2, <1>3, <1>4 DEF OrderInv

LEMMA OrderMerge ==
    ASSUME PublisherInv, OrderInv, MapPending
    PROVE  OrderInv'
<1>1. /\ PendingTypeOK /\ held \in SUBSET Leaves /\ patches < MaxPatches /\ MergePatch(held)
      /\ UNCHANGED <<timer, ticking, closer, snap, publishVars, overlap>>
      /\ late' = (late \/ CopiedForClose) /\ InEmit' = InEmit
      /\ snap \in [Threads -> [Keys -> 0..patches]] /\ InEmit \subseteq Threads
  BY DEF MapPending, PublisherInv, TypeOK, InEmit
<1>2. TimerSilenced' /\ NothingLeft' /\ ShownIsSettled'
  BY <1>1 DEF OrderInv, TimerSilenced, NothingLeft, CopiedForClose, ShownIsSettled, publishVars
<1>3. FreshIsEmpty' /\ PendingIsLatest'
  BY <1>1, MergeFresh, MergeIsLatest DEF OrderInv
<1>4. PayloadsInOrder'
  <2>1. ASSUME NEW t \in InEmit, NEW l \in Leaves
        PROVE  Value(snap[t], l)' = Value(snap[t], l)
    <3>1. snap[t] \in [Keys -> 0..patches] /\ Isolated(snap[t])
      BY <1>1 DEF PublisherInv
    <3> QED
      BY <1>1, <3>1, MergeKeepsPayload DEF Value
  <2> QED
    BY <1>1, <2>1 DEF OrderInv, PayloadsInOrder, publishVars
<1> QED
  BY <1>1, <1>2, <1>3, <1>4 DEF OrderInv

LEMMA OrderHolds == Spec => []OrderInv
<1>1. PublisherInv /\ OrderInv /\ [Next]_vars => OrderInv'
  <2> SUFFICES ASSUME PublisherInv, OrderInv, [Next]_vars PROVE OrderInv'
    OBVIOUS
  <2> USE DEF OrderInv, TimerSilenced, CopiedForClose, InEmit, Threads
  <2>1. CASE (\E l \in Leaves : Callback(l)) \/ LinkChange \/ UNCHANGED vars
    <3>1. UNCHANGED <<timer, ticking, closer, overlap, late, bufferVars, snap, publishVars>>
      BY <2>1 DEF Callback, LinkChange, vars
    <3> QED
      BY <3>1, OrderQuiet DEF NothingLeft
  <2>2. CASE MapPending
    BY <2>2, OrderMerge
  <2>3. CASE TimerFire \/ (TimerCopy /\ pending = Empty)
    <3>1. /\ UNCHANGED <<ticking, closer, overlap, late, bufferVars, snap, publishVars>>
          /\ timer # "emit" /\ timer' # "emit" /\ (timer = "idle" => ticking)
      BY <2>3 DEF TimerFire, TimerCopy
    <3> QED
      BY <3>1, OrderQuiet DEF NothingLeft
  <2>4. CASE TimerCopy /\ pending # Empty
    <3>1. /\ CopyAndClear("timer") /\ timer = "run" /\ timer' = "emit"
          /\ UNCHANGED <<ticking, closer, overlap, publishVars>>
      BY <2>4 DEF TimerCopy
    <3>2. InEmit' = InEmit \cup {"timer"}
      BY <3>1
    <3> QED
      BY <3>1, <3>2, OrderCopy
  <2>5. CASE TimerEmit
    <3>1. /\ EmitPayload("timer") /\ timer = "emit" /\ timer' = "idle"
          /\ UNCHANGED <<ticking, closer, overlap, late>>
      BY <2>5 DEF TimerEmit
    <3>2. "timer" \in InEmit /\ InEmit' = InEmit \ {"timer"} /\ (~overlap => InEmit = {"timer"})
      BY <3>1
    <3> QED
      BY <3>1, <3>2, OrderEmit
  <2>6. CASE Unsubscribe
    <3>1. /\ closer = "away" /\ closer' = "cancel"
          /\ UNCHANGED <<timer, ticking, overlap, late, bufferVars, snap, publishVars>>
      BY <2>6 DEF Unsubscribe
    <3>2. InEmit' = InEmit /\ TimerSilenced' /\ ~overlap' /\ ~CopiedForClose'
      BY <3>1
    <3> QED
      BY <3>1, <3>2, OrderQuiet
  <2>7. CASE CancelTimer
    <3>1. /\ closer = "cancel" /\ closer' = "flush" /\ ~ticking' /\ overlap' = (timer # "idle")
          /\ UNCHANGED <<timer, late, bufferVars, snap, publishVars>>
      BY <2>7 DEF CancelTimer
    <3>2. InEmit' = InEmit /\ TimerSilenced' /\ ~CopiedForClose' /\ ~overlap
      BY <3>1
    <3> QED
      BY <3>1, <3>2, OrderQuiet
  <2>8. CASE (CloseFlush /\ pending = Empty) \/ CloseClient
    <3>1. /\ UNCHANGED <<timer, ticking, overlap, late, bufferVars, snap, publishVars>>
          /\ \/ closer = "flush" /\ closer' = "close" /\ pending = Empty
             \/ closer = "close" /\ closer' = "done"
      BY <2>8 DEF CloseFlush, CloseClient
    <3> QED
      BY <3>1, OrderQuiet DEF NothingLeft
  <2>9. CASE CloseFlush /\ pending # Empty
    <3>1. /\ CopyAndClear("closer") /\ closer = "flush" /\ closer' = "emit"
          /\ UNCHANGED <<timer, ticking, overlap, publishVars>>
      BY <2>9 DEF CloseFlush
    <3>2. InEmit' = InEmit \cup {"closer"}
      BY <3>1
    <3> QED
      BY <3>1, <3>2, OrderCopy
  <2>10. CASE CloseEmit
    <3>1. /\ EmitPayload("closer") /\ closer = "emit" /\ closer' = "close"
          /\ UNCHANGED <<timer, ticking, overlap, late>>
      BY <2>10 DEF CloseEmit
    <3>2. "closer" \in InEmit /\ InEmit' = InEmit \ {"closer"} /\ (~overlap => InEmit = {"closer"})
      BY <3>1
    <3> QED
      BY <3>1, <3>2, OrderEmit
  <2> QED
    BY <2>1, <2>2, <2>3, <2>4, <2>5, <2>6, <2>7, <2>8, <2>9, <2>10 DEF Next, TimerThread, CloseThread
<1> QED
  BY <1>1, OrderInitially, PublisherInvariant, PTL DEF Spec

\* A close() that did not overlap a run of the timer has passed everything
\* merged before its flush to emit, and LIVI shows it unless an emit raised or
\* wrote to a lost connection.
THEOREM PublisherLosesNothing == Spec => []CloseLosesNothing
<1>1. PublisherInv /\ OrderInv => CloseLosesNothing
  <2> SUFFICES ASSUME PublisherInv, OrderInv, closer = "done", ~overlap, ~late
               PROVE  settled = latest /\ (~failed /\ ~vanished => shown = latest)
    BY DEF CloseLosesNothing
  <2>1. pending = Empty /\ InEmit = {}
    BY DEF OrderInv, NothingLeft, CopiedForClose, TimerSilenced, InEmit
  <2>2. ASSUME NEW l \in Leaves PROVE settled[l] = latest[l]
    <3>1. Value(pending, l) = 0
      BY <2>1, EmptyHasNothing DEF Value
    <3>2. latest[l] # 0 => settled[l] = latest[l]
      BY <2>1, <3>1 DEF PublisherInv, NoLostUpdate
    <3>3. settled[l] \in Nat /\ latest[l] \in Nat /\ settled[l] <= latest[l]
      BY MaxPatchesAssumption DEF PublisherInv, TypeOK, PendingTypeOK, NothingNewerThanLatest
    <3> QED
      BY <3>2, <3>3
  <2>3. settled = latest
    BY <2>2 DEF PublisherInv, TypeOK, PendingTypeOK
  <2> QED
    BY <2>3 DEF OrderInv, ShownIsSettled
<1> QED
  BY PublisherInvariant, OrderHolds, <1>1, PTL

\* The publisher implements the telemetry feed: LIVI is never shown an older
\* value after a newer one, until a close() overlaps a run of the timer.
THEOREM PublisherImplementsFeed == Spec => FeedSpec
<1> USE DEF Feed!feedVars
<1>1. Init => Feed!FeedInit
  BY DEF Init, PendingInit, Feed!FeedInit
<1>2. PublisherInv /\ OrderInv /\ [Next]_vars => [Feed!FeedNext]_(Feed!feedVars)
  <2> SUFFICES ASSUME PublisherInv, OrderInv, [Next]_vars
               PROVE  [Feed!FeedNext]_(Feed!feedVars)
    OBVIOUS
  <2>1. CASE MapPending
    <3>1. /\ PendingTypeOK /\ held \in SUBSET Leaves /\ patches < MaxPatches /\ MergePatch(held)
      BY <2>1 DEF MapPending, PublisherInv, TypeOK
    <3>2. \A l \in Leaves : latest[l] <= latest'[l] /\ latest[l] \in Nat /\ latest'[l] \in Nat
      BY <3>1, MergeTypes, MaxPatchesAssumption DEF PendingTypeOK
    <3>3. \A l \in Leaves : latest'[l] >= latest[l]
      BY <3>2
    <3> QED
      BY <2>1, <3>3 DEF MapPending, publishVars, Feed!FeedNext, Feed!Accept
  <2>2. CASE TimerEmit \/ CloseEmit
    <3>1. PICK t \in InEmit : EmitPayload(t)
      BY <2>2 DEF TimerEmit, CloseEmit, InEmit, Threads
    <3>2. UNCHANGED <<latest, overlap>>
      BY <2>2 DEF TimerEmit, CloseEmit, EmitPayload, bufferVars
    <3>3. ASSUME NEW l \in Leaves
          PROVE  shown'[l] <= latest[l] /\ (~overlap => shown'[l] >= shown[l])
      <4>1. latest[l] \in Nat
        BY MaxPatchesAssumption DEF PublisherInv, TypeOK, PendingTypeOK
      <4> QED
        BY <3>1, <4>1, EmitValues
    <3> QED
      BY <3>2, <3>3 DEF Feed!FeedNext, Feed!Publish
  <2>3. CASE CancelTimer
    <3>1. ~overlap /\ UNCHANGED <<latest, shown>> /\ overlap' \in BOOLEAN
      BY <2>3 DEF CancelTimer, OrderInv, bufferVars, publishVars
    <3> QED
      BY <3>1 DEF Feed!FeedNext, Feed!GiveUp
  <2>4. CASE ~(MapPending \/ TimerEmit \/ CloseEmit \/ CancelTimer)
    <3>1. UNCHANGED <<latest, shown, overlap>>
      BY <2>4 DEF Next, Callback, TimerThread, TimerFire, TimerCopy, Unsubscribe, CloseThread,
         CloseFlush, CloseClient, CopyAndClear, LinkChange, bufferVars, publishVars, vars
    <3> QED
      BY <3>1
  <2> QED
    BY <2>1, <2>2, <2>3, <2>4
<1> QED
  BY <1>1, <1>2, PublisherInvariant, OrderHolds, PTL DEF Spec, FeedSpec, Feed!FeedSpec
------------------------------------------------------------------------------
(* The life cycle of the plugin *)

Subscribing == {"describe", "put", "subscribe"}
Working == {"list"} \cup Subscribing

\* What the thread of initialize and close may rely on where it stands.
StagesInv ==
    /\ publisher \in {0, made}
    /\ pc \in {"load", "construct"} => publisher = 0
    /\ pc \in {"construct"} \cup Working => server \in Servers
    /\ pc \in Working => publisher # 0
    /\ pc \in {"close", "load", "construct", "list"} => subs = {}
    /\ pc \notin {"idle", "unsubscribe"} => ~streaming
    /\ pc \in {"put", "subscribe"} => left # <<>> /\ ShouldSubscribe(settings, Head(left))

\* Who is subscribed: the current publisher, on the current server, to channels
\* that are selected; and none of those that were looked at is missing.
SubscriptionsInv ==
    /\ \A s \in subs : s = <<server, s[2], publisher>> /\ ShouldSubscribe(settings, s[2])
    /\ pc \in Subscribing => \A name \in Selected :
         <<server, name, publisher>> \in subs \/ \E i \in DOMAIN left : left[i] = name
    /\ streaming => subs = {<<server, name, publisher>> : name \in Selected}

\* Who holds a connection or a socket.
ResourcesInv ==
    /\ \A p \in Publishers : p > made => resource[p] = "none"
    /\ \A p \in Publishers : resource[p] = "open" =>
         p = publisher \/ p \in threw \/ p \in overlapped

LifeInv == PluginTypeOK /\ StagesInv /\ SubscriptionsInv /\ ResourcesInv

\* The names that are listed are channels.
LEMMA ListedNames == ChannelList \in Seq(Names)
<1>1. ChannelList \in [1..Len(ChannelList) -> DOMAIN UnitsOf] /\ Len(ChannelList) \in Nat
  BY ChannelListAssumption
<1>2. \A i \in 1..Len(ChannelList) : ChannelList[i] \in Names
  BY <1>1 DEF Names
<1> QED
  BY <1>1, <1>2

\* What is left after the first of the names: no other name is dropped.
LEMMA TailKeeps ==
    ASSUME NEW s \in Seq(Names), s # <<>>
    PROVE  /\ Head(s) \in Names
           /\ Tail(s) \in Seq(Names)
           /\ \A name : (\E i \in DOMAIN s : s[i] = name) =>
                name = Head(s) \/ \E i \in DOMAIN Tail(s) : Tail(s)[i] = name
<1>1. Len(s) \in Nat /\ Len(s) > 0 /\ DOMAIN s = 1..Len(s)
  BY EmptySeq
<1>2. /\ Head(s) = s[1] /\ Head(s) \in Names
      /\ Tail(s) \in Seq(Names)
      /\ Len(Tail(s)) = Len(s) - 1
      /\ \A i \in 1..Len(Tail(s)) : Tail(s)[i] = s[i + 1]
  BY <1>1, HeadTailProperties
<1>3. ASSUME NEW i \in DOMAIN s, i # 1
      PROVE  i - 1 \in DOMAIN Tail(s) /\ Tail(s)[i - 1] = s[i]
  <2>1. i - 1 \in 1..Len(Tail(s)) /\ (i - 1) + 1 = i
    BY <1>1, <1>2, <1>3
  <2>2. DOMAIN Tail(s) = 1..Len(Tail(s))
    BY <1>2
  <2> QED
    BY <1>2, <2>1, <2>2
<1> QED
  BY <1>2, <1>3

LEMMA LifeInitially == PluginInit => LifeInv
<1> SUFFICES ASSUME PluginInit PROVE LifeInv
  OBVIOUS
<1> USE DEF PluginInit
<1>1. PluginTypeOK
  <2>1. /\ publisher \in 0..made /\ made \in 0..MaxPublishers
        /\ opened \in [Publishers -> AllSettings \cup {NoSettings}]
        /\ resource \in [Publishers -> {"none", "open", "closed"}]
    BY MaxPublishersAssumption
  <2>2. units \in [Publishers -> [Names -> {NoUnits} \cup {UnitsOf[name] : name \in Names}]]
    OBVIOUS
  <2>3. subs \in SUBSET (Servers \X Names \X Publishers) /\ left \in Seq(Names)
    OBVIOUS
  <2> QED
    BY <2>1, <2>2, <2>3 DEF PluginTypeOK
<1>2. StagesInv
  BY DEF StagesInv, Working, Subscribing
<1>3. SubscriptionsInv
  BY DEF SubscriptionsInv, Subscribing
<1>4. ResourcesInv
  BY DEF ResourcesInv
<1> QED
  BY <1>1, <1>2, <1>3, <1>4 DEF LifeInv

\* A step that changes nothing that LifeInv speaks of, except where the thread
\* stands: it ends initialize(), or begins to close.
LEMMA PassingStep ==
    ASSUME LifeInv,
           UNCHANGED <<settings, left, streaming, publisherVars>>,
           \/ UNCHANGED <<pc, closing>>
           \/ pc' = "idle" /\ ~streaming /\ UNCHANGED closing
           \/ pc = "idle" /\ pc' = "unsubscribe" /\ closing' \in {"load", "idle"}
    PROVE  LifeInv'
<1> USE DEF LifeInv, publisherVars
<1>1. PluginTypeOK'
  BY DEF PluginTypeOK, Publishers
<1>2. StagesInv'
  BY DEF StagesInv, Working, Subscribing
<1>3. SubscriptionsInv'
  BY DEF SubscriptionsInv, Subscribing, Selected
<1>4. ResourcesInv'
  BY DEF ResourcesInv, Publishers
<1> QED
  BY <1>1, <1>2, <1>3, <1>4

\* closePublisher takes every subscription away, and the publisher with it.
LEMMA ClosePublisherStep ==
    ASSUME LifeInv, UnsubscribeCurrent \/ ClosePublisher
    PROVE  LifeInv'
<1> USE DEF LifeInv
<1>1. CASE UnsubscribeCurrent
  <2> USE <1>1 DEF UnsubscribeCurrent, Goto, callVars
  <2>1. subs' = {}
    <3>1. ASSUME NEW s \in subs PROVE s[1] = server /\ s[3] = publisher
      <4>1. s = <<server, s[2], publisher>>
        BY DEF SubscriptionsInv
      <4> QED
        BY <4>1
    <3> QED
      BY <3>1
  <2>2. PluginTypeOK'
    BY <2>1 DEF PluginTypeOK, Publishers
  <2>3. StagesInv'
    BY <2>1 DEF StagesInv, Working, Subscribing
  <2>4. SubscriptionsInv'
    BY <2>1 DEF SubscriptionsInv, Subscribing
  <2>5. ResourcesInv'
    BY DEF ResourcesInv
  <2> QED
    BY <2>2, <2>3, <2>4, <2>5
<1>2. CASE ClosePublisher
  <2> USE <1>2 DEF ClosePublisher, Goto
  <2>1. subs = {} /\ subs' = {} /\ ~streaming /\ pc' \in {"load", "idle"}
    BY DEF StagesInv, PluginTypeOK
  <2>2. \/ resource' = resource
        \/ publisher \in Publishers /\ resource' = [resource EXCEPT ![publisher] = "closed"]
    BY MaxPublishersAssumption DEF PluginTypeOK, Publishers
  <2>3. PluginTypeOK'
    <3>1. overlapped' \subseteq Publishers
      <4>1. overlapped \subseteq Publishers
        BY DEF PluginTypeOK
      <4>2. publisher # 0 => publisher \in Publishers
        BY MaxPublishersAssumption DEF PluginTypeOK, Publishers
      <4>3. \/ UNCHANGED overlapped
            \/ publisher # 0 /\ overlapped' = overlapped \cup {publisher}
        BY <1>2 DEF ClosePublisher
      <4> QED
        BY <4>1, <4>2, <4>3
    <3>2. resource' \in [Publishers -> {"none", "open", "closed"}]
      BY <2>2 DEF PluginTypeOK
    <3>3. publisher' \in 0..made'
      BY MaxPublishersAssumption DEF PluginTypeOK
    <3> QED
      BY <2>1, <3>1, <3>2, <3>3 DEF PluginTypeOK, Publishers
  <2>4. StagesInv'
    BY <2>1 DEF StagesInv, Working, Subscribing
  <2>5. SubscriptionsInv'
    BY <2>1 DEF SubscriptionsInv, Subscribing
  <2>6. ResourcesInv'
    <3>1. overlapped \subseteq overlapped' /\ UNCHANGED <<made, threw>>
      OBVIOUS
    <3>2. ASSUME NEW p \in Publishers, p > made
          PROVE  resource'[p] = "none"
      <4>1. p # publisher
        BY <3>2, MaxPublishersAssumption DEF PluginTypeOK, Publishers
      <4> QED
        BY <2>2, <3>2, <4>1 DEF ResourcesInv, PluginTypeOK
    <3>3. ASSUME NEW p \in Publishers, resource'[p] = "open"
          PROVE  p \in threw \/ p \in overlapped
      <4>1. CASE publisher = 0
        BY <3>3, <4>1 DEF ResourcesInv, Publishers
      <4>2. CASE publisher # 0
        <5>1. p # publisher /\ resource[p] = "open"
          BY <3>3, <4>2, <2>2 DEF PluginTypeOK
        <5> QED
          BY <5>1 DEF ResourcesInv
      <4> QED
        BY <4>1, <4>2
    <3> QED
      BY <3>1, <3>2, <3>3 DEF ResourcesInv, Publishers
  <2> QED
    BY <2>3, <2>4, <2>5, <2>6
<1> QED
  BY <1>1, <1>2

\* The run of the timer that close() did not wait for.
LEMMA StrayStep ==
    ASSUME LifeInv, NEW p \in Publishers, StraySend(p)
    PROVE  LifeInv'
<1> USE DEF LifeInv, StraySend, threadVars, callVars
<1>1. PluginTypeOK'
  BY DEF PluginTypeOK, Publishers
<1>2. StagesInv'
  BY DEF StagesInv, Working, Subscribing
<1>3. SubscriptionsInv'
  BY DEF SubscriptionsInv, Subscribing, Selected
<1>4. ResourcesInv'
  <2>1. \A q \in Publishers \ {p} : resource'[q] = resource[q]
    BY DEF PluginTypeOK
  <2>2. ~(p > made)
    BY DEF ResourcesInv
  <2> QED
    BY <2>1, <2>2 DEF ResourcesInv, Publishers
<1> QED
  BY <1>1, <1>2, <1>3, <1>4

\* initialize() up to the constructor: nobody is subscribed.
LEMMA LoadStep ==
    ASSUME LifeInv, Load
    PROVE  LifeInv'
<1> USE DEF LifeInv, Load, Goto, callVars
<1>1. pc = "load" /\ pc' \in {"construct", "idle"} /\ publisher = 0 /\ subs = {} /\ ~streaming
  BY DEF StagesInv
<1>2. PluginTypeOK'
  BY DEF PluginTypeOK, Publishers
<1>3. StagesInv'
  BY <1>1 DEF StagesInv, Working, Subscribing
<1>4. SubscriptionsInv'
  BY <1>1 DEF SubscriptionsInv, Subscribing
<1>5. ResourcesInv'
  BY <1>1 DEF ResourcesInv, Publishers
<1> QED
  BY <1>2, <1>3, <1>4, <1>5

LEMMA ConstructStep ==
    ASSUME LifeInv, Construct
    PROVE  LifeInv'
<1> USE DEF LifeInv, Construct, Goto, callVars
<1>1. pc = "construct" /\ publisher = 0 /\ subs = {} /\ ~streaming
  BY DEF StagesInv
<1>2. made' \in Publishers /\ made' = made + 1 /\ made \in Nat
  BY MaxPublishersAssumption DEF PluginTypeOK, Publishers
<1>3. resource' \in {resource, [resource EXCEPT ![made'] = "open"]}
  OBVIOUS
<1>4. PluginTypeOK'
  <2>1. opened' \in [Publishers -> AllSettings \cup {NoSettings}]
    BY <1>2 DEF PluginTypeOK
  <2>2. resource' \in [Publishers -> {"none", "open", "closed"}]
    BY <1>2, <1>3 DEF PluginTypeOK
  <2>3. threw' \subseteq Publishers
    BY <1>2 DEF PluginTypeOK
  <2>4. publisher' \in 0..made' /\ made' \in 0..MaxPublishers
    BY <1>1, <1>2, MaxPublishersAssumption DEF PluginTypeOK, Publishers
  <2> QED
    BY <2>1, <2>2, <2>3, <2>4 DEF PluginTypeOK, Publishers
<1>5. StagesInv'
  <2>1. publisher' \in {0, made'} /\ (pc' = "list" => publisher' # 0)
    BY <1>1, <1>2
  <2> QED
    BY <1>1, <2>1 DEF StagesInv, Working, Subscribing
<1>6. SubscriptionsInv'
  BY <1>1 DEF SubscriptionsInv, Subscribing
<1>7. ResourcesInv'
  <2>1. \A q \in Publishers \ {made'} : resource'[q] = resource[q]
    BY <1>2, <1>3 DEF PluginTypeOK
  <2>2. ASSUME NEW q \in Publishers, q > made'
        PROVE  resource'[q] = "none"
    <3>1. q > made /\ q # made'
      BY <1>2, <2>2 DEF Publishers
    <3> QED
      BY <2>1, <3>1 DEF ResourcesInv
  <2>3. ASSUME NEW q \in Publishers, resource'[q] = "open"
        PROVE  q = publisher' \/ q \in threw' \/ q \in overlapped'
    <3>1. CASE q = made'
      <4>1. resource[q] = "none"
        BY <3>1, <1>2 DEF ResourcesInv
      <4> QED
        BY <3>1, <2>3, <4>1
    <3>2. CASE q # made'
      <4>1. resource[q] = "open" /\ q # 0
        BY <2>1, <2>3, <3>2 DEF Publishers
      <4> QED
        BY <1>1, <4>1 DEF ResourcesInv
    <3> QED
      BY <3>1, <3>2
  <2> QED
    BY <2>2, <2>3 DEF ResourcesInv, Publishers
<1> QED
  BY <1>4, <1>5, <1>6, <1>7

\* subscribeOutputChannels: an iteration may begin, and a name that the settings
\* do not select is passed over.
LEMMA ListStep ==
    ASSUME LifeInv, ListChannels
    PROVE  LifeInv'
<1> USE DEF LifeInv, ListChannels, Goto, callVars, publisherVars
<1>1. PluginTypeOK'
  BY ListedNames DEF PluginTypeOK, Publishers
<1>2. StagesInv'
  BY DEF StagesInv, Working, Subscribing
<1>3. SubscriptionsInv'
  <2>1. ASSUME NEW name \in Names PROVE \E i \in DOMAIN left' : left'[i] = name
    BY DEF Names
  <2>2. subs = {} /\ subs' = {} /\ ~streaming'
    BY DEF StagesInv
  <2> QED
    BY <2>1, <2>2 DEF SubscriptionsInv, Selected
<1>4. ResourcesInv'
  BY DEF ResourcesInv, Publishers
<1> QED
  BY <1>1, <1>2, <1>3, <1>4

LEMMA SkipStep ==
    ASSUME LifeInv, Skip
    PROVE  LifeInv'
<1> USE DEF LifeInv, Skip, Goto, callVars, publisherVars
<1>1. left \in Seq(Names) /\ left # <<>>
  BY DEF PluginTypeOK
<1>2. PluginTypeOK'
  BY <1>1, TailKeeps DEF PluginTypeOK, Publishers
<1>3. StagesInv'
  BY DEF StagesInv, Working, Subscribing
<1>4. SubscriptionsInv'
  <2>1. ASSUME NEW name \in Selected
        PROVE  <<server, name, publisher>> \in subs \/ \E i \in DOMAIN Tail(left) : Tail(left)[i] = name
    <3>1. <<server, name, publisher>> \in subs \/ \E i \in DOMAIN left : left[i] = name
      BY <2>1 DEF SubscriptionsInv, Subscribing
    <3>2. name # Head(left)
      BY <2>1 DEF Selected
    <3> QED
      BY <1>1, <3>1, <3>2, TailKeeps
  <2>2. ~streaming'
    BY DEF StagesInv
  <2> QED
    BY <2>1, <2>2 DEF SubscriptionsInv, Selected
<1>5. ResourcesInv'
  BY DEF ResourcesInv, Publishers
<1> QED
  BY <1>2, <1>3, <1>4, <1>5

LEMMA DescribeStep ==
    ASSUME LifeInv, Describe \/ Put
    PROVE  LifeInv'
<1> USE DEF LifeInv, Describe, Put, Goto, callVars, publisherVars
<1>1. /\ UNCHANGED <<closing, settings, left, streaming, server, publisher, made, opened, resource,
                     subs, threw, overlapped>>
      /\ pc \in {"describe", "put"} /\ pc' \in {"put", "subscribe"}
  OBVIOUS
<1>2. units' \in [Publishers -> [Names -> {NoUnits} \cup {UnitsOf[name] : name \in Names}]]
  <2>1. CASE Describe
    BY <2>1 DEF PluginTypeOK
  <2>2. CASE Put
    <3>1. left # <<>>
      BY <2>2 DEF StagesInv
    <3>2. Head(left) \in Names
      BY <3>1, TailKeeps DEF PluginTypeOK
    <3>3. [units[publisher] EXCEPT ![Head(left)] = UnitsOf[Head(left)]]
              \in [Names -> {NoUnits} \cup {UnitsOf[name] : name \in Names}]
          \/ publisher \notin Publishers
      BY <3>2 DEF PluginTypeOK
    <3> QED
      BY <2>2, <3>3 DEF PluginTypeOK
  <2> QED
    BY <2>1, <2>2
<1>3. PluginTypeOK'
  BY <1>1, <1>2 DEF PluginTypeOK, Publishers
<1>4. StagesInv'
  <2>1. left # <<>> /\ ShouldSubscribe(settings, Head(left))
    BY DEF StagesInv
  <2> QED
    BY <1>1, <2>1 DEF StagesInv, Working, Subscribing
<1>5. SubscriptionsInv'
  <2>1. ~streaming'
    BY <1>1 DEF StagesInv
  <2> QED
    BY <1>1, <2>1 DEF SubscriptionsInv, Subscribing, Selected
<1>6. ResourcesInv'
  BY <1>1 DEF ResourcesInv, Publishers
<1> QED
  BY <1>3, <1>4, <1>5, <1>6

LEMMA SubscribeStep ==
    ASSUME LifeInv, Subscribe
    PROVE  LifeInv'
<1> USE DEF LifeInv, Subscribe, Goto, callVars, publisherVars
<1>1. left \in Seq(Names) /\ left # <<>> /\ ShouldSubscribe(settings, Head(left))
  BY DEF PluginTypeOK, StagesInv
<1>2. server \in Servers /\ publisher \in Publishers
  BY MaxPublishersAssumption DEF StagesInv, Working, Subscribing, PluginTypeOK, Publishers
<1>3. PluginTypeOK'
  BY <1>1, <1>2, TailKeeps DEF PluginTypeOK, Publishers
<1>4. StagesInv'
  BY DEF StagesInv, Working, Subscribing
<1>5. SubscriptionsInv'
  <2>1. ASSUME NEW s \in subs'
        PROVE  s = <<server, s[2], publisher>> /\ ShouldSubscribe(settings, s[2])
    <3>1. CASE s \in subs
      BY <3>1 DEF SubscriptionsInv
    <3>2. CASE s = <<server, Head(left), publisher>>
      BY <3>2, <1>1
    <3> QED
      BY <2>1, <3>1, <3>2
  <2>2. ASSUME NEW name \in Selected
        PROVE  <<server, name, publisher>> \in subs' \/ \E i \in DOMAIN Tail(left) : Tail(left)[i] = name
    <3>1. <<server, name, publisher>> \in subs \/ \E i \in DOMAIN left : left[i] = name
      BY <2>2 DEF SubscriptionsInv, Subscribing
    <3> QED
      BY <1>1, <3>1, TailKeeps
  <2>3. ~streaming'
    BY DEF StagesInv
  <2> QED
    BY <2>1, <2>2, <2>3 DEF SubscriptionsInv, Selected
<1>6. ResourcesInv'
  BY DEF ResourcesInv, Publishers
<1> QED
  BY <1>3, <1>4, <1>5, <1>6

LEMMA StreamingStep ==
    ASSUME LifeInv, Streaming
    PROVE  LifeInv'
<1> USE DEF LifeInv, Streaming, Goto, callVars, publisherVars
<1>1. PluginTypeOK'
  BY DEF PluginTypeOK, Publishers
<1>2. StagesInv'
  BY DEF StagesInv, Working, Subscribing
<1>3. SubscriptionsInv'
  <2>1. \A name \in Selected : <<server, name, publisher>> \in subs
    BY DEF SubscriptionsInv, Subscribing
  <2>2. ASSUME NEW s \in subs
        PROVE  s \in {<<server, name, publisher>> : name \in Selected}
    <3>1. s = <<server, s[2], publisher>> /\ s[2] \in Selected
      BY DEF SubscriptionsInv, Selected, PluginTypeOK
    <3> QED
      BY <3>1
  <2>3. subs = {<<server, name, publisher>> : name \in Selected}
    BY <2>1, <2>2
  <2> QED
    BY <2>3 DEF SubscriptionsInv, Subscribing, Selected
<1>4. ResourcesInv'
  BY DEF ResourcesInv, Publishers
<1> QED
  BY <1>1, <1>2, <1>3, <1>4

LEMMA LifeStep == LifeInv /\ [PluginNext]_pluginVars => LifeInv'
<1> SUFFICES ASSUME LifeInv, [PluginNext]_pluginVars PROVE LifeInv'
  OBVIOUS
<1>1. CASE Initialize \/ Close
  BY <1>1, PassingStep DEF Initialize, Close, Goto
<1>2. CASE UnsubscribeCurrent \/ ClosePublisher
  BY <1>2, ClosePublisherStep
<1>3. CASE Load
  BY <1>3, LoadStep
<1>4. CASE Construct
  BY <1>4, ConstructStep
<1>5. CASE Raises("list") \/ Raises("describe") \/ Raises("subscribe")
  <2>1. ~streaming
    BY <1>5 DEF Raises, Goto, LifeInv, StagesInv
  <2> QED
    BY <1>5, <2>1, PassingStep DEF Raises, Goto
<1>6. CASE ListChannels
  BY <1>6, ListStep
<1>7. CASE Skip
  BY <1>7, SkipStep
<1>8. CASE Describe \/ Put
  BY <1>8, DescribeStep
<1>9. CASE Subscribe
  BY <1>9, SubscribeStep
<1>10. CASE Streaming
  BY <1>10, StreamingStep
<1>11. CASE CallbackThread
  BY <1>11, PassingStep DEF CallbackThread, BeginCallback, Deliver, threadVars
<1>12. CASE \E p \in Publishers : StraySend(p)
  BY <1>12, StrayStep
<1>13. CASE UNCHANGED pluginVars
  BY <1>13, PassingStep DEF pluginVars, threadVars
<1> QED
  BY <1>1, <1>2, <1>3, <1>4, <1>5, <1>6, <1>7, <1>8, <1>9, <1>10, <1>11, <1>12, <1>13
     DEF PluginNext, PluginThread

LEMMA LifeInvariant == PluginSpec => []LifeInv
BY LifeInitially, LifeStep, PTL DEF PluginSpec

\* Every variable of the plugin's life cycle has its type.
THEOREM PluginTypeCorrect == PluginSpec => []PluginTypeOK
<1>1. LifeInv => PluginTypeOK
  BY DEF LifeInv
<1> QED
  BY <1>1, LifeInvariant, PTL

\* However often the plugin is initialised and closed and wherever that fails,
\* only the current publisher is subscribed, to exactly the selected channels
\* once initialize() came to its end, and only it holds a connection or a socket
\* but for the two known exceptions: for any servers, channels, settings and any
\* number of publishers.
THEOREM PluginOnlyCurrentLives == PluginSpec => []OnlyCurrentLives
<1>1. LifeInv => OnlyCurrentLives
  <2> SUFFICES ASSUME LifeInv PROVE OnlyCurrentLives
    OBVIOUS
  <2>1. ASSUME NEW s \in subs PROVE s[3] = publisher
    <3>1. s = <<server, s[2], publisher>>
      BY DEF LifeInv, SubscriptionsInv
    <3> QED
      BY <3>1
  <2> QED
    BY <2>1 DEF LifeInv, SubscriptionsInv, ResourcesInv, OnlyCurrentLives
<1> QED
  BY <1>1, LifeInvariant, PTL

\* The units that a publisher has of a channel are the right ones or none yet,
\* and not none any more once the channel is subscribed; so a callback that
\* found none either looked at the map during a put, or there are none.
UnitsInv ==
    /\ \A p \in Publishers, name \in Names : units[p][name] \in {NoUnits, TrueUnits(name)}
    /\ \A s \in subs : units[s[3]][s[2]] = TrueUnits(s[2])
    /\ pc = "put" => Head(left) \notin Undescribed
    /\ pc = "subscribe" => units[publisher][Head(left)] = TrueUnits(Head(left))
    /\ call # NoCall /\ ~call.raced => call.units = TrueUnits(call.name)
    /\ UnitsReachTheMapper

LEMMA UnitsInitially == PluginInit => UnitsInv
BY DEF PluginInit, UnitsInv, UnitsReachTheMapper, NoUnits

\* A step that registers and subscribes nothing.
LEMMA UnitsKept ==
    ASSUME UnitsInv,
           UNCHANGED <<units, call, reading>>,
           subs' \subseteq subs,
           pc' \notin {"put", "subscribe"} \/ UNCHANGED <<pc, left, publisher>>
    PROVE  UnitsInv'
BY DEF UnitsInv, UnitsReachTheMapper, TrueUnits, Publishers

\* getOutputChannel: without a description there are no units to wait for.
LEMMA UnitsDescribe ==
    ASSUME LifeInv, UnitsInv, Describe
    PROVE  UnitsInv'
<1> USE DEF Describe, Goto, publisherVars, callVars
<1>1. Head(left) \in Undescribed => units[publisher][Head(left)] = TrueUnits(Head(left))
  <2>1. Head(left) \in Names
    BY TailKeeps DEF LifeInv, PluginTypeOK
  <2>2. publisher \in Publishers
    BY MaxPublishersAssumption DEF LifeInv, StagesInv, Working, Subscribing, PluginTypeOK, Publishers
  <2> QED
    BY <2>1, <2>2 DEF UnitsInv, TrueUnits
<1> QED
  BY <1>1 DEF UnitsInv, UnitsReachTheMapper, TrueUnits, Publishers

\* registerChannel: the right units are put, also over what is there.
LEMMA UnitsPut ==
    ASSUME LifeInv, UnitsInv, Put
    PROVE  UnitsInv'
<1> USE DEF Put, Goto, callVars
<1>1. left # <<>> /\ Head(left) \in Names
  BY TailKeeps DEF LifeInv, StagesInv, PluginTypeOK
<1>2. publisher \in Publishers
  BY MaxPublishersAssumption DEF LifeInv, StagesInv, Working, Subscribing, PluginTypeOK, Publishers
<1>3. UnitsOf[Head(left)] = TrueUnits(Head(left))
  BY DEF UnitsInv, TrueUnits
<1>4. ASSUME NEW p \in Publishers, NEW name \in Names
      PROVE  units'[p][name] = IF p = publisher /\ name = Head(left) THEN TrueUnits(name)
                                                                     ELSE units[p][name]
  BY <1>1, <1>2, <1>3 DEF LifeInv, PluginTypeOK
<1>5. ASSUME NEW s \in subs PROVE units'[s[3]][s[2]] = TrueUnits(s[2])
  <2>1. s[3] \in Publishers /\ s[2] \in Names
    BY DEF LifeInv, PluginTypeOK
  <2>2. units[s[3]][s[2]] = TrueUnits(s[2])
    BY DEF UnitsInv
  <2> QED
    BY <2>1, <2>2, <1>4
<1>6. \A p \in Publishers, name \in Names : units'[p][name] \in {NoUnits, TrueUnits(name)}
  BY <1>4 DEF UnitsInv
<1>7. units'[publisher][Head(left)] = TrueUnits(Head(left))
  BY <1>1, <1>2, <1>4
<1> QED
  BY <1>5, <1>6, <1>7 DEF UnitsInv, UnitsReachTheMapper, TrueUnits, Publishers

LEMMA UnitsSubscribe ==
    ASSUME LifeInv, UnitsInv, Subscribe
    PROVE  UnitsInv'
<1> USE DEF Subscribe, Goto, callVars
<1>1. ASSUME NEW s \in subs' PROVE units[s[3]][s[2]] = TrueUnits(s[2])
  <2>1. CASE s \in subs
    BY <2>1 DEF UnitsInv
  <2>2. CASE s = <<server, Head(left), publisher>>
    BY <2>2 DEF UnitsInv
  <2> QED
    BY <2>1, <2>2
<1> QED
  BY <1>1 DEF UnitsInv, UnitsReachTheMapper, TrueUnits, Publishers

\* A callback: what it finds in the map, and what it makes of it.
LEMMA UnitsCallback ==
    ASSUME LifeInv, UnitsInv, CallbackThread
    PROVE  UnitsInv'
<1> USE DEF threadVars, publisherVars
<1>1. UNCHANGED <<pc, left, publisher, units, subs>>
  BY DEF CallbackThread, BeginCallback, Deliver
<1>2. CASE BeginCallback
  <2> PICK s \in subs : \E raw \in RawsOf[s[2]], u \in Lookup(s[3], s[2]) :
        call' = [pub |-> s[3], name |-> s[2], raw |-> raw, units |-> u, raced |-> pc = "put"]
    BY <1>2 DEF BeginCallback
  <2>1. PICK raw \in RawsOf[s[2]], u \in Lookup(s[3], s[2]) :
          call' = [pub |-> s[3], name |-> s[2], raw |-> raw, units |-> u, raced |-> pc = "put"]
    OBVIOUS
  <2>2. pc # "put" => u = TrueUnits(s[2])
    BY DEF Lookup, UnitsInv
  <2>3. ~call'.raced => call'.units = TrueUnits(call'.name)
    BY <2>1, <2>2
  <2>4. reading' = NoCall
    BY <1>2 DEF BeginCallback
  <2> QED
    BY <1>1, <2>3, <2>4 DEF UnitsInv, UnitsReachTheMapper, TrueUnits, Publishers
<1>3. CASE Deliver
  <2>1. call # NoCall /\ call' = NoCall
    BY <1>3 DEF Deliver
  <2>2. reading' # NoCall /\ ~reading'.raced => reading'.units = TrueUnits(reading'.name)
    <3>1. CASE \E patch : CameTo(patch)
      BY <3>1, <2>1 DEF CameTo, UnitsInv
    <3>2. CASE UNCHANGED reading
      BY <3>2 DEF UnitsInv, UnitsReachTheMapper
    <3> QED
      BY <1>3, <3>1, <3>2 DEF Deliver
  <2> QED
    BY <1>1, <2>1, <2>2 DEF UnitsInv, UnitsReachTheMapper, TrueUnits, Publishers
<1> QED
  BY <1>2, <1>3 DEF CallbackThread

LEMMA UnitsStep == LifeInv /\ UnitsInv /\ [PluginNext]_pluginVars => UnitsInv'
<1> SUFFICES ASSUME LifeInv, UnitsInv, [PluginNext]_pluginVars PROVE UnitsInv'
  OBVIOUS
<1> USE DEF Goto, threadVars, publisherVars, callVars
<1>1. CASE Initialize \/ Close
  BY <1>1, UnitsKept DEF Initialize, Close
<1>2. CASE UnsubscribeCurrent
  <2>1. subs' \subseteq subs
    BY <1>2 DEF UnsubscribeCurrent
  <2> QED
    BY <1>2, <2>1, UnitsKept DEF UnsubscribeCurrent
<1>3. CASE ClosePublisher
  <2>1. closing \in {"load", "idle"}
    BY DEF LifeInv, PluginTypeOK
  <2> QED
    BY <1>3, <2>1, UnitsKept DEF ClosePublisher
<1>4. CASE Load \/ Construct
  BY <1>4, UnitsKept DEF Load, Construct
<1>5. CASE Raises("list") \/ Raises("describe") \/ Raises("subscribe")
  BY <1>5, UnitsKept DEF Raises
<1>6. CASE ListChannels \/ Skip \/ Streaming
  BY <1>6, UnitsKept DEF ListChannels, Skip, Streaming
<1>7. CASE Describe
  BY <1>7, UnitsDescribe
<1>8. CASE Put
  BY <1>8, UnitsPut
<1>9. CASE Subscribe
  BY <1>9, UnitsSubscribe
<1>10. CASE CallbackThread
  BY <1>10, UnitsCallback
<1>11. CASE \E p \in Publishers : StraySend(p)
  BY <1>11, UnitsKept DEF StraySend
<1>12. CASE UNCHANGED pluginVars
  BY <1>12, UnitsKept DEF pluginVars
<1> QED
  BY <1>1, <1>2, <1>3, <1>4, <1>5, <1>6, <1>7, <1>8, <1>9, <1>10, <1>11, <1>12
     DEF PluginNext, PluginThread

\* A value is never mapped without its units because it came before they were
\* registered; only a look at the map during a put into it may miss them.
THEOREM PluginUnitsReachTheMapper == PluginSpec => []UnitsReachTheMapper
<1>1. UnitsInv => UnitsReachTheMapper
  BY DEF UnitsInv
<1> QED
  BY <1>1, LifeInvariant, UnitsInitially, UnitsStep, PTL DEF PluginSpec

\* The mapping of values (ChannelMapping), from here to PluginModesAgree: where the
\* rules of the two programs are the same, and what one rule makes of a value in each.

\* Without rows of its own the plugin has the default rules.
LEMMA NoRows == ASSUME NEW rules PROVE WithRows(rules, <<>>) = rules
<1>1. DOMAIN <<>> = {}
  OBVIOUS
<1> QED
  BY <1>1 DEF WithRows, FoldLeft, MapThenFoldSet

\* A canonical name is its own canonical name.
LEMMA CanonicalTwice == \A name : Canonical(Canonical(name)) = Canonical(name)
BY SpellingsAssumption DEF Canonical

\* A rule is that of one of the entries.
LEMMA RuleAmongEntries ==
    ASSUME NEW entries, NEW name \in DOMAIN RulesOf(entries)
    PROVE  \E e \in entries : RulesOf(entries)[name] = e[2]
<1> DEFINE S == {e \in entries : name \in {e[1], Canonical(e[1])}}
<1>1. PICK e \in entries : name \in {e[1], Canonical(e[1])}
  BY DEF RulesOf
<1>2. e \in S
  BY <1>1
<1>3. (CHOOSE x \in S : TRUE) \in S
  <2> HIDE DEF S
  <2> QED
    BY <1>2
<1>4. RulesOf(entries)[name] = RuleOf(S)
  BY DEF RulesOf
<1>5. RuleOf(S) = (CHOOSE x \in S : TRUE)[2]
  BY DEF RuleOf
<1> QED
  <2> DEFINE c == CHOOSE x \in S : TRUE
  <2>1. c \in entries
    BY <1>3
  <2> HIDE DEF c
  <2> QED
    BY <1>4, <1>5, <2>1 DEF c

\* No entry that F has and E has not is one for the name; then their rules for the
\* name are alike.
Apart(E, F, name) == E \subseteq F /\ \A e \in F \ E : name \notin {e[1], Canonical(e[1])}

Alike(rules, others, name) ==
    /\ name \in DOMAIN rules <=> name \in DOMAIN others
    /\ name \in DOMAIN rules => rules[name] = others[name]

LEMMA SameRules == \A E, F, name : Apart(E, F, name) => Alike(RulesOf(E), RulesOf(F), name)
<1> TAKE E, F, name
<1> HAVE Apart(E, F, name)
<1>1. {e \in E : name \in {e[1], Canonical(e[1])}} = {e \in F : name \in {e[1], Canonical(e[1])}}
  BY DEF Apart
<1>2. name \in DOMAIN RulesOf(E) <=> \E e \in E : name \in {e[1], Canonical(e[1])}
  BY DEF RulesOf
<1>3. name \in DOMAIN RulesOf(F) <=> \E e \in F : name \in {e[1], Canonical(e[1])}
  BY DEF RulesOf
<1>4. name \in DOMAIN RulesOf(E) => RulesOf(E)[name] = RuleOf({e \in E : name \in {e[1], Canonical(e[1])}})
  BY DEF RulesOf
<1>5. name \in DOMAIN RulesOf(F) => RulesOf(F)[name] = RuleOf({e \in F : name \in {e[1], Canonical(e[1])}})
  BY DEF RulesOf
<1> QED
  BY <1>1, <1>2, <1>3, <1>4, <1>5 DEF Alike, Apart

\* A channel of neither of the plugin's own spellings.
Common(name) == \A row \in PluginChannels : \A n \in row[2] : Canonical(name) # Canonical(n)

\* Such a channel has the same rule in both programs, under its own name or its
\* canonical one.
LEMMA CommonRule ==
    ASSUME NEW name, Common(name)
    PROVE  RuleFor(PluginDefaults, name) = RuleFor(ConsoleDefaults, name)
<1> DEFINE E == Entries(PlainChannels)
           F == Entries(PlainChannels \cup PluginChannels)
<1>1. E \subseteq F
  BY DEF Entries
<1>2. ASSUME NEW e \in F \ E PROVE \E row \in PluginChannels : e[1] \in row[2]
  <2>1. e \in UNION {{<<n, Plain(row[1])>> : n \in row[2]} : row \in PluginChannels}
    BY DEF Entries
  <2>2. PICK row \in PluginChannels : e \in {<<n, Plain(row[1])>> : n \in row[2]}
    BY <2>1
  <2> QED
    BY <2>2
<1>3. ASSUME NEW e \in F \ E
      PROVE  /\ name \notin {e[1], Canonical(e[1])}
             /\ Canonical(name) \notin {e[1], Canonical(e[1])}
  BY <1>2, CanonicalTwice DEF Common
<1>4. Apart(E, F, name) /\ Apart(E, F, Canonical(name))
  BY <1>1, <1>3 DEF Apart
<1> HIDE DEF E, F
<1>5. PluginDefaults = RulesOf(F) /\ ConsoleDefaults = RulesOf(E)
  BY DEF E, F, PluginDefaults, ConsoleDefaults
<1>6. /\ Alike(ConsoleDefaults, PluginDefaults, name)
      /\ Alike(ConsoleDefaults, PluginDefaults, Canonical(name))
  BY <1>4, <1>5, SameRules
<1> QED
  BY <1>6 DEF RuleFor, Alike

\* Only gears are rounded: no default rule has "turn".
Sensible(rule) == rule.transform # "turn" /\ (rule.transform = "gear" => rule.field = "gear")

LEMMA PlainSensible == \A field : field # "turn" => Sensible(Plain(field))
BY DEF Sensible, Plain, DefaultTransform, Flags

LEMMA ConsoleSensible == \A name : Sensible(RuleFor(ConsoleDefaults, name))
<1>1. \A row \in PlainChannels : row[1] # "turn"
  BY DEF PlainChannels
<1>2. \A row \in ConvertedChannels : row[3] # "turn" /\ row[3] # "gear"
  BY DEF ConvertedChannels
<1>3. ASSUME NEW e \in Entries(PlainChannels) PROVE Sensible(e[2])
  <2>1. CASE e \in UNION {{<<n, Plain(row[1])>> : n \in row[2]} : row \in PlainChannels}
    <3>1. PICK row \in PlainChannels : e \in {<<n, Plain(row[1])>> : n \in row[2]}
      BY <2>1
    <3>2. e[2] = Plain(row[1])
      BY <3>1
    <3> QED
      BY <3>2, <1>1, PlainSensible
  <2>2. CASE e \in {<<row[1], [field |-> row[2], transform |-> row[3]]>> : row \in ConvertedChannels}
    <3>1. PICK row \in ConvertedChannels : e = <<row[1], [field |-> row[2], transform |-> row[3]]>>
      BY <2>2
    <3>2. e[2].field = row[2] /\ e[2].transform = row[3]
      BY <3>1
    <3>3. row[3] # "turn" /\ row[3] # "gear"
      BY <1>2
    <3> QED
      BY <3>2, <3>3 DEF Sensible
  <2> QED
    BY <2>1, <2>2 DEF Entries
<1>4. \A n \in DOMAIN ConsoleDefaults : Sensible(ConsoleDefaults[n])
  BY <1>3, RuleAmongEntries DEF ConsoleDefaults
<1>5. Sensible(NoRule)
  BY DEF Sensible, NoRule
<1> QED
  BY <1>4, <1>5 DEF RuleFor

\* One rule gives the same value in both programs, but for litres and halves.
LEMMA SameValue ==
    ASSUME NEW rule, NEW raw, NEW unit, Sensible(rule),
           ~(rule.field = "fuelPct" /\ unit \in LiterUnits),
           ~(rule.field = "gear" /\ IsHalfOverEven(raw))
    PROVE  AsText(PluginValue(rule, raw, unit)) = ConsoleValue(rule, raw)
<1>1. CASE rule.transform = "gear"
  <2>1. RoundHalfEven(raw) = RoundHalfUp(raw)
    BY <1>1 DEF Sensible, RoundHalfEven, RoundHalfUp
  <2>2. PluginValue(rule, raw, unit) = Gear(RoundHalfUp(raw), <<"integer", RoundHalfUp(raw)>>)
    BY <1>1 DEF PluginValue
  <2>3. ConsoleValue(rule, raw) = Gear(RoundHalfUp(raw), <<"text", RoundHalfUp(raw)>>)
    BY <1>1, <2>1 DEF ConsoleValue
  <2>4. \A n : AsText(Gear(n, <<"integer", n>>)) = Gear(n, <<"text", n>>)
    BY DEF AsText, Gear
  <2> QED
    BY <2>2, <2>3, <2>4
<1>2. CASE rule.transform = "bool"
  <2>1. PluginValue(rule, raw, unit) = <<"flag", raw >= 2>> /\ ConsoleValue(rule, raw) = <<"flag", raw >= 2>>
    BY <1>2, Zenon DEF PluginValue, ConsoleValue
  <2>2. AsText(<<"flag", raw >= 2>>) = <<"flag", raw >= 2>>
    BY DEF AsText
  <2> QED
    BY <2>1, <2>2, Zenon
<1>3. CASE rule.transform \notin {"gear", "turn", "bool"}
  <2>1. /\ PluginValue(rule, raw, unit) = <<"number", raw, rule.transform>>
        /\ ConsoleValue(rule, raw) = <<"number", raw, rule.transform>>
    BY <1>3 DEF PluginValue, ConsoleValue
  <2> QED
    BY <2>1 DEF AsText
<1> QED
  BY <1>1, <1>2, <1>3 DEF Sensible

\* Hence one channel has the same reading.
LEMMA SameReading ==
    ASSUME NEW name, NEW raw, NEW unit,
           Common(name),
           RuleFor(PluginDefaults, name) = RuleFor(ConsoleDefaults, name),
           Sensible(RuleFor(ConsoleDefaults, name)),
           ~(RuleFor(ConsoleDefaults, name).field = "fuelPct" /\ unit \in LiterUnits),
           ~(RuleFor(ConsoleDefaults, name).field = "gear" /\ IsHalfOverEven(raw))
    PROVE  /\ PluginReading(PluginDefaults, name, raw, unit).field = ConsoleReading(name, raw).field
           /\ AsText(PluginReading(PluginDefaults, name, raw, unit).value) = ConsoleReading(name, raw).value
<1> DEFINE rule == RuleFor(ConsoleDefaults, name)
<1>1. PluginReading(PluginDefaults, name, raw, unit) =
        [field |-> rule.field, value |-> IF rule = NoRule THEN NoValue ELSE PluginValue(rule, raw, unit)]
  BY DEF PluginReading
<1>2. ConsoleReading(name, raw) =
        [field |-> rule.field, value |-> IF rule = NoRule THEN NoValue ELSE ConsoleValue(rule, raw)]
  BY DEF ConsoleReading
<1>3. AsText(NoValue) = NoValue
  BY DEF AsText, NoValue
<1>4. AsText(PluginValue(rule, raw, unit)) = ConsoleValue(rule, raw)
  BY SameValue
<1> HIDE DEF rule
<1> QED
  BY <1>1, <1>2, <1>3, <1>4

\* The Linux console gives texts already.
LEMMA ConsoleAsText ==
    ASSUME NEW name, NEW raw
    PROVE  AsText(ConsoleReading(name, raw).value) = ConsoleReading(name, raw).value
<1> DEFINE rule == RuleFor(ConsoleDefaults, name)
<1>1. AsText(NoValue) = NoValue
  BY DEF AsText, NoValue
<1>2. \A n : AsText(Gear(n, <<"text", n>>)) = Gear(n, <<"text", n>>)
  BY DEF AsText, Gear
<1>3. \A n : AsText(Turn(n)) = Turn(n)
  BY DEF AsText, Turn
<1>4. AsText(<<"flag", raw >= 2>>) = <<"flag", raw >= 2>>
  BY DEF AsText
<1>5. AsText(<<"number", raw, rule.transform>>) = <<"number", raw, rule.transform>>
  BY DEF AsText
<1>6. AsText(ConsoleValue(rule, raw)) = ConsoleValue(rule, raw)
  BY <1>2, <1>3, <1>4, <1>5, Zenon DEF ConsoleValue
<1>7. ConsoleReading(name, raw) =
        [field |-> rule.field, value |-> IF rule = NoRule THEN NoValue ELSE ConsoleValue(rule, raw)]
  BY DEF ConsoleReading
<1> HIDE DEF rule
<1> QED
  BY <1>1, <1>6, <1>7

\* What becomes of the value that a callback c has, by the settings its publisher
\* was constructed with.
Made(c) ==
    IF IsDirect(opened[c.pub])
    THEN PluginReading(Rules(opened[c.pub]), c.name, c.raw, c.units)
    ELSE ConsoleReading(c.name, c.raw)

\* A callback and the last reading are of a publisher that was constructed (so
\* that its settings do not change any more), with its units or none.
ReadingInv ==
    /\ call # NoCall => call.pub \in 1..made /\ call.units \in {NoUnits, TrueUnits(call.name)}
    /\ reading # NoCall =>
         /\ reading.pub \in 1..made
         /\ reading.units \in {NoUnits, TrueUnits(reading.name)}
         /\ reading.field = Made(reading).field /\ reading.value = Made(reading).value

\* A step that at most constructs one more publisher.
LEMMA ReadingKept ==
    ASSUME ReadingInv, made \in Nat, made' \in {made, made + 1},
           UNCHANGED <<call, reading>>,
           \A p \in 1..made : opened'[p] = opened[p]
    PROVE  ReadingInv'
<1>1. 1..made \subseteq 1..made'
  OBVIOUS
<1>2. reading # NoCall => opened'[reading.pub] = opened[reading.pub]
  BY DEF ReadingInv
<1>3. reading # NoCall => Made(reading)' = Made(reading)
  BY <1>2 DEF Made
<1>4. call # NoCall => call.pub \in 1..made'
  BY <1>1 DEF ReadingInv
<1>5. reading # NoCall => reading.pub \in 1..made'
  BY <1>1 DEF ReadingInv
<1> QED
  BY <1>3, <1>4, <1>5 DEF ReadingInv, TrueUnits

LEMMA ReadingConstruct ==
    ASSUME LifeInv, ReadingInv, Construct
    PROVE  ReadingInv'
<1>1. made' = made + 1 /\ opened' = [opened EXCEPT ![made'] = settings] /\ UNCHANGED <<call, reading>>
  BY DEF Construct, callVars
<1>2. made \in Nat /\ opened \in [Publishers -> AllSettings \cup {NoSettings}]
  BY MaxPublishersAssumption DEF LifeInv, PluginTypeOK
<1>3. \A p \in 1..made : opened'[p] = opened[p]
  BY <1>1, <1>2
<1> QED
  BY <1>1, <1>2, <1>3, ReadingKept

\* A callback begins for the current publisher, which is subscribed.
LEMMA ReadingBegin ==
    ASSUME LifeInv, UnitsInv, ReadingInv, BeginCallback
    PROVE  ReadingInv'
<1>1. UNCHANGED <<made, opened>> /\ reading' = NoCall
  BY DEF BeginCallback, publisherVars
<1>2. PICK s \in subs : \E raw \in RawsOf[s[2]], u \in Lookup(s[3], s[2]) :
        call' = [pub |-> s[3], name |-> s[2], raw |-> raw, units |-> u, raced |-> pc = "put"]
  BY DEF BeginCallback
<1>3. PICK raw \in RawsOf[s[2]], u \in Lookup(s[3], s[2]) :
        call' = [pub |-> s[3], name |-> s[2], raw |-> raw, units |-> u, raced |-> pc = "put"]
  BY <1>2
<1>4. s[3] = publisher /\ s[3] \in Publishers /\ s[2] \in Names
  <2>1. s = <<server, s[2], publisher>>
    BY DEF LifeInv, SubscriptionsInv
  <2> QED
    BY <2>1 DEF LifeInv, PluginTypeOK
<1>5. s[3] \in 1..made
  BY <1>4, MaxPublishersAssumption DEF LifeInv, PluginTypeOK, Publishers
<1>6. u \in {NoUnits, TrueUnits(s[2])}
  BY <1>4 DEF Lookup, UnitsInv
<1>7. call'.pub = s[3] /\ call'.name = s[2] /\ call'.units = u
  BY <1>3
<1> QED
  BY <1>1, <1>5, <1>6, <1>7 DEF ReadingInv, TrueUnits

LEMMA ReadingDeliver ==
    ASSUME ReadingInv, Deliver
    PROVE  ReadingInv'
<1>1. call # NoCall /\ call' = NoCall /\ UNCHANGED <<made, opened>>
  BY DEF Deliver, publisherVars
<1>2. CASE UNCHANGED reading
  BY <1>1, <1>2 DEF ReadingInv, TrueUnits, Made
<1>3. CASE reading' # reading
  <2>1. CameTo(Made(call))
    BY <1>3 DEF Deliver, Made
  <2>2. /\ reading'.pub = call.pub /\ reading'.name = call.name /\ reading'.raw = call.raw
        /\ reading'.units = call.units
        /\ reading'.field = Made(call).field /\ reading'.value = Made(call).value
    BY <2>1 DEF CameTo
  <2>3. Made(reading)' = Made(call)
    BY <1>1, <2>2 DEF Made
  <2> QED
    BY <1>1, <2>2, <2>3 DEF ReadingInv, TrueUnits
<1> QED
  BY <1>2, <1>3

LEMMA ReadingStep == LifeInv /\ UnitsInv /\ ReadingInv /\ [PluginNext]_pluginVars => ReadingInv'
<1> SUFFICES ASSUME LifeInv, UnitsInv, ReadingInv, [PluginNext]_pluginVars PROVE ReadingInv'
  OBVIOUS
<1>1. CASE Construct
  BY <1>1, ReadingConstruct
<1>2. CASE BeginCallback
  BY <1>2, ReadingBegin
<1>3. CASE Deliver
  BY <1>3, ReadingDeliver
<1>4. CASE UNCHANGED <<made, opened, call, reading>>
  BY <1>4 DEF ReadingInv, TrueUnits, Made
<1>5. CASE PluginThread /\ ~Construct
  <2>1. UNCHANGED <<made, opened, call, reading>>
    BY <1>5 DEF PluginThread, Initialize, Close, UnsubscribeCurrent, ClosePublisher, Load, Raises,
                ListChannels, Skip, Describe, Put, Subscribe, Streaming, publisherVars, callVars
  <2> QED
    BY <2>1, <1>4
<1>6. CASE \E p \in Publishers : StraySend(p)
  BY <1>6, <1>4 DEF StraySend, callVars
<1>7. CASE UNCHANGED pluginVars
  BY <1>7, <1>4 DEF pluginVars, publisherVars, callVars
<1> QED
  BY <1>1, <1>2, <1>3, <1>5, <1>6, <1>7 DEF PluginNext, CallbackThread

\* A channel value in direct mode and in bridge mode comes to the same reading,
\* but for the channels only the plugin knows, levels in litres and the gears that
\* Python rounds down: for any channels, spellings, units and values.
THEOREM PluginModesAgree == PluginSpec => []ModesAgree
<1>1. PluginInit => ReadingInv
  BY DEF PluginInit, ReadingInv
<1>2. ReadingInv => ModesAgree
  <2> SUFFICES ASSUME ReadingInv,
                      reading # NoCall, opened[reading.pub].rows = <<>>, ~KnownToDiffer(reading)
               PROVE  LET direct == PluginReading(PluginDefaults, reading.name, reading.raw,
                                                  TrueUnits(reading.name))
                          bridged == ConsoleReading(reading.name, reading.raw)
                      IN
                      /\ reading.field = direct.field /\ direct.field = bridged.field
                      /\ AsText(direct.value) = bridged.value
                      /\ AsText(reading.value) = bridged.value
    BY DEF ModesAgree
  <2> DEFINE name == reading.name
             raw == reading.raw
             rule == RuleFor(ConsoleDefaults, name)
             direct == PluginReading(PluginDefaults, name, raw, TrueUnits(name))
             found == PluginReading(PluginDefaults, name, raw, reading.units)
             bridged == ConsoleReading(name, raw)
  <2>1. Common(name)
    BY DEF KnownToDiffer, Common
  <2>2. RuleFor(PluginDefaults, name) = rule /\ Sensible(rule)
    BY <2>1, CommonRule, ConsoleSensible
  <2>3. bridged.field = rule.field /\ direct.field = rule.field /\ found.field = rule.field
    BY <2>2 DEF ConsoleReading, PluginReading
  <2>4. reading.field = rule.field
    <3>1. CASE IsDirect(opened[reading.pub])
      <4>1. Made(reading) = found
        BY <3>1, NoRows DEF Made, Rules
      <4> QED
        BY <4>1, <2>3 DEF ReadingInv
    <3>2. CASE ~IsDirect(opened[reading.pub])
      <4>1. Made(reading) = bridged
        BY <3>2 DEF Made
      <4> QED
        BY <4>1, <2>3 DEF ReadingInv
    <3> QED
      BY <3>1, <3>2
  <2>5. ~(rule.field = "gear" /\ IsHalfOverEven(raw))
    BY <2>4 DEF KnownToDiffer
  <2>6. /\ ~(rule.field = "fuelPct" /\ TrueUnits(name) \in LiterUnits)
        /\ ~(rule.field = "fuelPct" /\ reading.units \in LiterUnits)
    BY <2>4, LiterUnitsAssumption DEF KnownToDiffer, ReadingInv
  <2>7. AsText(direct.value) = bridged.value
    BY <2>1, <2>2, <2>5, <2>6, SameReading
  <2>8. AsText(found.value) = bridged.value
    BY <2>1, <2>2, <2>5, <2>6, SameReading
  <2>9. AsText(bridged.value) = bridged.value
    BY ConsoleAsText
  <2>10. AsText(reading.value) = bridged.value
    <3>1. CASE IsDirect(opened[reading.pub])
      <4>1. Made(reading) = found
        BY <3>1, NoRows DEF Made, Rules
      <4> QED
        BY <4>1, <2>8 DEF ReadingInv
    <3>2. CASE ~IsDirect(opened[reading.pub])
      <4>1. Made(reading) = bridged
        BY <3>2 DEF Made
      <4> QED
        BY <4>1, <2>9 DEF ReadingInv
    <3> QED
      BY <3>1, <3>2
  <2> QED
    BY <2>3, <2>4, <2>7, <2>10
<1> QED
  BY <1>1, <1>2, LifeInvariant, UnitsInitially, UnitsStep, ReadingStep, PTL DEF PluginSpec

------------------------------------------------------------------------------
(* The Socket.IO client *)


Live == {"fetch", "read", "answer", "pong", "reset"}

\* Only the caller that holds the monitor is inside a method.
OneInside == \A t \in Callers : place[t] # "idle" => monitor = t

\* The three fields belong to one connection, which is not closed.
FieldsAgree ==
    /\ input = socket /\ output = socket
    /\ socket \in 0..sockets
    /\ socket \notin closed

\* What the caller inside connect may rely on.
InsideConnect ==
    \A t \in Callers :
        /\ place[t] = "open" => socket = Null /\ ~connected
        /\ place[t] = "handshake" => socket # Null

\* A live reader reads from a connection that exists.
StreamsExist == \A c \in Connections : reader[c] \in Live => stream[c] \in 1..sockets

ConnectedHasSocket == connected => socket # Null

Watched ==
    connected /\ socket \notin shared =>
        socket # Null /\ reader[socket] \in Live /\ stream[socket] = socket

ClientInv ==
    /\ ClientTypeOK
    /\ OneInside
    /\ FieldsAgree
    /\ InsideConnect
    /\ NoConnectionLeaks
    /\ StreamsExist
    /\ ConnectedHasSocket
    /\ Watched

LEMMA ClientInitially == ClientInit => ClientInv
<1> SUFFICES ASSUME ClientInit PROVE ClientInv
  OBVIOUS
<1> USE DEF ClientInit, Null, Connections
<1>1. ClientTypeOK
  <2>1. 0 \in 0..MaxConnections
    BY MaxConnectionsAssumption
  <2>2. /\ closed \subseteq 1..sockets
        /\ spurned \cup shared \subseteq 1..sockets
    OBVIOUS
  <2> QED
    BY <2>1, <2>2 DEF ClientTypeOK, Free
<1>2. OneInside /\ InsideConnect
  BY DEF OneInside, InsideConnect
<1>3. FieldsAgree /\ NoConnectionLeaks
  BY DEF FieldsAgree, NoConnectionLeaks
<1>4. StreamsExist /\ ConnectedHasSocket /\ Watched
  BY DEF StreamsExist, ConnectedHasSocket, Watched, Live
<1> QED
  BY <1>1, <1>2, <1>3, <1>4 DEF ClientInv

------------------------------------------------------------------------------
(* Callers *)

\* Moves of the caller that holds the monitor.
LEMMA CallerMoves ==
    ASSUME ClientInv, NEW t \in Callers, monitor = t,
           NEW to \in {"idle", "connect", "open", "handshake", "write"},
           MoveTo(t, to) \/ (to = "idle" /\ Leave(t))
    PROVE  /\ OneInside'
           /\ monitor' \in Callers \cup {Free}
           /\ place' \in [Callers -> {"idle", "connect", "open", "handshake", "write"}]
           /\ place'[t] = to
           /\ \A u \in Callers : u # t => place'[u] = "idle"
BY CallersAssumption DEF ClientInv, ClientTypeOK, OneInside, MoveTo, Leave, Free

\* A step of a caller that changes neither fields nor connections.
LEMMA CallerOnly ==
    ASSUME ClientInv, OneInside', UNCHANGED <<fields, readerVars, networkVars, historyVars>>,
           monitor' \in Callers \cup {Free}, retrying' \in BOOLEAN,
           place' \in [Callers -> {"idle", "connect", "open", "handshake", "write"}],
           \A u \in Callers : place'[u] \notin {"open", "handshake"}
    PROVE  ClientInv'
BY DEF ClientInv, ClientTypeOK, FieldsAgree, InsideConnect, NoConnectionLeaks, StreamsExist, ConnectedHasSocket, Watched,
       fields, readerVars, networkVars, historyVars, Connections

\* closeSocketOnly closes what is in the field socket, and nothing is left open.
LEMMA Closes ==
    ASSUME ClientInv, CloseSocketOnly, OneInside', InsideConnect',
           UNCHANGED <<retrying, readerVars, peer, sockets, historyVars>>,
           monitor' \in Callers \cup {Free},
           place' \in [Callers -> {"idle", "connect", "open", "handshake", "write"}]
    PROVE  ClientInv'
<1> USE DEF ClientInv, CloseSocketOnly, readerVars, historyVars, Null
<1>1. ClientTypeOK'
  <2>1. closed' \subseteq 1..sockets
    BY DEF ClientTypeOK, FieldsAgree
  <2> QED
    BY <2>1 DEF ClientTypeOK
<1>2. FieldsAgree'
  BY DEF ClientTypeOK, FieldsAgree, Connections
<1>3. NoConnectionLeaks'
  BY DEF ClientTypeOK, NoConnectionLeaks
<1>4. StreamsExist'
  BY DEF StreamsExist
<1> QED
  BY <1>1, <1>2, <1>3, <1>4 DEF ConnectedHasSocket, Watched

LEMMA OpensStep == ASSUME ClientInv, NEW t \in Callers, ConnectOpens(t) PROVE ClientInv'
<1> DEFINE c == sockets + 1
<1>1. /\ monitor = t /\ place[t] = "open" /\ MoveTo(t, "handshake")
      /\ sockets < MaxConnections /\ sockets' = c
      /\ peer' = [peer EXCEPT ![c] = "up"]
      /\ socket' = c /\ input' = c /\ output' = c
      /\ UNCHANGED <<retrying, connected, closed, reader, stream, spurned, shared>>
  BY DEF ConnectOpens, IsAt, readerVars, historyVars
<1>2. /\ OneInside' /\ monitor' \in Callers \cup {Free}
      /\ place' \in [Callers -> {"idle", "connect", "open", "handshake", "write"}]
      /\ place'[t] = "handshake" /\ \A u \in Callers : u # t => place'[u] = "idle"
  BY <1>1, CallerMoves
<1>3. /\ sockets \in 0..MaxConnections /\ c \in Connections /\ MaxConnections \in Nat
      /\ socket = Null /\ ~connected
  BY <1>1, MaxConnectionsAssumption DEF ClientInv, ClientTypeOK, InsideConnect, Connections
<1>4. ClientTypeOK'
  BY <1>1, <1>2, <1>3 DEF ClientInv, ClientTypeOK, Connections
<1>5. FieldsAgree'
  BY <1>1, <1>3 DEF ClientInv, ClientTypeOK, FieldsAgree
<1>6. InsideConnect'
  BY <1>1, <1>2, <1>3 DEF InsideConnect, Null, Connections
<1>7. NoConnectionLeaks'
  BY <1>1, <1>3 DEF ClientInv, NoConnectionLeaks, Null
<1>8. StreamsExist'
  BY <1>1, <1>3 DEF ClientInv, StreamsExist
<1> QED
  BY <1>1, <1>2, <1>3, <1>4, <1>5, <1>6, <1>7, <1>8 DEF ClientInv, ConnectedHasSocket, Watched

LEMMA HandshakeStep == ASSUME ClientInv, NEW t \in Callers, Handshake(t) PROVE ClientInv'
<1>1. /\ monitor = t /\ place[t] = "handshake" /\ MoveTo(t, "write")
      /\ connected' = TRUE
      /\ reader' = [reader EXCEPT ![socket] = "fetch"]
      /\ stream' = [stream EXCEPT ![socket] = socket]
      /\ UNCHANGED <<retrying, socket, input, output, peer, sockets, closed, spurned, shared>>
  BY DEF Handshake, IsAt, networkVars, historyVars
<1>2. /\ OneInside' /\ monitor' \in Callers \cup {Free}
      /\ place' \in [Callers -> {"idle", "connect", "open", "handshake", "write"}]
      /\ place'[t] = "write" /\ \A u \in Callers : u # t => place'[u] = "idle"
  BY <1>1, CallerMoves
<1>3. socket \in Connections /\ socket \in 1..sockets
  BY <1>1 DEF ClientInv, ClientTypeOK, InsideConnect, FieldsAgree, Null, Connections
<1>4. ClientTypeOK'
  BY <1>1, <1>2, <1>3 DEF ClientInv, ClientTypeOK
<1>5. StreamsExist'
  BY <1>1, <1>3 DEF ClientInv, ClientTypeOK, StreamsExist
<1>6. ConnectedHasSocket' /\ Watched'
  BY <1>1, <1>3 DEF ClientInv, ClientTypeOK, ConnectedHasSocket, Watched, Live, Connections, Null
<1> QED
  BY <1>1, <1>2, <1>4, <1>5, <1>6 DEF ClientInv, FieldsAgree, InsideConnect, NoConnectionLeaks

LEMMA InsideStep == ASSUME ClientInv, NEW t \in Callers, InsideMonitor(t) PROVE ClientInv'
<1> DEFINE Places == {"idle", "connect", "open", "handshake", "write"}
<1>1. CASE ConnectCloses(t)
  <2>1. monitor = t /\ MoveTo(t, "open") /\ CloseSocketOnly
    BY <1>1 DEF ConnectCloses, IsAt
  <2>2. /\ OneInside' /\ monitor' \in Callers \cup {Free} /\ place' \in [Callers -> Places]
        /\ place'[t] = "open" /\ \A u \in Callers : u # t => place'[u] = "idle"
    BY <2>1, CallerMoves
  <2>3. InsideConnect'
    BY <2>1, <2>2 DEF InsideConnect, CloseSocketOnly
  <2> QED
    BY <1>1, <2>1, <2>2, <2>3, Closes DEF ConnectCloses
<1>2. CASE ConnectRefused(t) \/ HandshakeFails(t) \/ WritePayload(t)
  <2>1. monitor = t /\ Leave(t) /\ UNCHANGED <<retrying, fields, readerVars, networkVars, historyVars>>
    BY <1>2 DEF ConnectRefused, HandshakeFails, WritePayload, IsAt
  <2>2. /\ OneInside' /\ monitor' \in Callers \cup {Free} /\ place' \in [Callers -> Places]
        /\ place'[t] = "idle" /\ \A u \in Callers : u # t => place'[u] = "idle"
    BY <2>1, CallerMoves
  <2> QED
    BY <2>1, <2>2, CallerOnly DEF ClientInv, ClientTypeOK
<1>3. CASE ConnectOpens(t)
  BY <1>3, OpensStep
<1>4. CASE Handshake(t)
  BY <1>4, HandshakeStep
<1>5. CASE WriteFails(t)
  <2>1. PICK to \in {"connect", "idle"} :
          /\ monitor = t /\ (MoveTo(t, to) \/ (to = "idle" /\ Leave(t)))
          /\ retrying' \in BOOLEAN /\ connected' \in {FALSE, connected}
    BY <1>5 DEF WriteFails, IsAt, ClientInv, ClientTypeOK
  <2>2. UNCHANGED <<socket, input, output, reader, stream, peer, sockets, closed, spurned, shared>>
    BY <1>5 DEF WriteFails, readerVars, networkVars, historyVars
  <2>3. /\ OneInside' /\ monitor' \in Callers \cup {Free} /\ place' \in [Callers -> Places]
        /\ place'[t] = to /\ \A u \in Callers : u # t => place'[u] = "idle"
    BY <2>1, CallerMoves
  <2>4. ClientTypeOK'
    <3>1. connected' \in BOOLEAN
      BY <2>1 DEF ClientInv, ClientTypeOK
    <3> QED
      BY <2>1, <2>2, <2>3, <3>1 DEF ClientInv, ClientTypeOK
  <2>5. InsideConnect'
    BY <2>3 DEF InsideConnect
  <2>6. FieldsAgree' /\ NoConnectionLeaks' /\ StreamsExist'
    BY <2>2 DEF ClientInv, FieldsAgree, NoConnectionLeaks, StreamsExist
  <2>7. connected' => connected
    BY <2>1
  <2>8. ConnectedHasSocket' /\ Watched'
    BY <2>2, <2>7 DEF ClientInv, ConnectedHasSocket, Watched
  <2> QED
    BY <2>3, <2>4, <2>5, <2>6, <2>8 DEF ClientInv
<1> QED
  BY <1>1, <1>2, <1>3, <1>4, <1>5 DEF InsideMonitor

LEMMA BeginStep == ASSUME ClientInv, NEW t \in Callers, BeginEmit(t) PROVE ClientInv'
<1>1. \A u \in Callers : place[u] = "idle"
  BY CallersAssumption DEF BeginEmit, ClientInv, OneInside, Free
<1>2. /\ OneInside' /\ monitor' \in Callers \cup {Free}
      /\ place' \in [Callers -> {"idle", "connect", "open", "handshake", "write"}]
      /\ \A u \in Callers : place'[u] \notin {"open", "handshake"}
  BY <1>1 DEF BeginEmit, ClientInv, ClientTypeOK, OneInside
<1> QED
  BY <1>2, CallerOnly DEF BeginEmit

LEMMA ClientCloseStep == ASSUME ClientInv, NEW t \in Callers, CloseByCaller(t) PROVE ClientInv'
<1>1. \A u \in Callers : place[u] = "idle"
  BY CallersAssumption DEF CloseByCaller, ClientInv, OneInside, Free
<1>2. OneInside' /\ InsideConnect' /\ UNCHANGED <<monitor, place, retrying>>
  BY <1>1 DEF CloseByCaller, monitorVars, OneInside, InsideConnect
<1> QED
  BY <1>2, Closes DEF CloseByCaller, ClientInv, ClientTypeOK

------------------------------------------------------------------------------
(* Readers and the network *)

\* What a step of a reader has to respect.
LEMMA ReaderMoves ==
    ASSUME ClientInv, NEW c \in Connections,
           NEW to \in Live \cup {"dead"}, reader[c] \in Live,
           reader' = [reader EXCEPT ![c] = to],
           connected' \in {FALSE, connected},
           NEW s \in (1..sockets) \cup {Null}, stream' = [stream EXCEPT ![c] = s],
           s = Null => to = "dead",
           shared \subseteq shared', shared' \subseteq 1..sockets, spurned' \subseteq 1..sockets,
           peer' \in [Connections -> {"none", "up", "ended", "gone"}],
           UNCHANGED <<monitor, place, retrying, socket, input, output, sockets, closed>>,
           connected' /\ socket \notin shared' /\ c = socket => to # "dead" /\ s = c
    PROVE  ClientInv'
<1>1. /\ reader \in [Connections -> {"none", "fetch", "read", "answer", "pong", "reset", "dead"}]
      /\ stream \in [Connections -> Connections \cup {Null}]
      /\ sockets \in 0..MaxConnections /\ MaxConnections \in Nat
  BY MaxConnectionsAssumption DEF ClientInv, ClientTypeOK
<1>2. ClientTypeOK'
  <2>1. reader' \in [Connections -> {"none", "fetch", "read", "answer", "pong", "reset", "dead"}]
    BY <1>1 DEF Live
  <2>2. stream' \in [Connections -> Connections \cup {Null}]
    BY <1>1 DEF Connections
  <2> QED
    BY <2>1, <2>2 DEF ClientInv, ClientTypeOK
<1>3. StreamsExist'
  BY <1>1 DEF ClientInv, StreamsExist, Live, Null
<1>4. ConnectedHasSocket'
  BY DEF ClientInv, ConnectedHasSocket
<1>5. Watched'
  <2> SUFFICES ASSUME connected', socket \notin shared'
               PROVE  socket # Null /\ reader'[socket] \in Live /\ stream'[socket] = socket
    BY DEF Watched
  <2>1. connected /\ socket \notin shared /\ socket \in Connections \cup {Null}
    BY DEF ClientInv, ClientTypeOK
  <2>2. socket # Null /\ reader[socket] \in Live /\ stream[socket] = socket
    BY <2>1 DEF ClientInv, Watched
  <2>3. CASE c = socket
    BY <1>1, <2>2, <2>3
  <2>4. CASE c # socket
    BY <1>1, <2>1, <2>2, <2>4
  <2> QED
    BY <2>3, <2>4
<1>6. OneInside' /\ FieldsAgree' /\ NoConnectionLeaks'
  BY DEF ClientInv, OneInside, FieldsAgree, NoConnectionLeaks
<1>7. InsideConnect'
  BY DEF ClientInv, InsideConnect
<1> QED
  BY <1>2, <1>3, <1>4, <1>5, <1>6, <1>7 DEF ClientInv

LEMMA FetchStep == ASSUME ClientInv, NEW c \in Connections, Fetch(c) PROVE ClientInv'
<1>1. PICK i \in {input, stream[c]} \cup (IF input = stream[c] THEN {} ELSE {Null}) :
        /\ reader[c] = "fetch"
        /\ reader' = [reader EXCEPT ![c] = IF i = Null THEN "dead" ELSE "read"]
        /\ stream' = [stream EXCEPT ![c] = i]
        /\ shared' = shared \cup ({i} \ {c, Null})
        /\ UNCHANGED <<monitorVars, fields, networkVars, spurned>>
  BY DEF Fetch, ReaderGoes
<1>2. UNCHANGED <<monitor, place, retrying, socket, input, output, connected, peer, sockets, closed, spurned>>
  BY <1>1 DEF monitorVars, fields, networkVars
<1>3. stream[c] \in 1..sockets /\ input \in 0..sockets /\ sockets \in Nat
  BY <1>1 DEF ClientInv, StreamsExist, Live, FieldsAgree, ClientTypeOK
<1>4. i \in (1..sockets) \cup {Null}
  BY <1>3 DEF Null
<1>5. ASSUME connected', socket \notin shared', c = socket
      PROVE  i = c /\ i # Null
  <2>1. stream[c] = c /\ input = c
    BY <1>1, <1>2, <1>5 DEF ClientInv, ConnectedHasSocket, Watched, FieldsAgree
  <2> QED
    BY <1>1, <2>1, <1>3 DEF Null
<1>6. shared \subseteq shared' /\ shared' \subseteq 1..sockets /\ spurned' \subseteq 1..sockets
  BY <1>1, <1>2, <1>4 DEF ClientInv, ClientTypeOK
<1> DEFINE to == IF i = Null THEN "dead" ELSE "read"
<1>7. to \in Live \cup {"dead"} /\ (i = Null => to = "dead")
  BY DEF Live
<1>8. reader[c] \in Live /\ peer' \in [Connections -> {"none", "up", "ended", "gone"}]
  BY <1>1, <1>2 DEF Live, ClientInv, ClientTypeOK
<1>9. connected' /\ socket \notin shared' /\ c = socket => to # "dead" /\ i = c
  BY <1>5
<1>10. reader' = [reader EXCEPT ![c] = to]
  BY <1>1
<1> QED
  BY <1>1, <1>2, <1>4, <1>6, <1>7, <1>8, <1>9, <1>10, ReaderMoves

\* A step of a reader that stays with its stream.
LEMMA ReaderStays ==
    ASSUME ClientInv, NEW c \in Connections,
           NEW from \in Live, NEW to \in Live \cup {"dead"}, ReaderGoes(c, from, to),
           connected' \in {FALSE, connected}, spurned' \subseteq 1..sockets,
           peer' \in [Connections -> {"none", "up", "ended", "gone"}],
           UNCHANGED <<stream, monitorVars, socket, input, output, sockets, closed, shared>>,
           to = "dead" => ~connected' \/ stream[c] \in shared
    PROVE  ClientInv'
<1>1. stream[c] \in 1..sockets /\ stream' = [stream EXCEPT ![c] = stream[c]]
  BY DEF ReaderGoes, ClientInv, StreamsExist, ClientTypeOK
<1>2. stream[c] # Null
  BY <1>1 DEF Null
<1>3. connected' /\ socket \notin shared' /\ c = socket => to # "dead" /\ stream[c] = c
  BY DEF ClientInv, ConnectedHasSocket, Watched
<1>4. shared' \subseteq 1..sockets
  BY DEF ClientInv, ClientTypeOK
<1> QED
  BY <1>1, <1>2, <1>3, <1>4, ReaderMoves DEF ReaderGoes, monitorVars

LEMMA SpurnedType ==
    ASSUME ClientInv, NEW c
    PROVE  spurned \subseteq 1..sockets /\ Spurned(c) \subseteq 1..sockets
BY DEF ClientInv, ClientTypeOK, Spurned, FieldsAgree, Watched, Null, ConnectedHasSocket

LEMMA ReaderStep == ASSUME ClientInv, NEW c \in Connections, Reader(c) PROVE ClientInv'
<1> DEFINE Kinds == {"none", "up", "ended", "gone"}
<1>1. CASE Fetch(c)
  BY <1>1, FetchStep
<1>2. CASE \/ ReadMessage(c) \/ ReadOpcode9(c) \/ Answer(c) \/ AnswerFails(c) \/ ReadGarbled(c)
           \/ ReadPing(c) \/ ReadFails(c) \/ Pong(c) \/ PongFails(c)
  <2>1. PICK from \in Live, to \in Live \cup {"dead"} :
          ReaderGoes(c, from, to) /\ (to = "dead" => stream[c] \in shared)
    BY <1>2 DEF ReadMessage, ReadOpcode9, Answer, AnswerFails, ReadGarbled, ReadPing, ReadFails,
       Pong, PongFails, Live
  <2>2. UNCHANGED <<stream, monitorVars, fields, networkVars, historyVars>>
    BY <1>2 DEF ReadMessage, ReadOpcode9, Answer, AnswerFails, ReadGarbled, ReadPing, ReadFails,
       Pong, PongFails
  <2>3. spurned' \subseteq 1..sockets /\ peer' \in [Connections -> Kinds]
    BY <2>2 DEF ClientInv, ClientTypeOK, historyVars, networkVars
  <2> QED
    BY <2>1, <2>2, <2>3, ReaderStays DEF fields, networkVars, historyVars
<1>3. CASE ReadCloseFrame(c)
  <2>1. spurned' \subseteq 1..sockets /\ peer' \in [Connections -> Kinds]
    BY <1>3, SpurnedType DEF ReadCloseFrame, ClientInv, ClientTypeOK
  <2> QED
    BY <1>3, <2>1, ReaderStays DEF ReadCloseFrame, Live
<1>4. CASE Reset(c)
  <2>1. spurned' \subseteq 1..sockets /\ peer' \in [Connections -> Kinds]
    BY <1>4, SpurnedType DEF Reset, networkVars, ClientInv, ClientTypeOK
  <2> QED
    BY <1>4, <2>1, ReaderStays DEF Reset, Live, networkVars
<1> QED
  BY <1>1, <1>2, <1>3, <1>4 DEF Reader

LEMMA NetworkStep == ASSUME ClientInv, NEW c \in Connections, Lose(c) PROVE ClientInv'
<1>1. /\ peer' \in [Connections -> {"none", "up", "ended", "gone"}]
      /\ UNCHANGED <<monitor, place, retrying, socket, input, output, connected, reader, stream,
                     sockets, closed, spurned, shared>>
  BY DEF Lose, ClientInv, ClientTypeOK, monitorVars, fields, readerVars, historyVars
<1> QED
  BY <1>1 DEF ClientInv, ClientTypeOK, OneInside, FieldsAgree, InsideConnect, NoConnectionLeaks,
     StreamsExist, ConnectedHasSocket, Watched

------------------------------------------------------------------------------
LEMMA ClientStep == ClientInv /\ [ClientNext]_clientVars => ClientInv'
<1> SUFFICES ASSUME ClientInv, [ClientNext]_clientVars PROVE ClientInv'
  OBVIOUS
<1>1. ASSUME NEW t \in Callers, BeginEmit(t) \/ InsideMonitor(t) \/ CloseByCaller(t)
      PROVE  ClientInv'
  BY <1>1, BeginStep, InsideStep, ClientCloseStep
<1>2. ASSUME NEW c \in Connections, Reader(c) \/ Lose(c)
      PROVE  ClientInv'
  BY <1>2, ReaderStep, NetworkStep
<1>3. CASE UNCHANGED clientVars
  BY <1>3 DEF clientVars, monitorVars, fields, readerVars, networkVars, historyVars, ClientInv, ClientTypeOK,
     OneInside, FieldsAgree, InsideConnect, NoConnectionLeaks, StreamsExist, ConnectedHasSocket, Watched
<1> QED
  BY <1>1, <1>2, <1>3 DEF ClientNext

LEMMA ClientInvariant == ClientSpec => []ClientInv
BY ClientInitially, ClientStep, PTL DEF ClientSpec

\* Every variable of the client keeps its type.
THEOREM ClientTypeCorrect == ClientSpec => []ClientTypeOK
<1>1. ClientInv => ClientTypeOK
  BY DEF ClientInv
<1> QED
  BY ClientInvariant, <1>1, PTL

\* Every connection but the current one is closed, wherever a connect failed and
\* however the callers take turns.
THEOREM ClientLeaksNoConnection == ClientSpec => []NoConnectionLeaks
<1>1. ClientInv => NoConnectionLeaks
  BY DEF ClientInv
<1> QED
  BY ClientInvariant, <1>1, PTL

\* The stream that any reader is blocked on is the current one or closed.
THEOREM ClientLeavesNoReader == ClientSpec => []NoReaderLeftBehind
<1>1. ClientInv => NoReaderLeftBehind
  BY DEF ClientInv, NoReaderLeftBehind, StreamsExist, NoConnectionLeaks, FieldsAgree, Live
<1> QED
  BY ClientInvariant, <1>1, PTL

\* A client that thinks it is connected has an open connection and its own
\* reader on it, unless the reader of another connection came to share it.
THEOREM ClientIsWatched == ClientSpec => []ConnectedIsWatched
<1>1. ClientInv => ConnectedIsWatched
  BY DEF ClientInv, ConnectedIsWatched, ConnectedHasSocket, Watched, FieldsAgree, Live
<1> QED
  BY ClientInvariant, <1>1, PTL
------------------------------------------------------------------------------
(* Why a connection is replaced *)

\* Something is wrong with connection c, or a reader of an earlier one spoiled it.
Spoiled(c) == peer[c] # "up" \/ c \in spurned \cup shared

\* The reader of the current connection reads from no other one.
OwnStream == \A c \in Connections : c = socket /\ reader[c] \in Live => stream[c] = c

\* It only goes to reset connected for a reason.
ResetForReason == \A c \in Connections : c = socket /\ reader[c] = "reset" => Spoiled(c)

\* Connections that do not exist yet, or are in their handshake, have no reader.
NotYetRead ==
    /\ \A c \in Connections : c > sockets => reader[c] = "none"
    /\ \A t \in Callers : place[t] = "handshake" => reader[socket] = "none"

\* connect is only called by a client that is not connected.
ConnectsUnconnected == \A t \in Callers : place[t] \in {"connect", "handshake"} => ~connected

\* A connection that once worked is only given up for a reason.
GivenUpForReason == socket # Null /\ reader[socket] # "none" /\ ~connected => Spoiled(socket)

ReplaceInv ==
    /\ OwnStream
    /\ ResetForReason
    /\ NotYetRead
    /\ ConnectsUnconnected
    /\ GivenUpForReason

LEMMA ReplaceInitially == ClientInit => ReplaceInv
BY DEF ClientInit, ReplaceInv, OwnStream, ResetForReason, NotYetRead, ConnectsUnconnected,
       GivenUpForReason, Live, Null, Connections

\* A step of a caller that opens or closes no connection.
LEMMA ReplaceCallerKeeps ==
    ASSUME ClientInv, ReplaceInv,
           UNCHANGED <<socket, reader, stream, peer, sockets, spurned, shared>>,
           connected' = connected \/ (~connected' /\ (socket # Null => peer[socket] # "up")),
           \A u \in Callers : place'[u] \in {"connect", "handshake"} =>
               ~connected' /\ (place'[u] = "handshake" => place[u] = "handshake")
    PROVE  ReplaceInv'
<1> USE DEF ReplaceInv, Spoiled
<1>1. OwnStream' /\ ResetForReason'
  BY DEF OwnStream, ResetForReason
<1>2. NotYetRead' /\ ConnectsUnconnected'
  BY DEF NotYetRead, ConnectsUnconnected
<1>3. GivenUpForReason'
  BY DEF GivenUpForReason
<1> QED
  BY <1>1, <1>2, <1>3

\* The old connection is closed: there is no current one.
LEMMA ReplaceCloses ==
    ASSUME ClientInv, ReplaceInv, CloseSocketOnly,
           UNCHANGED <<reader, stream, peer, sockets, spurned, shared>>,
           \A u \in Callers : place'[u] # "handshake"
    PROVE  ReplaceInv'
<1>1. socket' = Null /\ ~connected'
  BY DEF CloseSocketOnly
<1> QED
  BY <1>1 DEF ReplaceInv, OwnStream, ResetForReason, NotYetRead, ConnectsUnconnected,
              GivenUpForReason, Connections, Null

LEMMA ReplaceInside ==
    ASSUME ClientInv, ReplaceInv, NEW t \in Callers, InsideMonitor(t)
    PROVE  ReplaceInv'
<1>1. CASE ConnectCloses(t)
  <2>1. /\ monitor = t /\ CloseSocketOnly /\ MoveTo(t, "open")
        /\ UNCHANGED <<reader, stream, peer, sockets, spurned, shared>>
    BY <1>1 DEF ConnectCloses, IsAt, readerVars, historyVars
  <2>2. \A u \in Callers : place'[u] # "handshake"
    BY <2>1, CallerMoves
  <2> QED
    BY <2>1, <2>2, ReplaceCloses
<1>2. CASE ConnectRefused(t) \/ HandshakeFails(t) \/ WritePayload(t)
  <2>1. /\ monitor = t /\ Leave(t)
        /\ UNCHANGED <<socket, connected, reader, stream, peer, sockets, spurned, shared>>
    BY <1>2 DEF ConnectRefused, HandshakeFails, WritePayload, IsAt, fields, readerVars,
                networkVars, historyVars
  <2>2. \A u \in Callers : place'[u] = "idle"
    BY <2>1, CallerMoves
  <2> QED
    BY <2>1, <2>2, ReplaceCallerKeeps
<1>3. CASE ConnectOpens(t)
  <2> DEFINE n == sockets + 1
  <2>1. /\ monitor = t /\ place[t] = "open" /\ MoveTo(t, "handshake") /\ sockets < MaxConnections
        /\ sockets' = n /\ socket' = n /\ peer' = [peer EXCEPT ![n] = "up"]
        /\ UNCHANGED <<connected, reader, stream, spurned, shared>>
    BY <1>3 DEF ConnectOpens, IsAt, readerVars, historyVars
  <2>2. sockets \in Nat /\ MaxConnections \in Nat /\ n \in Connections /\ ~connected
    BY <2>1, MaxConnectionsAssumption DEF ClientInv, ClientTypeOK, InsideConnect, Connections
  <2>3. reader[n] = "none"
    BY <2>2 DEF ReplaceInv, NotYetRead
  <2> HIDE DEF n
  <2>4. OwnStream' /\ ResetForReason' /\ GivenUpForReason' /\ ConnectsUnconnected'
    BY <2>1, <2>2, <2>3 DEF OwnStream, ResetForReason, GivenUpForReason, ConnectsUnconnected, Live
  <2>5. NotYetRead'
    <3>1. ASSUME NEW c \in Connections, c > n PROVE reader[c] = "none"
      BY <2>2, <3>1 DEF n, ReplaceInv, NotYetRead, Connections
    <3> QED
      BY <2>1, <2>3, <3>1 DEF NotYetRead
  <2> QED
    BY <2>4, <2>5 DEF ReplaceInv
<1>4. CASE Handshake(t)
  <2>1. /\ monitor = t /\ place[t] = "handshake" /\ MoveTo(t, "write") /\ connected'
        /\ reader' = [reader EXCEPT ![socket] = "fetch"]
        /\ stream' = [stream EXCEPT ![socket] = socket]
        /\ UNCHANGED <<socket, peer, sockets, spurned, shared>>
    BY <1>4 DEF Handshake, IsAt, networkVars, historyVars
  <2>2. \A u \in Callers : place'[u] \notin {"connect", "handshake"}
    BY <2>1, CallerMoves
  <2>3. /\ socket \in Connections /\ socket <= sockets /\ socket \in Nat /\ sockets \in Nat
        /\ reader \in [Connections -> {"none", "fetch", "read", "answer", "pong", "reset", "dead"}]
        /\ stream \in [Connections -> Connections \cup {Null}]
    BY <2>1 DEF ClientInv, ClientTypeOK, FieldsAgree, InsideConnect, Connections, Null
  <2>4. OwnStream' /\ ResetForReason'
    BY <2>1, <2>3 DEF OwnStream, ResetForReason, Spoiled
  <2>5. NotYetRead'
    <3>1. ASSUME NEW c \in Connections, c > sockets PROVE reader'[c] = "none"
      BY <2>1, <2>3, <3>1 DEF ReplaceInv, NotYetRead, Connections
    <3> QED
      BY <2>1, <2>2, <3>1 DEF NotYetRead
  <2> QED
    BY <2>1, <2>2, <2>4, <2>5 DEF ReplaceInv, ConnectsUnconnected, GivenUpForReason
<1>5. CASE WriteFails(t)
  <2>1. /\ monitor = t
        /\ UNCHANGED <<socket, reader, stream, peer, sockets, spurned, shared>>
        /\ \/ MoveTo(t, "connect") /\ ~connected'
           \/ Leave(t) /\ connected' = connected
    BY <1>5 DEF WriteFails, IsAt, readerVars, networkVars, historyVars
  <2>2. peer[socket] # "up"
    BY <1>5 DEF WriteFails, ClientInv, FieldsAgree
  <2>3. \/ ~connected' /\ \A u \in Callers : place'[u] # "handshake"
        \/ connected' = connected /\ \A u \in Callers : place'[u] = "idle"
    BY <2>1, CallerMoves
  <2> QED
    BY <2>1, <2>2, <2>3, ReplaceCallerKeeps
<1> QED
  BY <1>1, <1>2, <1>3, <1>4, <1>5 DEF InsideMonitor

LEMMA ReplaceBegin ==
    ASSUME ClientInv, ReplaceInv, NEW t \in Callers, BeginEmit(t) \/ CloseByCaller(t)
    PROVE  ReplaceInv'
<1>1. CASE BeginEmit(t)
  <2>1. /\ monitor = Free
        /\ place' = [place EXCEPT ![t] = IF connected THEN "write" ELSE "connect"]
        /\ UNCHANGED <<socket, connected, reader, stream, peer, sockets, spurned, shared>>
    BY <1>1 DEF BeginEmit, fields, readerVars, networkVars, historyVars
  <2>2. \A u \in Callers : place'[u] # "handshake" /\ (place'[u] = "connect" => ~connected)
    BY <2>1, CallersAssumption DEF ClientInv, OneInside, ClientTypeOK, Free
  <2> QED
    BY <2>1, <2>2, ReplaceCallerKeeps
<1>2. CASE CloseByCaller(t)
  <2>1. /\ monitor = Free /\ CloseSocketOnly
        /\ UNCHANGED <<place, reader, stream, peer, sockets, spurned, shared>>
    BY <1>2 DEF CloseByCaller, monitorVars, readerVars, historyVars
  <2>2. \A u \in Callers : place'[u] # "handshake"
    BY <2>1, CallersAssumption DEF ClientInv, OneInside, Free
  <2> QED
    BY <2>1, <2>2, ReplaceCloses
<1> QED
  BY <1>1, <1>2

\* A step of reader c.  What it does to connected, to a peer and to the history
\* leaves every reason standing.
LEMMA ReplaceReaderKeeps ==
    ASSUME ClientInv, ReplaceInv, NEW c \in Connections, UNCHANGED <<place, socket, sockets>>,
           NEW to \in {"fetch", "read", "answer", "pong", "reset", "dead"},
           reader[c] \in Live, reader' = [reader EXCEPT ![c] = to],
           \A d \in Connections : d # c => stream'[d] = stream[d],
           c = socket /\ to \in Live => stream'[c] = c,
           c = socket /\ to = "reset" => Spoiled(c)',
           \A d \in Connections : Spoiled(d) => Spoiled(d)',
           connected' = connected \/ (~connected' /\ (connected /\ socket # Null => Spoiled(socket)'))
    PROVE  ReplaceInv'
<1>1. reader \in [Connections -> {"none", "fetch", "read", "answer", "pong", "reset", "dead"}]
      /\ socket \in Connections \cup {Null}
  BY DEF ClientInv, ClientTypeOK
<1>2. OwnStream' /\ ResetForReason'
  <2>1. ASSUME NEW d \in Connections, d = socket, reader'[d] \in Live PROVE stream'[d] = d
    BY <1>1, <2>1 DEF ReplaceInv, OwnStream
  <2>2. ASSUME NEW d \in Connections, d = socket, reader'[d] = "reset" PROVE Spoiled(d)'
    BY <1>1, <2>2 DEF ReplaceInv, ResetForReason
  <2> QED
    BY <2>1, <2>2 DEF OwnStream, ResetForReason
<1>3. \A d \in Connections : reader[d] = "none" => d # c /\ reader'[d] = "none"
  BY <1>1 DEF Live
<1>4. NotYetRead'
  <2>1. ASSUME NEW t \in Callers, place[t] = "handshake" PROVE reader'[socket] = "none"
    BY <1>1, <1>3, <2>1 DEF ReplaceInv, NotYetRead, ClientInv, InsideConnect
  <2> QED
    BY <1>3, <2>1 DEF ReplaceInv, NotYetRead
<1>5. ConnectsUnconnected'
  BY DEF ReplaceInv, ConnectsUnconnected
<1>6. GivenUpForReason'
  <2>1. socket # Null /\ reader'[socket] # "none" => reader[socket] # "none"
    BY <1>1, <1>3
  <2> QED
    BY <1>1, <2>1 DEF ReplaceInv, GivenUpForReason
<1> QED
  BY <1>2, <1>4, <1>5, <1>6 DEF ReplaceInv

LEMMA ReplaceReader ==
    ASSUME ClientInv, ReplaceInv, NEW c \in Connections, Reader(c)
    PROVE  ReplaceInv'
<1>1. /\ ClientTypeOK /\ FieldsAgree /\ OwnStream
      /\ stream \in [Connections -> Connections \cup {Null}]
      /\ peer \in [Connections -> {"none", "up", "ended", "gone"}]
      /\ c = socket => c # Null /\ c \notin closed
  BY DEF ClientInv, ReplaceInv, ClientTypeOK, FieldsAgree, Connections, Null
<1>2. CASE Fetch(c)
  <2>1. PICK i \in {input, stream[c]} \cup (IF input = stream[c] THEN {} ELSE {Null}) :
          /\ ReaderGoes(c, "fetch", IF i = Null THEN "dead" ELSE "read")
          /\ stream' = [stream EXCEPT ![c] = i]
          /\ shared' = shared \cup ({i} \ {c, Null})
          /\ UNCHANGED <<monitorVars, fields, networkVars, spurned>>
    BY <1>2 DEF Fetch
  <2>2. /\ reader[c] = "fetch" /\ reader' = [reader EXCEPT ![c] = IF i = Null THEN "dead" ELSE "read"]
        /\ UNCHANGED <<place, socket, sockets, connected, peer, spurned>>
    BY <2>1 DEF ReaderGoes, monitorVars, fields, networkVars
  <2>3. c = socket => i = c
    BY <1>1, <2>1, <2>2 DEF FieldsAgree, OwnStream, Live
  <2>4. /\ \A d \in Connections : d # c => stream'[d] = stream[d]
        /\ c = socket => stream'[c] = c
    BY <1>1, <2>1, <2>3
  <2>5. \A d \in Connections : Spoiled(d) => Spoiled(d)'
    BY <2>1, <2>2 DEF Spoiled
  <2>6. (IF i = Null THEN "dead" ELSE "read") \in {"read", "dead"} /\ reader[c] \in Live
    BY <2>2 DEF Live
  <2> QED
    BY <2>2, <2>4, <2>5, <2>6, ReplaceReaderKeeps
<1>3. CASE ReadMessage(c) \/ ReadOpcode9(c) \/ Answer(c) \/ ReadPing(c) \/ Pong(c)
  <2>1. PICK to \in {"fetch", "answer", "pong"} :
          /\ reader[c] \in {"read", "answer", "pong"} /\ reader' = [reader EXCEPT ![c] = to]
          /\ UNCHANGED <<place, socket, sockets, connected, stream, peer, spurned, shared>>
    BY <1>3 DEF ReadMessage, ReadOpcode9, Answer, ReadPing, Pong, ReaderGoes, monitorVars, fields,
                networkVars, historyVars
  <2>2. reader[c] \in Live /\ (c = socket => stream'[c] = c)
    BY <1>1, <2>1 DEF OwnStream, Live
  <2>3. \A d \in Connections : Spoiled(d) => Spoiled(d)'
    BY <2>1 DEF Spoiled
  <2> QED
    BY <2>1, <2>2, <2>3, ReplaceReaderKeeps
<1>4. CASE AnswerFails(c) \/ PongFails(c) \/ ReadFails(c) \/ ReadGarbled(c)
  <2>1. PICK to \in {"reset", "dead"} :
          /\ reader[c] \in {"read", "answer", "pong"} /\ reader' = [reader EXCEPT ![c] = to]
          /\ UNCHANGED <<place, socket, sockets, connected, stream, peer, spurned, shared>>
    BY <1>4 DEF AnswerFails, PongFails, ReadFails, ReadGarbled, ReaderGoes, monitorVars, fields,
                networkVars, historyVars
  <2>2. reader[c] \in Live /\ (c = socket => stream'[c] = c /\ stream[c] = c)
    BY <1>1, <2>1 DEF OwnStream, Live
  <2>3. c = socket => Spoiled(c)
    <3> SUFFICES ASSUME c = socket PROVE Spoiled(c)
      OBVIOUS
    <3>1. stream[c] = c /\ output = c /\ c \notin closed
      BY <1>1, <2>2 DEF FieldsAgree
    <3>2. OutputLost => peer[c] # "up"
      BY <3>1 DEF OutputLost
    <3>3. CASE AnswerFails(c) \/ PongFails(c)
      BY <3>1, <3>2, <3>3 DEF AnswerFails, PongFails, Spoiled
    <3>4. CASE ReadFails(c)
      BY <3>1, <3>4 DEF ReadFails, Spoiled
    <3>5. CASE ReadGarbled(c)
      BY <3>1, <3>5 DEF ReadGarbled, Spoiled
    <3> QED
      BY <1>4, <3>3, <3>4, <3>5
  <2>4. \A d \in Connections : Spoiled(d)' = Spoiled(d)
    BY <2>1 DEF Spoiled
  <2> QED
    BY <2>1, <2>2, <2>3, <2>4, ReplaceReaderKeeps
<1>5. CASE ReadCloseFrame(c)
  <2>1. /\ reader[c] = "read" /\ reader' = [reader EXCEPT ![c] = "reset"]
        /\ ~connected' /\ peer' = [peer EXCEPT ![stream[c]] = "ended"]
        /\ spurned' = Spurned(stream[c])
        /\ UNCHANGED <<place, socket, sockets, stream, shared>>
    BY <1>5 DEF ReadCloseFrame, ReaderGoes, monitorVars
  <2>2. reader[c] \in Live /\ stream[c] \in Connections /\ (c = socket => stream[c] = c)
    BY <1>1, <2>1 DEF ClientInv, StreamsExist, OwnStream, ClientTypeOK, Live, Connections, Null
  <2>3. \A d \in Connections : Spoiled(d) => Spoiled(d)'
    BY <1>1, <2>1 DEF Spoiled, Spurned
  <2>4. c = socket => Spoiled(c)'
    BY <1>1, <2>1, <2>2 DEF Spoiled
  <2>5. connected /\ socket # Null => Spoiled(socket)'
    <3>1. CASE stream[c] = socket
      BY <1>1, <2>1, <2>2, <3>1 DEF Spoiled
    <3>2. CASE stream[c] # socket
      BY <2>1, <3>2 DEF Spoiled, Spurned
    <3> QED
      BY <3>1, <3>2
  <2> QED
    BY <2>1, <2>2, <2>3, <2>4, <2>5, ReplaceReaderKeeps
<1>6. CASE Reset(c)
  <2>1. /\ reader[c] = "reset" /\ reader' = [reader EXCEPT ![c] = "dead"] /\ ~connected'
        /\ spurned' = Spurned(c) /\ UNCHANGED <<place, socket, sockets, stream, peer, shared>>
    BY <1>6 DEF Reset, ReaderGoes, monitorVars, networkVars
  <2>2. reader[c] \in Live /\ (c = socket => stream'[c] = c)
    BY <1>1, <2>1 DEF OwnStream, Live
  <2>3. \A d \in Connections : Spoiled(d) => Spoiled(d)'
    BY <2>1 DEF Spoiled, Spurned
  <2>4. connected /\ socket # Null => Spoiled(socket)'
    <3>1. CASE c = socket
      BY <2>1, <2>3, <3>1 DEF ReplaceInv, ResetForReason
    <3>2. CASE c # socket
      BY <2>1, <3>2 DEF Spoiled, Spurned
    <3> QED
      BY <3>1, <3>2
  <2> QED
    BY <2>1, <2>2, <2>3, <2>4, ReplaceReaderKeeps
<1> QED
  BY <1>2, <1>3, <1>4, <1>5, <1>6 DEF Reader

LEMMA ReplaceNetwork ==
    ASSUME ClientInv, ReplaceInv, NEW c \in Connections, Lose(c)
    PROVE  ReplaceInv'
<1>1. /\ UNCHANGED <<place, socket, connected, reader, stream, sockets, spurned, shared>>
      /\ \E s \in {"ended", "gone"} : peer' = [peer EXCEPT ![c] = s]
  BY DEF Lose, monitorVars, fields, readerVars, historyVars
<1>2. \A d \in Connections : Spoiled(d) => Spoiled(d)'
  BY <1>1 DEF Spoiled, ClientInv, ClientTypeOK
<1>3. socket \in Connections \cup {Null}
  BY DEF ClientInv, ClientTypeOK
<1> QED
  BY <1>1, <1>2, <1>3 DEF ReplaceInv, OwnStream, ResetForReason, NotYetRead, ConnectsUnconnected,
                           GivenUpForReason

\* However emit, close, readers and failures interleave, a connect gives up a
\* connection that works only when a reader of an earlier one spoiled it.
THEOREM ClientReplacesWithReason == ClientSpec => ReplacedOnlyWhenSpurned
<1>1. ClientInv /\ ReplaceInv /\ [ClientNext]_clientVars => ReplaceInv'
  <2> SUFFICES ASSUME ClientInv, ReplaceInv, [ClientNext]_clientVars PROVE ReplaceInv'
    OBVIOUS
  <2>1. CASE UNCHANGED clientVars
    BY <2>1 DEF clientVars, monitorVars, fields, readerVars, networkVars, historyVars, ReplaceInv, OwnStream,
                ResetForReason, NotYetRead, ConnectsUnconnected, GivenUpForReason, Spoiled
  <2> QED
    BY <2>1, ReplaceInside, ReplaceBegin, ReplaceReader, ReplaceNetwork DEF ClientNext
<1>2. ClientInv /\ ReplaceInv /\ [ClientNext]_clientVars =>
        [\A c \in closed' \ closed :
           peer[c] = "up" /\ reader[c] # "none" /\ place' # place => c \in spurned \cup shared]_clientVars
  <2> SUFFICES ASSUME ClientInv, ReplaceInv, ClientNext, NEW c \in closed' \ closed,
                      peer[c] = "up", reader[c] # "none", place' # place
               PROVE  c \in spurned \cup shared
    OBVIOUS
  <2>1. ASSUME NEW d \in Connections, Reader(d) \/ Lose(d) PROVE FALSE
    BY <2>1 DEF Reader, Fetch, ReadMessage, ReadOpcode9, Answer, AnswerFails, ReadGarbled, ReadPing,
                ReadCloseFrame, ReadFails, Reset, Pong, PongFails, Lose, monitorVars
  <2>2. PICK t \in Callers : ConnectCloses(t)
    BY <2>1 DEF ClientNext, BeginEmit, CloseByCaller, InsideMonitor, ConnectRefused, ConnectOpens, HandshakeFails,
                Handshake, WritePayload, WriteFails, monitorVars, networkVars
  <2>3. c = socket /\ socket # Null /\ place[t] = "connect"
    BY <2>2 DEF ConnectCloses, CloseSocketOnly, IsAt
  <2>4. ~connected
    BY <2>3 DEF ReplaceInv, ConnectsUnconnected
  <2> QED
    BY <2>3, <2>4 DEF ReplaceInv, GivenUpForReason, Spoiled
<1> QED
  BY <1>1, <1>2, ReplaceInitially, ClientInvariant, PTL DEF ClientSpec, ReplacedOnlyWhenSpurned
==============================================================================
