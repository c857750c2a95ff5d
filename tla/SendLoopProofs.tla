---------------------------- MODULE SendLoopProofs ----------------------------
(* What every step of SendLoop preserves, for any keys and any bound. *)
EXTENDS SendLoop, PendingTelemetryProofs

InFlush == {"clear", "emit"}

\* The lock is held across steps exactly between the copy and the clear.
LockHeldToClear == \A t \in Threads : lock = t <=> pc[t] = "clear"

\* Nothing is merged between the copy and the clear.
CopyIsCurrent == \A t \in Threads : pc[t] = "clear" => snap[t] = pending

\* A payload shares no nested dictionary with the pending telemetry once that
\* was cleared.
PayloadIsolated == \A t \in Threads : pc[t] = "emit" => Isolated(snap[t])

\* No value is newer than the newest merged one.
NothingNewerThanLatest ==
    /\ PendingBounded
    /\ \A t \in Threads : PayloadBounded(snap[t])
    /\ \A l \in Leaves : settled[l] <= latest[l]

LoopInv ==
    /\ SendLoopTypeOK
    /\ LockHeldToClear
    /\ CopyIsCurrent
    /\ PayloadIsolated
    /\ NothingNewerThanLatest
    /\ LatestIsAccountedFor

------------------------------------------------------------------------------
(* Fields and their values *)

LEMMA SnapValueBound ==
    ASSUME SendLoopTypeOK, NothingNewerThanLatest, NEW t \in Threads, NEW l \in Leaves
    PROVE  /\ Value(snap[t], l) \in 0..patches
           /\ Value(snap[t], l) \in Nat /\ Value(snap[t], l) <= latest[l]
<1>1. PendingTypeOK /\ snap[t] \in [Keys -> 0..patches]
  BY DEF SendLoopTypeOK
<1> QED
  BY <1>1, ValueType, ValueBound DEF NothingNewerThanLatest, PendingBounded, PayloadBounded

------------------------------------------------------------------------------
(* Steps that leave the telemetry alone *)

\* Every thread that a step moves stays outside the copied part of _flush.
MovesOutsideFlush ==
    \A t \in Threads : pc'[t] = pc[t] \/ (pc[t] \notin InFlush /\ pc'[t] \notin InFlush)

LEMMA QuietStep ==
    ASSUME LoopInv, SendLoopTypeOK', MovesOutsideFlush,
           UNCHANGED <<lock, snap, bufferVars, settled>>
    PROVE  LoopInv'
<1> USE DEF LoopInv, bufferVars
<1>1. \A t \in Threads : (pc'[t] = "clear" <=> pc[t] = "clear") /\ (pc'[t] = "emit" <=> pc[t] = "emit")
  BY DEF MovesOutsideFlush, InFlush
<1>2. LockHeldToClear'
  BY <1>1 DEF LockHeldToClear
<1>3. CopyIsCurrent'
  BY <1>1 DEF CopyIsCurrent
<1>4. PayloadIsolated'
  BY <1>1 DEF PayloadIsolated, Isolated
<1>5. NothingNewerThanLatest'
  BY DEF NothingNewerThanLatest, PendingBounded, PayloadBounded
<1>6. LatestIsAccountedFor'
  BY <1>1 DEF LatestIsAccountedFor, Value, ValueIn
<1> QED
  BY <1>2, <1>3, <1>4, <1>5, <1>6

LEMMA MoveOutside ==
    ASSUME SendLoopTypeOK, NEW t \in Threads, NEW from, NEW to \in Locations,
           Goto(t, from, to), from \notin InFlush, to \notin InFlush
    PROVE  MovesOutsideFlush /\ pc' \in [Threads -> Locations]
BY DEF SendLoopTypeOK, PendingTypeOK, Goto, MovesOutsideFlush

LEMMA PlainMove ==
    ASSUME LoopInv, NEW t \in Threads, NEW from, NEW to \in Locations,
           Goto(t, from, to), from \notin InFlush, to \notin InFlush,
           UNCHANGED <<lock, snap, bufferVars, emitterVars, historyVars, stop, running>>
    PROVE  LoopInv'
<1>1. MovesOutsideFlush /\ pc' \in [Threads -> Locations]
  BY MoveOutside DEF LoopInv
<1>2. SendLoopTypeOK'
  BY <1>1 DEF LoopInv, SendLoopTypeOK, PendingTypeOK, bufferVars, emitterVars, historyVars
<1> QED
  BY <1>1, <1>2, QuietStep DEF historyVars

LEMMA ConnectEmitterStep ==
    ASSUME LoopInv, NEW next \in Locations \ InFlush, ConnectEmitter(next)
    PROVE  LoopInv'
<1>1. PICK to \in {next, "failed"} : Goto("main", "connect", to)
  BY DEF ConnectEmitter
<1>2. MovesOutsideFlush /\ pc' \in [Threads -> Locations]
  BY <1>1, MoveOutside DEF LoopInv, InFlush, Threads, Locations
<1>3. SendLoopTypeOK'
  BY <1>2 DEF ConnectEmitter, LoopInv, SendLoopTypeOK, PendingTypeOK, bufferVars, historyVars
<1> QED
  BY <1>2, <1>3, QuietStep DEF ConnectEmitter, historyVars

LEMMA StartSenderStep ==
    ASSUME LoopInv, NEW from, from \notin InFlush, StartSender(from), pc["sender"] = "unborn",
           UNCHANGED <<lock, snap, bufferVars, emitterVars, historyVars, stop, running>>
    PROVE  LoopInv'
<1>1. MovesOutsideFlush /\ pc' \in [Threads -> Locations]
  BY DEF StartSender, LoopInv, SendLoopTypeOK, PendingTypeOK, MovesOutsideFlush, InFlush, Threads, Locations
<1>2. SendLoopTypeOK'
  BY <1>1 DEF LoopInv, SendLoopTypeOK, PendingTypeOK, bufferVars, emitterVars, historyVars
<1> QED
  BY <1>1, <1>2, QuietStep DEF historyVars

LEMMA JoinSenderStep ==
    ASSUME LoopInv, NEW next \in Locations \ InFlush, JoinSender(next)
    PROVE  LoopInv'
<1>1. MovesOutsideFlush /\ pc' \in [Threads -> Locations]
  BY MoveOutside DEF JoinSender, LoopInv, InFlush, Threads
<1>2. SendLoopTypeOK'
  BY <1>1 DEF JoinSender, LoopInv, SendLoopTypeOK, PendingTypeOK, bufferVars, emitterVars, SenderOver
<1> QED
  BY <1>1, <1>2, QuietStep DEF JoinSender

LEMMA CloseEmitterStep ==
    ASSUME LoopInv, CloseEmitter
    PROVE  LoopInv'
<1>1. MovesOutsideFlush /\ pc' \in [Threads -> Locations]
  BY MoveOutside DEF CloseEmitter, LoopInv, InFlush, Threads, Locations
<1>2. SendLoopTypeOK'
  BY <1>1 DEF CloseEmitter, LoopInv, SendLoopTypeOK, PendingTypeOK, bufferVars, historyVars
<1> QED
  BY <1>1, <1>2, QuietStep DEF CloseEmitter, historyVars

LEMMA ProcessExitStep ==
    ASSUME LoopInv, ProcessExit
    PROVE  LoopInv'
<1>1. SendLoopTypeOK'
  BY DEF ProcessExit, LoopInv, SendLoopTypeOK, PendingTypeOK, threadVars, bufferVars, emitterVars, historyVars
<1> QED
  BY <1>1, QuietStep DEF ProcessExit, MovesOutsideFlush, threadVars, historyVars

LEMMA EnvironmentStep ==
    ASSUME LoopInv, Environment
    PROVE  LoopInv'
<1>1. UNCHANGED <<threadVars, bufferVars, historyVars, emitter, kind, running>>
  BY DEF Environment, Signal, LinkDown, LinkUp, emitterVars
<1>2. SendLoopTypeOK'
  BY <1>1 DEF Environment, Signal, LinkDown, LinkUp, LoopInv, SendLoopTypeOK, PendingTypeOK,
              threadVars, bufferVars, emitterVars, historyVars
<1> QED
  BY <1>1, <1>2, QuietStep DEF MovesOutsideFlush, threadVars, historyVars

------------------------------------------------------------------------------
(* The steps of _flush *)

LEMMA FlushCopyStep ==
    ASSUME LoopInv, NEW t \in Threads, FlushCopy(t)
    PROVE  LoopInv'
<1>1. CASE Goto(t, "flush", AfterFlush(t)) /\ UNCHANGED <<lock, snap>>
  BY <1>1, PlainMove DEF FlushCopy, AfterFlush, InFlush, Locations
<1>2. CASE /\ Goto(t, "flush", "clear")
           /\ lock' = t
           /\ snap' = [snap EXCEPT ![t] = pending]
  <2> USE <1>2 DEF FlushCopy, Goto, bufferVars, emitterVars, historyVars
  <2>1. /\ lock = Free
        /\ UNCHANGED <<bufferVars, emitterVars, historyVars, stop, running>>
        /\ pc[t] = "flush" /\ pc \in [Threads -> Locations]
        /\ pc' = [pc EXCEPT ![t] = "clear"]
        /\ snap \in [Threads -> [Keys -> 0..patches]]
        /\ pending \in [Keys -> 0..patches]
    BY DEF LoopInv, SendLoopTypeOK, PendingTypeOK
  <2>2. \A u \in Threads : u # t => pc'[u] = pc[u] /\ snap'[u] = snap[u]
    BY <2>1
  <2>3. pc'[t] = "clear" /\ snap'[t] = pending
    BY <2>1
  <2>4. SendLoopTypeOK'
    BY <2>1 DEF LoopInv, SendLoopTypeOK, PendingTypeOK, Locations
  <2>5. \A u \in Threads : pc[u] # "clear"
    BY <2>1 DEF LoopInv, LockHeldToClear, Free, Threads
  <2>6. LockHeldToClear'
    BY <2>2, <2>3, <2>5 DEF LockHeldToClear
  <2>7. CopyIsCurrent'
    BY <2>1, <2>2, <2>3, <2>5 DEF CopyIsCurrent
  <2>8. PayloadIsolated'
    BY <2>1, <2>2, <2>3 DEF LoopInv, PayloadIsolated, Isolated
  <2>9. NothingNewerThanLatest'
    BY <2>1, <2>2, <2>3 DEF LoopInv, NothingNewerThanLatest, PendingBounded, PayloadBounded
  <2>10. LatestIsAccountedFor'
    BY <2>1, <2>2, <2>3 DEF LoopInv, LatestIsAccountedFor, Value, ValueIn
  <2> QED
    BY <2>4, <2>6, <2>7, <2>8, <2>9, <2>10 DEF LoopInv
<1> QED
  BY <1>1, <1>2 DEF FlushCopy

LEMMA FlushClearStep ==
    ASSUME LoopInv, NEW t \in Threads, FlushClear(t)
    PROVE  LoopInv'
<1> USE DEF FlushClear, Goto, emitterVars, historyVars
<1>1. /\ UNCHANGED <<snap, dicts, patches, latest, emitterVars, historyVars, stop, running>>
      /\ pc[t] = "clear" /\ pc \in [Threads -> Locations]
      /\ pc' = [pc EXCEPT ![t] = "emit"]
      /\ pending' = Empty /\ lock' = Free
  BY DEF LoopInv, SendLoopTypeOK, PendingTypeOK
<1>2. \A u \in Threads : u # t => pc'[u] = pc[u]
  BY <1>1
<1>3. pc'[t] = "emit" /\ snap[t] = pending
  BY <1>1 DEF LoopInv, CopyIsCurrent
<1>4. patches \in Nat
  BY MaxPatchesAssumption DEF LoopInv, SendLoopTypeOK, PendingTypeOK
<1>5. SendLoopTypeOK'
  BY <1>1, <1>4 DEF LoopInv, SendLoopTypeOK, PendingTypeOK, Locations, Empty
<1>6. \A u \in Threads : u # t => pc[u] # "clear"
  BY <1>1 DEF LoopInv, LockHeldToClear
<1>7. LockHeldToClear'
  BY <1>1, <1>2, <1>3, <1>6 DEF LockHeldToClear, Free, Threads
<1>8. CopyIsCurrent'
  BY <1>2, <1>3, <1>6 DEF CopyIsCurrent
<1>9. PayloadIsolated'
  BY <1>1 DEF PayloadIsolated, Isolated, Empty, Keys
<1>10. NothingNewerThanLatest'
  <2>1. \A k \in FlatKeys : pending'[k] = 0 /\ latest[<<k, NoChild>>] \in Nat
    BY <1>1, <1>4 DEF Empty, Keys, Leaves, LoopInv, SendLoopTypeOK, PendingTypeOK
  <2> QED
    BY <1>1, <2>1 DEF LoopInv, NothingNewerThanLatest, PendingBounded, PayloadBounded
<1>11. LatestIsAccountedFor'
  BY <1>1, <1>2, <1>3 DEF LoopInv, LatestIsAccountedFor, Value, ValueIn
<1> QED
  BY <1>5, <1>7, <1>8, <1>9, <1>10, <1>11 DEF LoopInv

LEMMA FlushEmitStep ==
    ASSUME LoopInv, NEW t \in Threads, FlushEmit(t)
    PROVE  LoopInv'
<1> DEFINE after == IF EmitSucceeds THEN AfterFlush(t) ELSE Uncaught(t)
<1>1. /\ UNCHANGED <<lock, bufferVars, emitterVars, gaveUp, stop, running>>
      /\ Goto(t, "emit", after)
      /\ Settle(t)
      /\ snap' = [snap EXCEPT ![t] = Empty]
      /\ raised' \in BOOLEAN
  BY DEF FlushEmit, LoopInv, SendLoopTypeOK, PendingTypeOK
<1>2. /\ after \in Locations \ InFlush
      /\ pc[t] = "emit" /\ pc'[t] = after
      /\ pc' \in [Threads -> Locations]
      /\ \A u \in Threads : u # t => pc'[u] = pc[u]
  BY <1>1 DEF Goto, LoopInv, SendLoopTypeOK, PendingTypeOK, AfterFlush, Uncaught, Locations, InFlush
<1> HIDE DEF after
<1>3. \A u \in Threads : u # t => snap'[u] = snap[u]
  BY <1>1 DEF LoopInv, SendLoopTypeOK, PendingTypeOK
<1>4. snap'[t] = Empty /\ snap' \in [Threads -> [Keys -> 0..patches]] /\ patches \in Nat
  BY <1>1, MaxPatchesAssumption DEF LoopInv, SendLoopTypeOK, PendingTypeOK, Empty
<1>5. \A l \in Leaves :
         /\ Value(snap[t], l) \in 0..patches /\ Value(snap[t], l) <= latest[l]
         /\ settled[l] \in 0..patches /\ settled[l] <= latest[l] /\ latest[l] \in Nat
  BY <1>4, ValueType, SnapValueBound DEF LoopInv, SendLoopTypeOK, PendingTypeOK, NothingNewerThanLatest
<1>6. \A l \in Leaves :
         /\ settled'[l] \in 0..patches /\ settled'[l] <= latest[l]
         /\ settled'[l] >= settled[l] /\ settled'[l] >= Value(snap[t], l)
  BY <1>1, <1>4, <1>5 DEF Settle
<1>7. SendLoopTypeOK'
  <2>1. settled' \in [Leaves -> 0..patches]
    BY <1>1, <1>6 DEF Settle
  <2>2. shown' \in [Leaves -> 0..patches]
    BY <1>5 DEF FlushEmit, LoopInv, SendLoopTypeOK, PendingTypeOK
  <2> QED
    BY <1>1, <1>2, <1>4, <2>1, <2>2
       DEF LoopInv, SendLoopTypeOK, PendingTypeOK, bufferVars, emitterVars
<1>8. LockHeldToClear'
  BY <1>1, <1>2 DEF LoopInv, LockHeldToClear, InFlush
<1>9. CopyIsCurrent'
  BY <1>1, <1>2, <1>3 DEF LoopInv, CopyIsCurrent, InFlush, bufferVars
<1>10. PayloadIsolated'
  BY <1>1, <1>2, <1>3 DEF LoopInv, PayloadIsolated, Isolated, InFlush, bufferVars
<1>11. NothingNewerThanLatest'
  <2>1. \A u \in Threads, k \in FlatKeys : snap'[u][k] <= latest[<<k, NoChild>>]
    <3>1. ASSUME NEW k \in FlatKeys PROVE snap'[t][k] = 0 /\ latest[<<k, NoChild>>] \in Nat
      BY <1>4 DEF Empty, Keys, Leaves, LoopInv, SendLoopTypeOK, PendingTypeOK
    <3> QED
      BY <1>3, <3>1 DEF LoopInv, NothingNewerThanLatest, PendingBounded, PayloadBounded
  <2> QED
    BY <1>1, <1>6, <2>1 DEF LoopInv, NothingNewerThanLatest, PendingBounded, PayloadBounded, bufferVars
<1>12. LatestIsAccountedFor'
  <2> SUFFICES ASSUME NEW l \in Leaves, latest[l] # 0
               PROVE  \/ Value(pending, l) = latest[l]
                      \/ \E u \in Threads : u # t /\ pc[u] \in {"clear", "emit"}
                                                  /\ Value(snap[u], l) = latest[l]
                      \/ settled'[l] = latest[l]
    BY <1>1, <1>2, <1>3 DEF LatestIsAccountedFor, Value, ValueIn, bufferVars
  <2>1. CASE Value(snap[t], l) = latest[l] \/ settled[l] = latest[l]
    <3>1. patches \in Nat /\ settled'[l] \in 0..patches /\ latest[l] \in Nat
      BY <1>4, <1>5, <1>6
    <3>2. settled'[l] <= latest[l] /\ settled'[l] >= settled[l] /\ settled'[l] >= Value(snap[t], l)
      BY <1>6
    <3>3. settled'[l] >= latest[l]
      BY <2>1, <3>2
    <3> QED
      BY <3>1, <3>2, <3>3
  <2>2. CASE ~(Value(snap[t], l) = latest[l] \/ settled[l] = latest[l])
    BY <2>2 DEF LoopInv, LatestIsAccountedFor
  <2> QED
    BY <2>1, <2>2
<1> QED
  BY <1>7, <1>8, <1>9, <1>10, <1>11, <1>12 DEF LoopInv

LEMMA SenderStep ==
    ASSUME LoopInv, Sender
    PROVE  LoopInv'
<1>1. CASE SendLoopTest
  <2>1. (IF stop THEN "exited" ELSE "sleep") \in Locations \ InFlush
    BY DEF Locations, InFlush
  <2> QED
    BY <1>1, <2>1, PlainMove DEF SendLoopTest, Threads, InFlush
<1>2. CASE SendLoopWake
  BY <1>2, PlainMove DEF SendLoopWake, Threads, InFlush, Locations
<1>3. CASE Flush("sender")
  BY <1>3, FlushCopyStep, FlushClearStep, FlushEmitStep DEF Flush, Threads
<1> QED
  BY <1>1, <1>2, <1>3 DEF Sender

------------------------------------------------------------------------------
(* The merge of a patch *)

\* A merge touches no payload that a thread is about to emit.
LEMMA MergeKeepsValues ==
    ASSUME LoopInv, NEW fs \in SUBSET Leaves, LockedMerge(fs), UNCHANGED snap,
           NEW t \in Threads, pc[t] = "emit"
    PROVE  /\ Isolated(snap[t])'
           /\ \A l \in Leaves : ValueIn(snap'[t], dicts', l) = Value(snap[t], l)
<1>1. /\ PendingTypeOK /\ snap[t] \in [Keys -> 0..patches]
      /\ Isolated(snap[t]) /\ MergePatch(fs)
  BY DEF LoopInv, SendLoopTypeOK, PayloadIsolated, LockedMerge
<1>2. /\ \A k \in NestedKeys : snap[t][k] # 0 => snap[t][k] # pending'[k]
      /\ \A l \in Leaves : ValueIn(snap[t], dicts', l) = Value(snap[t], l)
  BY <1>1, MergeKeepsPayload
<1> QED
  BY <1>2 DEF Isolated

LEMMA MergeStep ==
    ASSUME LoopInv, NEW fs \in SUBSET Leaves, patches < MaxPatches, LockedMerge(fs),
           MovesOutsideFlush, pc' \in [Threads -> Locations],
           UNCHANGED <<lock, snap, emitterVars, historyVars, stop, running>>
    PROVE  LoopInv'
<1>1. /\ PendingTypeOK /\ PendingBounded /\ MergePatch(fs) /\ lock = Free
      /\ patches \in Nat /\ latest \in [Leaves -> 0..patches]
  BY MaxPatchesAssumption
     DEF LoopInv, SendLoopTypeOK, PendingTypeOK, NothingNewerThanLatest, LockedMerge
<1>2. /\ PendingTypeOK' /\ patches' = patches + 1
      /\ \A l \in Leaves : latest[l] <= latest'[l]
  BY <1>1, MergeTypes
<1>3. \A t \in Threads :
         /\ pc[t] # "clear" /\ pc'[t] # "clear"
         /\ pc'[t] = "emit" <=> pc[t] = "emit"
  BY <1>1 DEF LoopInv, LockHeldToClear, MovesOutsideFlush, InFlush, Free, Threads
<1>4. latest' \in [Leaves -> 0..patches']
  BY <1>2 DEF PendingTypeOK
<1>5. SendLoopTypeOK'
  <2>1. 0..patches \subseteq 0..patches'
    BY <1>1, <1>2
  <2>2. /\ snap' \in [Threads -> [Keys -> 0..patches']]
        /\ shown' \in [Leaves -> 0..patches'] /\ settled' \in [Leaves -> 0..patches']
    BY <2>1 DEF LoopInv, SendLoopTypeOK, historyVars
  <2> QED
    BY <1>2, <2>2 DEF LoopInv, SendLoopTypeOK, emitterVars, historyVars
<1>6. LockHeldToClear'
  BY <1>3 DEF LoopInv, LockHeldToClear
<1>7. CopyIsCurrent'
  BY <1>3 DEF CopyIsCurrent
<1>8. PayloadIsolated'
  BY <1>3, MergeKeepsValues DEF PayloadIsolated, Isolated
<1>9. NothingNewerThanLatest'
  <2>1. PendingBounded'
    BY <1>1, MergeBounds DEF LoopInv, SendLoopTypeOK, PendingTypeOK
  <2>2. ASSUME NEW t \in Threads, NEW k \in FlatKeys
        PROVE  snap'[t][k] <= latest'[<<k, NoChild>>]
    <3>1. <<k, NoChild>> \in Leaves /\ k \in Keys
      BY DEF Leaves, Keys
    <3>2. snap[t][k] \in 0..patches /\ snap[t][k] <= latest[<<k, NoChild>>]
      BY <3>1 DEF LoopInv, SendLoopTypeOK, NothingNewerThanLatest, PayloadBounded
    <3>3. /\ latest[<<k, NoChild>>] \in 0..patches /\ latest'[<<k, NoChild>>] \in 0..patches'
          /\ latest[<<k, NoChild>>] <= latest'[<<k, NoChild>>]
      BY <1>1, <1>2, <1>4, <3>1
    <3> QED
      BY <1>1, <1>2, <3>2, <3>3
  <2>3. ASSUME NEW l \in Leaves PROVE settled'[l] <= latest'[l]
    <3>1. settled[l] \in 0..patches /\ settled[l] <= latest[l] /\ settled' = settled
      BY DEF LoopInv, SendLoopTypeOK, NothingNewerThanLatest, historyVars
    <3> QED
      BY <1>1, <1>2, <1>4, <3>1
  <2> QED
    BY <2>1, <2>2, <2>3 DEF NothingNewerThanLatest, PayloadBounded
<1>10. LatestIsAccountedFor'
  <2> SUFFICES ASSUME NEW l \in Leaves, latest'[l] # 0
               PROVE  \/ Value(pending, l)' = latest'[l]
                      \/ \E t \in Threads : /\ pc'[t] \in {"clear", "emit"}
                                            /\ ValueIn(snap'[t], dicts', l) = latest'[l]
                      \/ settled'[l] = latest'[l]
    BY DEF LatestIsAccountedFor, Value
  <2>1. /\ l \in fs => Value(pending, l)' = latest'[l]
        /\ l \notin fs => /\ latest'[l] = latest[l]
                          /\ Value(pending, l) # 0 => Value(pending, l)' = Value(pending, l)
    BY <1>1, MergeValues DEF LoopInv, SendLoopTypeOK, PendingTypeOK
  <2>2. CASE l \in fs
    BY <2>1, <2>2
  <2>3. CASE l \notin fs
    <3>1. latest'[l] = latest[l]
      BY <2>1, <2>3
    <3>2. CASE Value(pending, l) = latest[l]
      BY <2>1, <2>3, <3>1, <3>2
    <3>3. CASE \E t \in Threads : pc[t] \in {"clear", "emit"} /\ Value(snap[t], l) = latest[l]
      <4>1. PICK t \in Threads : pc[t] = "emit" /\ Value(snap[t], l) = latest[l]
        BY <1>3, <3>3
      <4>2. ValueIn(snap'[t], dicts', l) = latest'[l]
        BY <3>1, <4>1, MergeKeepsValues
      <4> QED
        BY <1>3, <4>1, <4>2
    <3>4. CASE settled[l] = latest[l]
      BY <3>1, <3>4 DEF historyVars
    <3> QED
      BY <3>1, <3>2, <3>3, <3>4 DEF LoopInv, LatestIsAccountedFor
  <2> QED
    BY <2>2, <2>3
<1> QED
  BY <1>5, <1>6, <1>7, <1>8, <1>9, <1>10 DEF LoopInv

------------------------------------------------------------------------------
(* The initial state, and what a payload keeps *)

LEMMA LoopInitially ==
    ASSUME NEW m \in Locations \ InFlush, SendLoopInit(m)
    PROVE  LoopInv
<1>1. MaxPatches \in Nat /\ patches = 0
  BY MaxPatchesAssumption DEF SendLoopInit, PendingInit
<1>2. \A t \in Threads : pc[t] \in Locations \ InFlush
  BY DEF SendLoopInit, PendingInit, Locations, InFlush
<1>3. SendLoopTypeOK
  <2>1. pc \in [Threads -> Locations] /\ lock \in Threads \cup {Free}
    BY <1>2 DEF SendLoopInit, PendingInit, Locations
  <2>2. pending \in [Keys -> 0..patches] /\ snap \in [Threads -> [Keys -> 0..patches]]
    BY <1>1 DEF SendLoopInit, PendingInit, Empty
  <2>3. dicts \in [NestedKeys -> [PatchIds -> [Children -> 0..patches]]]
    BY <1>1 DEF SendLoopInit, PendingInit
  <2>4. /\ latest \in [Leaves -> 0..patches] /\ shown \in [Leaves -> 0..patches]
        /\ settled \in [Leaves -> 0..patches] /\ patches \in 0..MaxPatches
    BY <1>1 DEF SendLoopInit, PendingInit
  <2> QED
    BY <2>1, <2>2, <2>3, <2>4 DEF SendLoopInit, PendingInit, SendLoopTypeOK, PendingTypeOK
<1>4. LockHeldToClear /\ CopyIsCurrent /\ PayloadIsolated
  BY <1>2 DEF SendLoopInit, PendingInit, LockHeldToClear, CopyIsCurrent, PayloadIsolated, Isolated, InFlush, Free, Threads
<1>5. NothingNewerThanLatest
  <2>1. /\ \A k \in FlatKeys : pending[k] = 0 /\ latest[<<k, NoChild>>] = 0
        /\ \A t \in Threads, k \in FlatKeys : snap[t][k] = 0
    BY DEF SendLoopInit, PendingInit, Empty, Keys, Leaves
  <2>2. \A k \in NestedKeys, r \in PatchIds, c \in Children :
           dicts[k][r][c] = 0 /\ latest[<<k, c>>] = 0
    BY DEF SendLoopInit, PendingInit, Leaves
  <2>3. \A l \in Leaves : settled[l] = 0 /\ latest[l] = 0
    BY DEF SendLoopInit, PendingInit
  <2> QED
    BY <2>1, <2>2, <2>3 DEF NothingNewerThanLatest, PendingBounded, PayloadBounded
<1>6. LatestIsAccountedFor
  BY DEF SendLoopInit, PendingInit, LatestIsAccountedFor
<1> QED
  BY <1>3, <1>4, <1>5, <1>6 DEF LoopInv

\* A payload keeps its values in every step that leaves the nested
\* dictionaries alone.
LEMMA PayloadKeptWithoutMerge ==
    ASSUME UNCHANGED dicts, \A t \in Threads : pc[t] = "emit" /\ pc'[t] = "emit" => snap'[t] = snap[t]
    PROVE  PayloadKept
BY DEF PayloadKept, Value, ValueIn

LEMMA FlushKeepsOtherPayloads ==
    ASSUME LoopInv, NEW u \in Threads, Flush(u),
           NEW t \in Threads, pc[t] = "emit", pc'[t] = "emit"
    PROVE  snap'[t] = snap[t]
<1>1. pc \in [Threads -> Locations] /\ snap \in [Threads -> [Keys -> 0..patches]]
  BY DEF LoopInv, SendLoopTypeOK, PendingTypeOK
<1>2. CASE FlushCopy(u)
  BY <1>1, <1>2 DEF FlushCopy, Goto
<1>3. CASE FlushClear(u)
  BY <1>3 DEF FlushClear
<1>4. CASE FlushEmit(u)
  <2>1. pc'[u] # "emit"
    BY <1>1, <1>4 DEF FlushEmit, Goto, AfterFlush, Uncaught
  <2> QED
    BY <1>1, <1>4, <2>1 DEF FlushEmit
<1> QED
  BY <1>2, <1>3, <1>4 DEF Flush
------------------------------------------------------------------------------
(* The order of the payloads, and what a shutdown leaves behind *)

BeforeJoin == {"connect", "bind", "resolve", "open", "test", "recv", "read", "merge", "join"}
AfterJoin == {"drain", "last", "flush", "clear", "emit", "close", "done"}
AfterClear == {"emit", "close", "done"}

\* When join() did not give up, the sender is over before the main thread goes on.
JoinedInOrder ==
    /\ pc["main"] \in BeforeJoin => ~gaveUp
    /\ pc["main"] \in AfterJoin /\ ~gaveUp => SenderOver

\* Nothing is merged after the final copy.
NothingLeft == pc["main"] \in AfterClear => pending = Empty

\* No payload is older than what was already passed to emit().
PayloadsInOrder ==
    ~gaveUp => \A t \in Threads : pc[t] \in InFlush =>
                   \A l \in Leaves : Value(snap[t], l) = 0 \/ Value(snap[t], l) >= settled[l]

\* What LIVI was shown is what was passed to emit(), unless an emit() raised.
ShownIsSettled ==
    /\ \A l \in Leaves : shown[l] <= settled[l]
    /\ ~gaveUp /\ ~raised => shown = settled

OrderInv ==
    /\ JoinedInOrder
    /\ NothingLeft
    /\ FreshIsEmpty
    /\ PendingIsLatest
    /\ PayloadsInOrder
    /\ ShownIsSettled
LEMMA OrderInitially ==
    ASSUME NEW m \in BeforeJoin, SendLoopInit(m)
    PROVE  OrderInv
<1>1. pc["main"] = m /\ pc["sender"] = "unborn" /\ ~gaveUp /\ pending = Empty /\ patches = 0
  BY DEF SendLoopInit, PendingInit, Threads
<1>2. JoinedInOrder /\ NothingLeft /\ PayloadsInOrder
  BY <1>1 DEF JoinedInOrder, NothingLeft, PayloadsInOrder, BeforeJoin, AfterJoin, AfterClear,
              InFlush, Threads
<1>3. FreshIsEmpty
  BY DEF SendLoopInit, PendingInit, FreshIsEmpty
<1>4. PendingIsLatest
  BY <1>1, EmptyHasNothing DEF PendingIsLatest, Value
<1>5. ShownIsSettled
  BY DEF SendLoopInit, ShownIsSettled
<1> QED
  BY <1>2, <1>3, <1>4, <1>5 DEF OrderInv

\* Without join() giving up, one thread at most is inside _flush.
LEMMA AloneInFlush ==
    ASSUME OrderInv, ~gaveUp, NEW t \in Threads, NEW u \in Threads,
           pc[t] \in InFlush, pc[u] \in InFlush
    PROVE  t = u
BY DEF OrderInv, JoinedInOrder, SenderOver, AfterJoin, InFlush, Threads

LEMMA OrderQuiet ==
    ASSUME OrderInv, JoinedInOrder', MovesOutsideFlush, gaveUp => gaveUp',
           pc'["main"] \in AfterClear => pc["main"] \in AfterClear,
           UNCHANGED <<snap, bufferVars, shown, settled, raised>>
    PROVE  OrderInv'
<1> USE DEF OrderInv, bufferVars
<1>1. NothingLeft' /\ FreshIsEmpty' /\ ShownIsSettled'
  BY DEF NothingLeft, FreshIsEmpty, ShownIsSettled
<1>2. PendingIsLatest'
  BY DEF PendingIsLatest, Value, ValueIn
<1>3. PayloadsInOrder'
  BY DEF PayloadsInOrder, Value, ValueIn, MovesOutsideFlush
<1> QED
  BY <1>1, <1>2, <1>3

\* A step of the main thread that stays before or after join().
LEMMA OrderMain ==
    ASSUME SendLoopTypeOK, OrderInv, NEW from \in Locations \ InFlush, NEW to \in Locations \ InFlush,
           Goto("main", from, to),
           to \in BeforeJoin => from \in BeforeJoin,
           to \in AfterJoin => from \in AfterJoin,
           to \in AfterClear => from \in AfterClear,
           UNCHANGED <<snap, bufferVars, historyVars>>
    PROVE  OrderInv'
<1>1. /\ pc["main"] = from /\ pc'["main"] = to /\ pc'["sender"] = pc["sender"]
      /\ MovesOutsideFlush
  BY DEF SendLoopTypeOK, Goto, Threads, MovesOutsideFlush
<1>2. JoinedInOrder'
  BY <1>1 DEF OrderInv, JoinedInOrder, SenderOver, historyVars
<1> QED
  BY <1>1, <1>2, OrderQuiet DEF historyVars

LEMMA OrderConnect ==
    ASSUME SendLoopTypeOK, OrderInv, NEW next \in BeforeJoin, ConnectEmitter(next)
    PROVE  OrderInv'
<1>1. PICK to \in {next, "failed"} : Goto("main", "connect", to)
  BY DEF ConnectEmitter
<1> QED
  BY <1>1, OrderMain DEF ConnectEmitter, Locations, InFlush, BeforeJoin, AfterJoin, AfterClear

LEMMA OrderStart ==
    ASSUME SendLoopTypeOK, OrderInv, NEW from \in BeforeJoin, StartSender(from),
           pc["sender"] = "unborn", UNCHANGED <<snap, bufferVars, historyVars>>
    PROVE  OrderInv'
<1>1. /\ pc["main"] = from /\ pc'["main"] = "test" /\ pc'["sender"] = "test"
      /\ MovesOutsideFlush
  BY DEF SendLoopTypeOK, StartSender, Threads, MovesOutsideFlush, BeforeJoin, InFlush
<1>2. JoinedInOrder'
  BY <1>1 DEF OrderInv, JoinedInOrder, BeforeJoin, AfterJoin, historyVars
<1> QED
  BY <1>1, <1>2, OrderQuiet DEF AfterClear, historyVars

LEMMA OrderJoin ==
    ASSUME SendLoopTypeOK, OrderInv, NEW next \in {"drain", "flush"}, JoinSender(next)
    PROVE  OrderInv' /\ ~gaveUp
<1>1. /\ pc["main"] = "join" /\ pc'["main"] = next /\ pc'["sender"] = pc["sender"]
      /\ MovesOutsideFlush
  BY DEF SendLoopTypeOK, JoinSender, Goto, Threads, MovesOutsideFlush, InFlush
<1>2. ~gaveUp
  BY <1>1 DEF OrderInv, JoinedInOrder, BeforeJoin
<1>3. JoinedInOrder'
  BY <1>1 DEF JoinSender, JoinedInOrder, SenderOver, BeforeJoin
<1> QED
  BY <1>1, <1>2, <1>3, OrderQuiet DEF JoinSender, AfterClear

LEMMA OrderClose ==
    ASSUME SendLoopTypeOK, OrderInv, CloseEmitter
    PROVE  OrderInv'
BY OrderMain DEF CloseEmitter, Locations, InFlush, BeforeJoin, AfterJoin, AfterClear

LEMMA OrderStill ==
    ASSUME OrderInv, UNCHANGED <<threadVars, bufferVars, historyVars>>
    PROVE  OrderInv'
<1>1. JoinedInOrder' /\ MovesOutsideFlush
  BY DEF OrderInv, JoinedInOrder, SenderOver, MovesOutsideFlush, threadVars, historyVars
<1> QED
  BY <1>1, OrderQuiet DEF threadVars, historyVars

LEMMA OrderSenderMoves ==
    ASSUME SendLoopTypeOK, OrderInv, SendLoopTest \/ SendLoopWake
    PROVE  OrderInv'
<1>1. PICK from \in {"test", "sleep"}, to \in {"exited", "sleep", "flush"} : Goto("sender", from, to)
  BY DEF SendLoopTest, SendLoopWake
<1>2. /\ pc["sender"] = from /\ pc'["sender"] = to /\ pc'["main"] = pc["main"]
      /\ MovesOutsideFlush
  BY <1>1 DEF SendLoopTypeOK, Goto, Threads, MovesOutsideFlush, InFlush
<1>3. UNCHANGED <<snap, bufferVars, historyVars>>
  BY DEF SendLoopTest, SendLoopWake
<1>4. JoinedInOrder'
  BY <1>2, <1>3 DEF OrderInv, JoinedInOrder, SenderOver, historyVars
<1> QED
  BY <1>2, <1>3, <1>4, OrderQuiet DEF historyVars
LEMMA OrderCopy ==
    ASSUME LoopInv, OrderInv, NEW t \in Threads, FlushCopy(t)
    PROVE  OrderInv'
<1>1. /\ pc \in [Threads -> Locations] /\ snap \in [Threads -> [Keys -> 0..patches]]
      /\ pc[t] = "flush" /\ UNCHANGED <<pending, dicts, patches, latest, historyVars>>
  BY DEF LoopInv, SendLoopTypeOK, FlushCopy, Goto, bufferVars
<1>2. pc' = [pc EXCEPT ![t] = IF pending = Empty THEN AfterFlush(t) ELSE "clear"]
  BY DEF FlushCopy, Goto
<1>3. JoinedInOrder'
  BY <1>1, <1>2 DEF OrderInv, JoinedInOrder, SenderOver, AfterFlush, BeforeJoin, AfterJoin,
                    Threads, historyVars
<1>4. NothingLeft'
  BY <1>1, <1>2 DEF OrderInv, NothingLeft, AfterFlush, AfterClear, Threads
<1>5. FreshIsEmpty' /\ PendingIsLatest' /\ ShownIsSettled'
  BY <1>1 DEF OrderInv, FreshIsEmpty, PendingIsLatest, ShownIsSettled, Value, ValueIn, historyVars
<1>6. PayloadsInOrder'
  <2> SUFFICES ASSUME ~gaveUp, NEW u \in Threads, pc'[u] \in InFlush, NEW l \in Leaves
               PROVE  ValueIn(snap'[u], dicts, l) = 0 \/ ValueIn(snap'[u], dicts, l) >= settled[l]
    BY <1>1 DEF PayloadsInOrder, Value, ValueIn, historyVars
  <2>1. CASE u = t
    <3>1. snap'[t] = pending
      BY <1>1, <1>2, <2>1 DEF FlushCopy, AfterFlush, InFlush
    <3>2. Value(pending, l) \in {0, latest[l]} /\ settled[l] <= latest[l]
      BY DEF OrderInv, PendingIsLatest, LoopInv, NothingNewerThanLatest
    <3>3. settled[l] \in Nat /\ latest[l] \in Nat
      BY MaxPatchesAssumption DEF LoopInv, SendLoopTypeOK, PendingTypeOK
    <3> QED
      BY <2>1, <3>1, <3>2, <3>3 DEF Value
  <2>2. CASE u # t
    <3>1. pc[u] \in InFlush /\ snap'[u] = snap[u]
      BY <1>1, <1>2, <2>2 DEF FlushCopy
    <3> QED
      BY <3>1 DEF OrderInv, PayloadsInOrder, Value
  <2> QED
    BY <2>1, <2>2
<1> QED
  BY <1>3, <1>4, <1>5, <1>6 DEF OrderInv

LEMMA OrderClear ==
    ASSUME LoopInv, OrderInv, NEW t \in Threads, FlushClear(t)
    PROVE  OrderInv'
<1>1. /\ pc \in [Threads -> Locations] /\ pc[t] = "clear" /\ pc' = [pc EXCEPT ![t] = "emit"]
      /\ pending' = Empty /\ UNCHANGED <<snap, dicts, patches, latest, historyVars>>
  BY DEF LoopInv, SendLoopTypeOK, FlushClear, Goto
<1>2. JoinedInOrder'
  BY <1>1 DEF OrderInv, JoinedInOrder, SenderOver, BeforeJoin, AfterJoin, Threads, historyVars
<1>3. NothingLeft'
  BY <1>1 DEF NothingLeft
<1>4. FreshIsEmpty' /\ ShownIsSettled'
  BY <1>1 DEF OrderInv, FreshIsEmpty, ShownIsSettled, historyVars
<1>5. PendingIsLatest'
  BY <1>1, EmptyHasNothing DEF PendingIsLatest, Value
<1>6. PayloadsInOrder'
  BY <1>1 DEF OrderInv, PayloadsInOrder, Value, ValueIn, InFlush, historyVars
<1> QED
  BY <1>2, <1>3, <1>4, <1>5, <1>6 DEF OrderInv

\* What an emit() does to one field.
LEMMA EmitValues ==
    ASSUME LoopInv, OrderInv, NEW t \in Threads, FlushEmit(t), NEW l \in Leaves
    PROVE  /\ shown'[l] <= settled'[l] /\ settled'[l] <= latest[l]
           /\ ~gaveUp => shown'[l] >= shown[l]
           /\ ~gaveUp /\ ~raised' => shown'[l] = settled'[l]
           /\ shown'[l] \in Nat /\ settled'[l] \in Nat
<1> DEFINE v == Value(snap[t], l)
<1>1. /\ v \in Nat /\ v <= latest[l] /\ settled[l] \in Nat /\ shown[l] \in Nat /\ latest[l] \in Nat
      /\ settled[l] <= latest[l] /\ shown[l] <= settled[l]
  BY MaxPatchesAssumption, SnapValueBound DEF LoopInv, SendLoopTypeOK, PendingTypeOK, NothingNewerThanLatest,
     OrderInv, ShownIsSettled
<1>2. ~gaveUp => v = 0 \/ v >= settled[l]
  BY DEF FlushEmit, Goto, OrderInv, PayloadsInOrder, InFlush
<1>3. ~gaveUp /\ ~raised => shown[l] = settled[l]
  BY DEF OrderInv, ShownIsSettled
<1>4. settled'[l] = IF v > settled[l] THEN v ELSE settled[l]
  BY DEF FlushEmit, Settle
<1>5. \/ shown'[l] = (IF v # 0 THEN v ELSE shown[l]) /\ raised' = raised
      \/ shown'[l] = shown[l] /\ raised' = TRUE
  BY DEF FlushEmit
<1> HIDE DEF v
<1> QED
  BY <1>1, <1>2, <1>3, <1>4, <1>5

LEMMA OrderEmit ==
    ASSUME LoopInv, OrderInv, NEW t \in Threads, FlushEmit(t)
    PROVE  OrderInv'
<1>1. /\ pc \in [Threads -> Locations] /\ pc[t] = "emit"
      /\ pc'[t] \in {AfterFlush(t), Uncaught(t)}
      /\ \A u \in Threads : u # t => pc'[u] = pc[u]
      /\ UNCHANGED <<pending, dicts, patches, latest, gaveUp>>
  BY DEF LoopInv, SendLoopTypeOK, FlushEmit, Goto, bufferVars
<1>2. JoinedInOrder'
  BY <1>1 DEF OrderInv, JoinedInOrder, SenderOver, AfterFlush, Uncaught, BeforeJoin, AfterJoin, Threads
<1>3. NothingLeft'
  BY <1>1 DEF OrderInv, NothingLeft, AfterFlush, Uncaught, AfterClear, Threads
<1>4. FreshIsEmpty' /\ PendingIsLatest'
  BY <1>1 DEF OrderInv, FreshIsEmpty, PendingIsLatest, Value, ValueIn
<1>5. ShownIsSettled'
  <2>1. ~gaveUp /\ ~raised' => shown' = settled'
    <3> SUFFICES ASSUME ~gaveUp, ~raised' PROVE shown' = settled'
      OBVIOUS
    <3>1. \A l \in Leaves : shown'[l] = settled'[l]
      BY EmitValues
    <3>2. DOMAIN shown' = Leaves /\ DOMAIN settled' = Leaves
      BY DEF FlushEmit, Settle, LoopInv, SendLoopTypeOK
    <3>3. shown' = [l \in Leaves |-> shown'[l]] /\ settled' = [l \in Leaves |-> settled'[l]]
      BY <3>2 DEF FlushEmit, Settle, LoopInv, SendLoopTypeOK
    <3> QED
      BY <3>1, <3>3
  <2> QED
    BY <1>1, <2>1, EmitValues DEF ShownIsSettled
<1>6. PayloadsInOrder'
  <2>1. \A u \in Threads : pc'[u] \in InFlush => u # t /\ pc[u] \in InFlush
    BY <1>1 DEF AfterFlush, Uncaught, InFlush
  <2>2. ~gaveUp => \A u \in Threads : pc'[u] \notin InFlush
    BY <1>1, <2>1, AloneInFlush DEF InFlush
  <2> QED
    BY <1>1, <2>2 DEF PayloadsInOrder
<1> QED
  BY <1>2, <1>3, <1>4, <1>5, <1>6 DEF OrderInv

LEMMA OrderSender ==
    ASSUME LoopInv, OrderInv, Sender
    PROVE  OrderInv'
BY OrderSenderMoves, OrderCopy, OrderClear, OrderEmit DEF Sender, Flush, Threads, LoopInv

LEMMA OrderFlush ==
    ASSUME LoopInv, OrderInv, NEW t \in Threads, Flush(t)
    PROVE  OrderInv'
BY OrderCopy, OrderClear, OrderEmit DEF Flush

LEMMA OrderMerge ==
    ASSUME LoopInv, OrderInv, NEW fs \in SUBSET Leaves, patches < MaxPatches, LockedMerge(fs),
           NEW from, NEW to, <<from, to>> \in {<<"merge", "test">>, <<"last", "flush">>},
           Goto("main", from, to), UNCHANGED <<snap, historyVars>>
    PROVE  OrderInv'
<1>1. /\ pc["main"] = from /\ pc'["main"] = to /\ pc'["sender"] = pc["sender"]
      /\ PendingTypeOK /\ MergePatch(fs) /\ lock = Free
  BY DEF LoopInv, SendLoopTypeOK, Goto, Threads, LockedMerge
<1>2. JoinedInOrder'
  BY <1>1 DEF OrderInv, JoinedInOrder, SenderOver, BeforeJoin, AfterJoin, historyVars
<1>3. NothingLeft'
  BY <1>1 DEF NothingLeft, AfterClear
<1>4. FreshIsEmpty' /\ PendingIsLatest'
  BY <1>1, MergeFresh, MergeIsLatest DEF OrderInv
<1>5. ShownIsSettled'
  BY DEF OrderInv, ShownIsSettled, historyVars
<1>6. PayloadsInOrder'
  <2> SUFFICES ASSUME ~gaveUp, NEW u \in Threads, pc'[u] \in InFlush, NEW l \in Leaves
               PROVE  Value(snap[u], l)' = 0 \/ Value(snap[u], l)' >= settled[l]
    BY DEF PayloadsInOrder, historyVars
  <2>1. pc[u] = pc'[u]
    BY <1>1 DEF Threads, InFlush
  <2>2. pc[u] = "emit"
    BY <1>1, <2>1 DEF LoopInv, LockHeldToClear, InFlush, Free, Threads
  <2>3. Value(snap[u], l)' = Value(snap[u], l)
    BY <2>2, MergeKeepsValues DEF Value
  <2> QED
    BY <2>1, <2>3 DEF OrderInv, PayloadsInOrder
<1> QED
  BY <1>2, <1>3, <1>4, <1>5, <1>6 DEF OrderInv

\* A run that returns, with join() in time, has handed everything over.
LEMMA OrderDrains ==
    ASSUME LoopInv, OrderInv
    PROVE  DrainedAtClose
<1> SUFFICES ASSUME pc["main"] = "done", ~gaveUp
             PROVE  settled = latest /\ (~raised => shown = latest)
  BY DEF DrainedAtClose
<1>1. pending = Empty /\ SenderOver
  BY DEF OrderInv, NothingLeft, JoinedInOrder, AfterClear, AfterJoin
<1>2. ASSUME NEW l \in Leaves PROVE settled[l] = latest[l]
  <2>1. Value(pending, l) = 0
    BY <1>1, EmptyHasNothing DEF Value
  <2>2. latest[l] # 0 => settled[l] = latest[l]
    BY <1>1, <2>1 DEF LoopInv, LatestIsAccountedFor, SenderOver, Threads
  <2>3. settled[l] \in Nat /\ latest[l] \in Nat /\ settled[l] <= latest[l]
    BY MaxPatchesAssumption DEF LoopInv, SendLoopTypeOK, PendingTypeOK, NothingNewerThanLatest
  <2> QED
    BY <2>2, <2>3
<1>3. settled = latest
  BY <1>2 DEF LoopInv, SendLoopTypeOK, PendingTypeOK
<1> QED
  BY <1>3 DEF OrderInv, ShownIsSettled
\* What _flush shows LIVI was merged, and is not older than what it showed before
\* unless join() gave up.
LEMMA FlushFeeds ==
    ASSUME LoopInv, OrderInv, NEW t \in Threads, Flush(t)
    PROVE  /\ UNCHANGED <<latest, gaveUp>>
           /\ \A l \in Leaves : shown'[l] <= latest[l] /\ (~gaveUp => shown'[l] >= shown[l])
<1>1. UNCHANGED <<latest, gaveUp>>
  BY DEF Flush, FlushCopy, FlushClear, FlushEmit, bufferVars, historyVars
<1>2. ASSUME NEW l \in Leaves
      PROVE  /\ shown[l] <= settled[l] /\ settled[l] <= latest[l]
             /\ shown[l] \in Nat /\ settled[l] \in Nat /\ latest[l] \in Nat
  BY MaxPatchesAssumption DEF LoopInv, SendLoopTypeOK, PendingTypeOK, NothingNewerThanLatest,
     OrderInv, ShownIsSettled
<1>3. CASE UNCHANGED shown
  BY <1>1, <1>2, <1>3
<1>4. CASE FlushEmit(t)
  <2>1. ASSUME NEW l \in Leaves
        PROVE  shown'[l] <= latest[l] /\ (~gaveUp => shown'[l] >= shown[l])
    BY <1>2, <1>4, EmitValues
  <2> QED
    BY <1>1, <2>1
<1> QED
  BY <1>3, <1>4 DEF Flush, FlushCopy, FlushClear, historyVars
==============================================================================
