--------------------------- MODULE UdpBridgeProofs ---------------------------
(***************************************************************************)
(* Proofs about UdpBridge, for any telemetry fields and any number of      *)
(* datagrams.  The steps shared with the usbmon bridge are in              *)
(* SendLoopProofs.                                                         *)
(***************************************************************************)
EXTENDS UdpBridge, SendLoopProofs

\* The main thread alone merges, there is room for the patch it holds, and the
\* sender does not exist before it is started.
BridgeInv ==
    /\ LoopInv
    /\ held \in SUBSET Leaves
    /\ pc["main"] = "merge" => patches < MaxPatches
    /\ pc["main"] \in {"connect", "bind"} => pc["sender"] = "unborn"

LEMMA BridgeInitially == Init => BridgeInv
<1> SUFFICES ASSUME Init PROVE BridgeInv
  OBVIOUS
<1>1. LoopInv
  BY LoopInitially DEF Init, Locations, InFlush
<1> QED
  BY <1>1 DEF Init, SendLoopInit, PendingInit, BridgeInv, NoPatch, Threads

\* A step of one thread, with room for the patch still being there.
LEMMA MainLeaves ==
    ASSUME BridgeInv, NEW from, NEW to, Goto("main", from, to)
    PROVE  pc'["main"] = to /\ pc'["sender"] = pc["sender"] /\ pc["main"] = from
BY DEF BridgeInv, LoopInv, SendLoopTypeOK, PendingTypeOK, Goto, Threads

LEMMA SenderLeaves ==
    ASSUME BridgeInv, NEW from, NEW to, Goto("sender", from, to)
    PROVE  pc'["sender"] = to /\ pc'["main"] = pc["main"] /\ pc["sender"] = from
BY DEF BridgeInv, LoopInv, SendLoopTypeOK, PendingTypeOK, Goto, Threads

LEMMA BridgeStep == BridgeInv /\ [Next]_vars => BridgeInv'
<1> SUFFICES ASSUME BridgeInv, [Next]_vars PROVE BridgeInv'
  OBVIOUS
<1> USE DEF InFlush, Locations, Threads
<1>1. CASE Connect
  <2>1. LoopInv'
    BY <1>1, ConnectEmitterStep DEF Connect, BridgeInv
  <2> QED
    BY <1>1, <2>1, MainLeaves DEF Connect, ConnectEmitter, BridgeInv
<1>2. CASE BindFails
  <2>1. LoopInv'
    BY <1>2, PlainMove DEF BindFails, BridgeInv
  <2> QED
    BY <1>2, <2>1, MainLeaves DEF BindFails, BridgeInv
<1>3. CASE BindAndStart
  <2>1. LoopInv'
    BY <1>3, StartSenderStep DEF BindAndStart, StartSender, BridgeInv
  <2>2. pc'["main"] = "test"
    BY <1>3 DEF BindAndStart, StartSender, BridgeInv, LoopInv, SendLoopTypeOK, PendingTypeOK
  <2> QED
    BY <1>3, <2>1, <2>2 DEF BindAndStart, BridgeInv
<1>4. CASE LoopTest
  <2>1. LoopInv'
    BY <1>4, PlainMove DEF LoopTest, BridgeInv
  <2> QED
    BY <1>4, <2>1, MainLeaves DEF LoopTest, BridgeInv
<1>5. CASE RecvNothing
  <2>1. LoopInv'
    BY <1>5, PlainMove DEF RecvNothing, BridgeInv
  <2> QED
    BY <1>5, <2>1, MainLeaves DEF RecvNothing, BridgeInv
<1>6. ASSUME NEW l \in Leaves, RecvPacket(l)
      PROVE  BridgeInv'
  <2>1. LoopInv'
    BY <1>6, PlainMove DEF RecvPacket, BridgeInv
  <2>2. pc'["main"] = "merge" /\ patches' = patches
    BY <1>6, MainLeaves DEF RecvPacket, bufferVars
  <2> QED
    BY <1>6, <2>1, <2>2 DEF RecvPacket, BridgeInv
<1>7. CASE MergeHeld
  <2>1. MovesOutsideFlush /\ pc' \in [Threads -> Locations]
    BY <1>7, MoveOutside DEF MergeHeld, BridgeInv, LoopInv
  <2>2. pc'["main"] = "test" /\ pc["main"] = "merge"
    BY <1>7, MainLeaves DEF MergeHeld
  <2>3. LoopInv'
    BY <1>7, <2>1, <2>2, MergeStep DEF MergeHeld, BridgeInv
  <2> QED
    BY <1>7, <2>2, <2>3 DEF MergeHeld, BridgeInv, NoPatch
<1>8. CASE Join
  <2>1. LoopInv'
    BY <1>8, JoinSenderStep DEF Join, BridgeInv
  <2> QED
    BY <1>8, <2>1, MainLeaves DEF Join, JoinSender, BridgeInv
<1>9. CASE FinalFlush
  <2>1. LoopInv'
    BY <1>9, FlushCopyStep, FlushClearStep, FlushEmitStep DEF FinalFlush, Flush, BridgeInv
  <2>2. pc'["main"] \in {"clear", "emit", "close", "failed"}
    BY <1>9, MainLeaves DEF FinalFlush, Flush, FlushCopy, FlushClear, FlushEmit, AfterFlush, Uncaught
  <2> QED
    BY <1>9, <2>1, <2>2 DEF FinalFlush, BridgeInv
<1>10. CASE Close
  <2>1. LoopInv'
    BY <1>10, CloseEmitterStep DEF Close, BridgeInv
  <2> QED
    BY <1>10, <2>1, MainLeaves DEF Close, CloseEmitter, BridgeInv
<1>11. CASE Exit
  <2>1. LoopInv'
    BY <1>11, ProcessExitStep DEF Exit, BridgeInv
  <2> QED
    BY <1>11, <2>1 DEF Exit, ProcessExit, BridgeInv, threadVars, bufferVars
<1>12. CASE SendThread
  <2>1. LoopInv'
    BY <1>12, SenderStep DEF SendThread, BridgeInv
  <2>2. /\ pc'["main"] = pc["main"] /\ pc["sender"] # "unborn"
        /\ patches' = patches
    BY <1>12, SenderLeaves DEF SendThread, Sender, SendLoopTest, SendLoopWake,
       Flush, FlushCopy, FlushClear, FlushEmit, bufferVars
  <2> QED
    BY <1>12, <2>1, <2>2 DEF SendThread, BridgeInv
<1>13. CASE Outside
  <2>1. LoopInv'
    BY <1>13, EnvironmentStep DEF Outside, BridgeInv
  <2>2. UNCHANGED <<pc, patches>>
    BY <1>13 DEF Outside, Environment, Signal, LinkDown, LinkUp, threadVars, bufferVars
  <2> QED
    BY <1>13, <2>1, <2>2 DEF Outside, BridgeInv
<1>14. CASE UNCHANGED vars
  <2>1. UNCHANGED <<pc, patches, held, lock, snap, bufferVars, settled>>
    BY <1>14 DEF vars, sendLoopVars, threadVars, bufferVars, historyVars
  <2>2. SendLoopTypeOK'
    BY <1>14 DEF vars, sendLoopVars, threadVars, bufferVars, emitterVars, historyVars,
       BridgeInv, LoopInv, SendLoopTypeOK, PendingTypeOK
  <2>3. LoopInv'
    BY <2>1, <2>2, QuietStep DEF MovesOutsideFlush, BridgeInv
  <2> QED
    BY <2>1, <2>3 DEF BridgeInv
<1> QED
  BY <1>1, <1>2, <1>3, <1>4, <1>5, <1>6, <1>7, <1>8, <1>9, <1>10, <1>11, <1>12, <1>13, <1>14
     DEF Next, Main, Gone

LEMMA BridgeInvariant == Spec => []BridgeInv
BY BridgeInitially, BridgeStep, PTL DEF Spec

\* Every variable of the bridge keeps its type.
THEOREM UdpTypeCorrect == Spec => []TypeOK
<1>1. BridgeInv => TypeOK
  BY DEF BridgeInv, LoopInv, TypeOK
<1> QED
  BY BridgeInvariant, <1>1, PTL

\* No merged value is dropped on its way to the emitter, however the two
\* threads that call _flush interleave with the merges.
THEOREM UdpNoLostUpdate == Spec => []NoLostUpdate
<1>1. BridgeInv => NoLostUpdate
  BY DEF BridgeInv, LoopInv, NoLostUpdate
<1> QED
  BY BridgeInvariant, <1>1, PTL

\* What _flush copied keeps its values until it is emitted, although the copy
\* shares its nested dictionaries with the pending telemetry it was made from.
THEOREM UdpPayloadFrozen == Spec => PayloadFrozen
<1>1. BridgeInv /\ [Next]_vars => [PayloadKept]_vars
  <2> SUFFICES ASSUME BridgeInv, Next PROVE PayloadKept
    BY DEF Next
  <2>1. CASE MergeHeld
    <3>1. ASSUME NEW t \in Threads, pc[t] = "emit", NEW l \in Leaves
          PROVE  ValueIn(snap'[t], dicts', l) = Value(snap[t], l)
      BY <2>1, <3>1, MergeKeepsValues DEF MergeHeld, BridgeInv
    <3> QED
      BY <3>1 DEF PayloadKept
  <2>2. CASE ~MergeHeld
    <3>1. UNCHANGED dicts
      BY <2>2 DEF Next, Main, Connect, ConnectEmitter, BindFails, BindAndStart, LoopTest,
         RecvNothing, RecvPacket, Join, JoinSender, FinalFlush, Flush, FlushCopy, FlushClear,
         FlushEmit, Close, CloseEmitter, Exit, ProcessExit, SendThread, Sender, SendLoopTest,
         SendLoopWake, Outside, Environment, Signal, LinkDown, LinkUp, Gone, bufferVars,
         vars, sendLoopVars
    <3>2. ASSUME NEW t \in Threads, pc[t] = "emit", pc'[t] = "emit"
          PROVE  snap'[t] = snap[t]
      <4>1. CASE FinalFlush \/ (SendThread /\ Flush("sender"))
        BY <3>2, <4>1, FlushKeepsOtherPayloads DEF FinalFlush, BridgeInv, Threads
      <4>2. CASE ~(FinalFlush \/ (SendThread /\ Flush("sender")))
        BY <2>2, <4>2 DEF Next, Main, Connect, ConnectEmitter, BindFails, BindAndStart,
           LoopTest, RecvNothing, RecvPacket, Join, JoinSender, Close, CloseEmitter, Exit,
           ProcessExit, SendThread, Sender, SendLoopTest, SendLoopWake, Outside, Environment,
           Signal, LinkDown, LinkUp, Gone, threadVars, vars, sendLoopVars
      <4> QED
        BY <4>1, <4>2
    <3> QED
      BY <3>1, <3>2, PayloadKeptWithoutMerge
  <2> QED
    BY <2>1, <2>2
<1> QED
  BY BridgeInvariant, <1>1, PTL DEF PayloadFrozen, Spec
------------------------------------------------------------------------------
(* The order of what is shown *)

LEMMA OrderHolds == Spec => []OrderInv
<1>1. Init => OrderInv
  BY OrderInitially DEF Init, BeforeJoin
<1>2. BridgeInv /\ OrderInv /\ [Next]_vars => OrderInv'
  <2> SUFFICES ASSUME BridgeInv, OrderInv, [Next]_vars PROVE OrderInv'
    OBVIOUS
  <2> USE DEF BeforeJoin, AfterJoin, AfterClear, Locations, InFlush
  <2>1. LoopInv /\ SendLoopTypeOK
    BY DEF BridgeInv, LoopInv
  <2>2. CASE Connect
    BY <2>1, <2>2, OrderConnect DEF Connect
  <2>3. CASE BindAndStart
    BY <2>1, <2>3, OrderStart DEF BindAndStart, StartSender, BridgeInv
  <2>4. CASE BindFails \/ LoopTest \/ RecvNothing \/ \E l \in Leaves : RecvPacket(l)
    <3>1. PICK from \in {"bind", "test", "recv"}, to \in {"failed", "join", "recv", "test", "merge"} :
            Goto("main", from, to)
      BY <2>4 DEF BindFails, LoopTest, RecvNothing, RecvPacket
    <3>2. UNCHANGED <<snap, bufferVars, historyVars>>
      BY <2>4 DEF BindFails, LoopTest, RecvNothing, RecvPacket
    <3> QED
      BY <2>1, <3>1, <3>2, OrderMain
  <2>5. CASE MergeHeld
    <3>1. Goto("main", "merge", "test") /\ held \in SUBSET Leaves /\ patches < MaxPatches
      BY <2>5 DEF MergeHeld, BridgeInv, Goto
    <3> QED
      BY <2>1, <2>5, <3>1, OrderMerge DEF MergeHeld
  <2>6. CASE Join
    BY <2>1, <2>6, OrderJoin DEF Join
  <2>7. CASE FinalFlush
    BY <2>1, <2>7, OrderFlush DEF FinalFlush, Threads
  <2>8. CASE Close
    BY <2>1, <2>8, OrderClose DEF Close
  <2>9. CASE SendThread
    BY <2>1, <2>9, OrderSender DEF SendThread
  <2>10. CASE Exit \/ Outside \/ UNCHANGED vars
    <3>1. UNCHANGED <<threadVars, bufferVars, historyVars>>
      BY <2>10 DEF Exit, ProcessExit, Outside, Environment, Signal, LinkDown, LinkUp, vars, sendLoopVars
    <3> QED
      BY <2>1, <3>1, OrderStill
  <2> QED
    BY <2>2, <2>3, <2>4, <2>5, <2>6, <2>7, <2>8, <2>9, <2>10 DEF Next, Main, Gone
<1> QED
  BY <1>1, <1>2, BridgeInvariant, PTL DEF Spec

\* A run() that returns, with join() in time, has handed everything merged to
\* the emitter, and LIVI was given it unless an emit() raised.
THEOREM UdpShutdownLosesNothing == Spec => []ShutdownLosesNothing
<1>1. BridgeInv /\ OrderInv => ShutdownLosesNothing
  BY OrderDrains DEF BridgeInv, ShutdownLosesNothing
<1> QED
  BY BridgeInvariant, OrderHolds, <1>1, PTL

\* Only run() closes the emitter, as its last step.
ClosedWhenDone == emitter = "closed" => pc["main"] = "done"

LEMMA ClosedAtTheEnd == Spec => []ClosedWhenDone
<1>1. Init => ClosedWhenDone
  BY DEF Init, SendLoopInit, ClosedWhenDone
<1>2. BridgeInv /\ ClosedWhenDone /\ [Next]_vars => ClosedWhenDone'
  <2> SUFFICES ASSUME BridgeInv, ClosedWhenDone, [Next]_vars PROVE ClosedWhenDone'
    OBVIOUS
  <2>1. CASE Close
    BY <2>1, MainLeaves DEF Close, CloseEmitter, ClosedWhenDone
  <2>2. CASE Connect
    BY <2>2, MainLeaves DEF Connect, ConnectEmitter, ClosedWhenDone
  <2>3. CASE SendThread
    BY <2>3, SenderLeaves DEF SendThread, Sender, SendLoopTest, SendLoopWake, Flush,
       FlushCopy, FlushClear, FlushEmit, emitterVars, ClosedWhenDone
  <2>4. CASE BindFails \/ LoopTest \/ RecvNothing \/ (\E l \in Leaves : RecvPacket(l)) \/ MergeHeld
             \/ Join \/ FinalFlush
    <3>1. PICK from \in Locations \ {"done"}, to \in Locations : Goto("main", from, to)
      BY <2>4 DEF BindFails, LoopTest, RecvNothing, RecvPacket, MergeHeld, Join, JoinSender,
         FinalFlush, Flush, FlushCopy, FlushClear, FlushEmit, AfterFlush, Uncaught, Locations
    <3>2. emitter' = emitter
      BY <2>4 DEF BindFails, LoopTest, RecvNothing, RecvPacket, MergeHeld, Join, JoinSender,
         FinalFlush, Flush, FlushCopy, FlushClear, FlushEmit, emitterVars
    <3> QED
      BY <3>1, <3>2, MainLeaves DEF ClosedWhenDone
  <2>5. CASE BindAndStart
    BY <2>5 DEF BindAndStart, StartSender, emitterVars, ClosedWhenDone
  <2>6. CASE Exit \/ Outside \/ UNCHANGED vars
    BY <2>6 DEF Exit, ProcessExit, Outside, Environment, Signal, LinkDown, LinkUp, vars,
       sendLoopVars, threadVars, emitterVars, ClosedWhenDone
  <2> QED
    BY <2>1, <2>2, <2>3, <2>4, <2>5, <2>6 DEF Next, Main, Gone
<1> QED
  BY <1>1, <1>2, BridgeInvariant, PTL DEF Spec

\* Nothing reaches LIVI once run() has closed the emitter, unless join() gave up
\* waiting for a sender that may still be inside _flush.
THEOREM UdpClosedIsSilent == Spec => ClosedIsSilent
<1>1. BridgeInv /\ OrderInv /\ ClosedWhenDone /\ [Next]_vars =>
        [emitter = "closed" => gaveUp \/ UNCHANGED shown]_vars
  <2> SUFFICES ASSUME BridgeInv, OrderInv, ClosedWhenDone, Next, emitter = "closed", ~gaveUp
               PROVE  UNCHANGED shown
    BY DEF Next
  <2>1. pc["main"] = "done" /\ pc["sender"] \in {"exited", "crashed"}
    BY DEF ClosedWhenDone, OrderInv, JoinedInOrder, AfterJoin, SenderOver
  <2>2. ASSUME NEW t \in Threads PROVE ~FlushEmit(t)
    BY <2>1 DEF FlushEmit, Goto, Threads
  <2> QED
    BY <2>2 DEF Next, Main, Connect, ConnectEmitter, BindFails, BindAndStart, LoopTest,
       RecvNothing, RecvPacket, MergeHeld, Join, JoinSender, FinalFlush, Flush, FlushCopy,
       FlushClear, Close, CloseEmitter, Exit, ProcessExit, SendThread, Sender, SendLoopTest,
       SendLoopWake, Outside, Environment, Signal, LinkDown, LinkUp, Gone, historyVars,
       vars, sendLoopVars, Threads
<1> QED
  BY <1>1, BridgeInvariant, OrderHolds, ClosedAtTheEnd, PTL DEF Spec, ClosedIsSilent

\* The bridge implements the telemetry feed: its two threads never show LIVI an
\* older value after a newer one, unless join() gave up.
THEOREM UdpImplementsFeed == Spec => FeedSpec
<1> USE DEF Feed!feedVars
<1>1. Init => Feed!FeedInit
  BY DEF Init, SendLoopInit, PendingInit, Feed!FeedInit
<1>2. BridgeInv /\ OrderInv /\ [Next]_vars => [Feed!FeedNext]_(Feed!feedVars)
  <2> SUFFICES ASSUME BridgeInv, OrderInv, [Next]_vars
               PROVE  [Feed!FeedNext]_(Feed!feedVars)
    OBVIOUS
  <2>1. LoopInv /\ SendLoopTypeOK /\ PendingTypeOK
    BY DEF BridgeInv, LoopInv, SendLoopTypeOK
  <2>2. CASE MergeHeld
    <3>1. held \in SUBSET Leaves /\ patches < MaxPatches /\ MergePatch(held)
      BY <2>2 DEF MergeHeld, LockedMerge, BridgeInv, Goto
    <3>2. \A l \in Leaves : latest[l] <= latest'[l] /\ latest[l] \in Nat /\ latest'[l] \in Nat
      BY <2>1, <3>1, MergeTypes, MaxPatchesAssumption DEF PendingTypeOK
    <3>3. \A l \in Leaves : latest'[l] >= latest[l]
      BY <3>2
    <3> QED
      BY <2>2, <3>3 DEF MergeHeld, historyVars, Feed!FeedNext, Feed!Accept
  <2>3. CASE FinalFlush \/ (SendThread /\ Flush("sender"))
    <3>1. PICK t \in Threads : Flush(t)
      BY <2>3 DEF FinalFlush, Threads
    <3> QED
      BY <2>1, <3>1, FlushFeeds DEF Feed!FeedNext, Feed!Publish
  <2>4. CASE Join
    BY <2>1, <2>4, OrderJoin DEF Join, JoinSender, bufferVars, Feed!FeedNext, Feed!GiveUp
  <2>5. CASE ~(MergeHeld \/ FinalFlush \/ (SendThread /\ Flush("sender")) \/ Join)
    <3>1. UNCHANGED <<latest, shown, gaveUp>>
      BY <2>5 DEF Next, Main, Connect, ConnectEmitter, BindFails, BindAndStart, LoopTest,
         RecvNothing, RecvPacket, Close, CloseEmitter, Exit, ProcessExit, SendThread, Sender,
         SendLoopTest, SendLoopWake, Outside, Environment, Signal, LinkDown, LinkUp, Gone,
         bufferVars, historyVars, vars, sendLoopVars
    <3> QED
      BY <3>1
  <2> QED
    BY <2>2, <2>3, <2>4, <2>5
<1> QED
  BY <1>1, <1>2, BridgeInvariant, OrderHolds, PTL DEF Spec, FeedSpec, Feed!FeedSpec
==============================================================================
