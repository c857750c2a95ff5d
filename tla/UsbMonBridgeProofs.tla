-------------------------- MODULE UsbMonBridgeProofs --------------------------
(***************************************************************************)
(* Proofs about UsbMonBridge, for any frame layout and any number of       *)
(* frames, from the steps proved in SendLoopProofs.                        *)
(***************************************************************************)
EXTENDS UsbMonBridge, SendLoopProofs

\* The main thread alone merges, there is room for the frame it holds, and the
\* sender does not exist before it is started.
MonitorInv ==
    /\ LoopInv
    /\ held \in {NoFrame, FrameLeaves}
    /\ decoder \in {"ts", "fixed"}
    /\ segment \in BOOLEAN
    /\ pc["main"] \in {"merge", "last"} => patches < MaxPatches /\ held = FrameLeaves
    /\ pc["main"] \in {"connect", "open"} => pc["sender"] = "unborn"

LEMMA MonitorInitially == Init => MonitorInv
<1> SUFFICES ASSUME Init PROVE MonitorInv
  OBVIOUS
<1>1. LoopInv
  BY LoopInitially DEF Init, Locations, InFlush
<1> QED
  BY <1>1 DEF Init, SendLoopInit, PendingInit, MonitorInv, NoFrame, Threads

LEMMA MainGoes ==
    ASSUME MonitorInv, NEW from, NEW to, Goto("main", from, to)
    PROVE  pc'["main"] = to /\ pc'["sender"] = pc["sender"] /\ pc["main"] = from
BY DEF MonitorInv, LoopInv, SendLoopTypeOK, Goto, Threads

LEMMA SenderGoes ==
    ASSUME MonitorInv, NEW from, NEW to, Goto("sender", from, to)
    PROVE  pc'["sender"] = to /\ pc'["main"] = pc["main"] /\ pc["sender"] = from
BY DEF MonitorInv, LoopInv, SendLoopTypeOK, Goto, Threads

\* A step of the main thread that changes nothing of the shared part.
LEMMA LonelyStep ==
    ASSUME MonitorInv, NothingShared, NEW from \in Locations \ InFlush,
           NEW to \in Locations \ InFlush, Goto("main", from, to)
    PROVE  /\ LoopInv'
           /\ pc'["main"] = to /\ pc'["sender"] = pc["sender"] /\ pc["main"] = from
           /\ UNCHANGED <<patches, decoder>>
<1>1. UNCHANGED <<lock, snap, bufferVars, emitterVars, historyVars, stop, running, decoder>>
  BY DEF NothingShared
<1>2. LoopInv'
  BY <1>1, PlainMove DEF MonitorInv, Threads
<1> QED
  BY <1>1, <1>2, MainGoes DEF bufferVars

LEMMA MonitorStep == MonitorInv /\ [Next]_vars => MonitorInv'
<1> SUFFICES ASSUME MonitorInv, [Next]_vars PROVE MonitorInv'
  OBVIOUS
<1> USE DEF InFlush, Locations, Threads
<1>1. CASE Connect
  <2>1. LoopInv'
    BY <1>1, ConnectEmitterStep DEF Connect, MonitorInv
  <2> QED
    BY <1>1, <2>1, MainGoes DEF Connect, ConnectEmitter, MonitorInv, readVars
<1>2. CASE OpenFails
  BY <1>2, LonelyStep DEF OpenFails, MonitorInv, readVars
<1>3. CASE OpenAndStart
  <2>1. UNCHANGED <<lock, snap, bufferVars, emitterVars, historyVars, stop, running, decoder>>
    BY <1>3 DEF OpenAndStart, NothingShared
  <2>2. pc["sender"] = "unborn"
    BY <1>3 DEF OpenAndStart, StartSender, MonitorInv
  <2>3. LoopInv'
    BY <1>3, <2>1, <2>2, StartSenderStep DEF OpenAndStart, MonitorInv
  <2>4. pc'["main"] = "test"
    BY <1>3 DEF OpenAndStart, StartSender, MonitorInv, LoopInv, SendLoopTypeOK
  <2> QED
    BY <1>3, <2>1, <2>3, <2>4 DEF OpenAndStart, MonitorInv, readVars
<1>4. CASE LoopTest
  BY <1>4, LonelyStep DEF LoopTest, MonitorInv, readVars
<1>5. CASE ReadNoFrame
  <2>1. /\ LoopInv' /\ pc'["main"] = "test"
        /\ UNCHANGED <<decoder, held>>
    BY <1>5, LonelyStep DEF ReadNoFrame
  <2>2. segment' \in BOOLEAN
    BY <1>5 DEF ReadNoFrame
  <2> QED
    BY <2>1, <2>2 DEF MonitorInv
<1>6. CASE ReadFrame
  BY <1>6, LonelyStep DEF ReadFrame, MonitorInv
<1>7. CASE ReadFails
  BY <1>7, LonelyStep DEF ReadFails, MonitorInv, readVars
<1>8. CASE MergeHeld
  <2>1. PICK from \in {"merge", "last"}, to \in {"test", "flush"} : Goto("main", from, to)
    BY <1>8 DEF MergeHeld
  <2>2. MovesOutsideFlush /\ pc' \in [Threads -> Locations]
    BY <2>1, MoveOutside DEF MonitorInv, LoopInv
  <2>3. pc'["main"] = to /\ pc["main"] = from
    BY <2>1, MainGoes
  <2>4. held \in SUBSET Leaves /\ patches < MaxPatches
    BY <2>3, FrameLeavesAssumption DEF MonitorInv
  <2>5. LoopInv'
    BY <1>8, <2>2, <2>4, MergeStep DEF MergeHeld, MonitorInv
  <2> QED
    BY <1>8, <2>3, <2>5 DEF MergeHeld, MonitorInv
<1>9. CASE Join
  <2>1. LoopInv'
    BY <1>9, JoinSenderStep DEF Join, MonitorInv
  <2> QED
    BY <1>9, <2>1, MainGoes DEF Join, JoinSender, MonitorInv, readVars
<1>10. CASE Drain
  <2>1. PICK to \in {"flush", "last", "failed"} :
          /\ Goto("main", "drain", to)
          /\ to = "last" => patches < MaxPatches /\ held' = FrameLeaves
          /\ to # "last" => held' = NoFrame
    BY <1>10 DEF Drain
  <2>2. NothingShared /\ segment' = FALSE
    BY <1>10 DEF Drain
  <2>3. /\ LoopInv' /\ pc'["main"] = to
        /\ UNCHANGED <<decoder, patches>>
    BY <2>1, <2>2, LonelyStep
  <2> QED
    BY <2>1, <2>2, <2>3 DEF MonitorInv
<1>11. CASE FinalFlush
  <2>1. LoopInv'
    BY <1>11, FlushCopyStep, FlushClearStep, FlushEmitStep DEF FinalFlush, Flush, MonitorInv
  <2>2. pc'["main"] \in {"clear", "emit", "close", "failed"}
    BY <1>11, MainGoes DEF FinalFlush, Flush, FlushCopy, FlushClear, FlushEmit, AfterFlush, Uncaught
  <2> QED
    BY <1>11, <2>1, <2>2 DEF FinalFlush, MonitorInv, readVars
<1>12. CASE Close
  <2>1. LoopInv'
    BY <1>12, CloseEmitterStep DEF Close, MonitorInv
  <2> QED
    BY <1>12, <2>1, MainGoes DEF Close, CloseEmitter, MonitorInv, readVars
<1>13. CASE Exit
  <2>1. LoopInv'
    BY <1>13, ProcessExitStep DEF Exit, MonitorInv
  <2> QED
    BY <1>13, <2>1 DEF Exit, ProcessExit, MonitorInv, threadVars, bufferVars, readVars
<1>14. CASE SendThread
  <2>1. LoopInv'
    BY <1>14, SenderStep DEF SendThread, MonitorInv
  <2>2. /\ pc'["main"] = pc["main"] /\ pc["sender"] # "unborn"
        /\ patches' = patches
    BY <1>14, SenderGoes DEF SendThread, Sender, SendLoopTest, SendLoopWake,
       Flush, FlushCopy, FlushClear, FlushEmit, bufferVars
  <2> QED
    BY <1>14, <2>1, <2>2 DEF SendThread, MonitorInv, readVars
<1>15. CASE Outside
  <2>1. LoopInv'
    BY <1>15, EnvironmentStep DEF Outside, MonitorInv
  <2>2. UNCHANGED <<pc, patches>>
    BY <1>15 DEF Outside, Environment, Signal, LinkDown, LinkUp, threadVars, bufferVars
  <2> QED
    BY <1>15, <2>1, <2>2 DEF Outside, MonitorInv, readVars
<1>16. CASE UNCHANGED vars
  <2>1. /\ UNCHANGED <<pc, patches, held, segment, decoder>>
        /\ UNCHANGED <<lock, snap, bufferVars, settled>>
    BY <1>16 DEF vars, sendLoopVars, threadVars, bufferVars, historyVars, readVars
  <2>2. SendLoopTypeOK'
    BY <1>16 DEF vars, sendLoopVars, threadVars, bufferVars, emitterVars, historyVars,
       MonitorInv, LoopInv, SendLoopTypeOK, PendingTypeOK
  <2>3. LoopInv'
    BY <2>1, <2>2, QuietStep DEF MovesOutsideFlush, MonitorInv
  <2> QED
    BY <2>1, <2>3 DEF MonitorInv
<1> QED
  BY <1>1, <1>2, <1>3, <1>4, <1>5, <1>6, <1>7, <1>8, <1>9, <1>10, <1>11, <1>12, <1>13,
     <1>14, <1>15, <1>16 DEF Next, Read, MainButRead, Gone

LEMMA MonitorInvariant == Spec => []MonitorInv
BY MonitorInitially, MonitorStep, PTL DEF Spec

\* Every variable of the bridge keeps its type.
THEOREM UsbTypeCorrect == Spec => []TypeOK
<1>1. MonitorInv => TypeOK
  BY DEF MonitorInv, LoopInv, TypeOK
<1> QED
  BY MonitorInvariant, <1>1, PTL

\* No merged frame is dropped on its way to the emitter, the one that
\* decoder.flush() returns after the loop included.
THEOREM UsbNoLostUpdate == Spec => []NoLostUpdate
<1>1. MonitorInv => NoLostUpdate
  BY DEF MonitorInv, LoopInv, NoLostUpdate
<1> QED
  BY MonitorInvariant, <1>1, PTL

\* The steps that neither merge nor flush leave telemetry alone.
LEMMA OtherSteps ==
    ASSUME MonitorInv, [Next]_vars,
           ~(MergeHeld \/ FinalFlush \/ (SendThread /\ Flush("sender")))
    PROVE  /\ UNCHANGED <<pending, dicts, snap, shown>>
           /\ \A t \in Threads : pc'[t] \in InFlush => pc[t] = pc'[t]
<1> USE DEF bufferVars, threadVars, historyVars, Threads, InFlush
<1>1. pc \in [Threads -> Locations]
  BY DEF MonitorInv, LoopInv, SendLoopTypeOK
<1>2. CASE Read \/ LoopTest \/ OpenFails \/ Drain
  <2>1. PICK from, to \in Locations \ InFlush : Goto("main", from, to)
    BY <1>2 DEF Read, ReadNoFrame, ReadFrame, ReadFails, LoopTest, OpenFails, Drain, Locations
  <2>2. NothingShared
    BY <1>2 DEF Read, ReadNoFrame, ReadFrame, ReadFails, LoopTest, OpenFails, Drain
  <2> QED
    BY <1>1, <2>1, <2>2 DEF NothingShared, Goto
<1>3. CASE OpenAndStart
  BY <1>1, <1>3 DEF OpenAndStart, StartSender, NothingShared
<1>4. CASE Connect \/ Join \/ Close
  BY <1>1, <1>4 DEF Connect, ConnectEmitter, Join, JoinSender, Close, CloseEmitter, Goto
<1>5. CASE Exit \/ Outside \/ UNCHANGED vars
  BY <1>5 DEF Exit, ProcessExit, Outside, Environment, Signal, LinkDown, LinkUp, vars, sendLoopVars
<1>6. CASE SendThread
  BY <1>1, <1>6 DEF SendThread, Sender, SendLoopTest, SendLoopWake, Goto
<1>7. \/ Read \/ LoopTest \/ OpenFails \/ Drain
      \/ OpenAndStart \/ Connect \/ Join \/ Close
      \/ Exit \/ Outside \/ UNCHANGED vars \/ SendThread
  BY DEF Next, MainButRead, Gone
<1> QED
  BY <1>2, <1>3, <1>4, <1>5, <1>6, <1>7

\* What _flush copied is not changed by the merge of the next frame, although the
\* copy shares its nested dictionaries with the telemetry it was made from.
THEOREM UsbPayloadFrozen == Spec => PayloadFrozen
<1>1. MonitorInv /\ [Next]_vars => [PayloadKept]_vars
  <2> SUFFICES ASSUME MonitorInv, Next PROVE PayloadKept \/ UNCHANGED vars
    OBVIOUS
  <2>1. CASE MergeHeld
    <3>1. held \in SUBSET Leaves
      BY FrameLeavesAssumption DEF MonitorInv, NoFrame
    <3>2. ASSUME NEW t \in Threads, pc[t] = "emit", NEW l \in Leaves
          PROVE  ValueIn(snap'[t], dicts', l) = Value(snap[t], l)
      BY <2>1, <3>1, <3>2, MergeKeepsValues DEF MergeHeld, MonitorInv
    <3> QED
      BY <3>2 DEF PayloadKept
  <2>2. CASE FinalFlush \/ (SendThread /\ Flush("sender"))
    <3>1. PICK u \in Threads : Flush(u)
      BY <2>2 DEF FinalFlush, Threads
    <3>2. UNCHANGED dicts
      BY <3>1 DEF Flush, FlushCopy, FlushClear, FlushEmit, bufferVars
    <3> QED
      BY <3>1, <3>2, FlushKeepsOtherPayloads, PayloadKeptWithoutMerge DEF MonitorInv
  <2>3. CASE ~(MergeHeld \/ FinalFlush \/ (SendThread /\ Flush("sender")))
    BY <2>3, OtherSteps, PayloadKeptWithoutMerge
  <2> QED
    BY <2>1, <2>2, <2>3
<1> QED
  BY MonitorInvariant, <1>1, PTL DEF PayloadFrozen, Spec

------------------------------------------------------------------------------
(* Frames are shown whole *)

\* All fields of the frame layout have the same value in p.
Together(p, d) == \A l1, l2 \in FrameLeaves : ValueIn(p, d, l1) = ValueIn(p, d, l2)

\* The fields of a frame go together wherever they are.
WholeInv ==
    /\ Together(pending, dicts)
    /\ \A t \in Threads : pc[t] \in InFlush => Together(snap[t], dicts)
    /\ FramesStayWhole

LEMMA EmptyTogether == ASSUME NEW d PROVE Together(Empty, d)
<1>1. \A l \in FrameLeaves : ValueIn(Empty, d, l) = 0
  BY LeafCases, FrameLeavesAssumption DEF ValueIn, Empty, Keys
<1> QED
  BY <1>1 DEF Together

LEMMA WholeInitially == Init => WholeInv
BY EmptyTogether, FrameLeavesAssumption
   DEF Init, SendLoopInit, PendingInit, Threads, InFlush, WholeInv, FramesStayWhole

LEMMA WholeMerge ==
    ASSUME MonitorInv, WholeInv, MergeHeld
    PROVE  WholeInv'
<1>1. PICK from \in {"merge", "last"}, to \in {"test", "flush"} : Goto("main", from, to)
  BY DEF MergeHeld
<1>2. /\ held = FrameLeaves /\ held \in SUBSET Leaves /\ patches < MaxPatches
  BY <1>1, FrameLeavesAssumption DEF MonitorInv, Goto
<1>3. LockedMerge(held) /\ UNCHANGED <<lock, snap, shown>> /\ LoopInv
  BY DEF MergeHeld, MonitorInv, historyVars
<1>4. ASSUME NEW l \in FrameLeaves
      PROVE  ValueIn(pending', dicts', l) = patches + 1
  <2>1. latest'[l] = patches + 1
    BY <1>2, <1>3, <1>4 DEF LockedMerge, MergePatch
  <2>2. Value(pending, l)' = latest'[l]
    BY <1>2, <1>3, <1>4, MergeValues DEF LoopInv, SendLoopTypeOK, PendingTypeOK, LockedMerge
  <2> QED
    BY <2>1, <2>2 DEF Value
<1>5. ASSUME NEW t \in Threads, pc'[t] \in InFlush
      PROVE  Together(snap'[t], dicts')
  <2>1. pc[t] = pc'[t]
    BY <1>1, <1>5, MainGoes DEF Threads, InFlush
  <2>2. pc[t] = "emit"
    BY <1>3, <1>5, <2>1 DEF LockedMerge, LoopInv, LockHeldToClear, Free, Threads, InFlush
  <2>3. \A l \in FrameLeaves : ValueIn(snap'[t], dicts', l) = ValueIn(snap[t], dicts, l)
    BY <1>2, <1>3, <2>2, MergeKeepsValues DEF Value
  <2>4. Together(snap[t], dicts)
    BY <2>2 DEF WholeInv, InFlush
  <2> QED
    BY <2>3, <2>4 DEF Together
<1> QED
  BY <1>3, <1>4, <1>5 DEF WholeInv, Together, FramesStayWhole

LEMMA WholeFlush ==
    ASSUME MonitorInv, WholeInv, NEW u \in Threads, Flush(u)
    PROVE  WholeInv'
<1>1. UNCHANGED dicts /\ pc \in [Threads -> Locations] /\ snap \in [Threads -> [Keys -> 0..patches]]
  BY DEF Flush, FlushCopy, FlushClear, FlushEmit, bufferVars, MonitorInv, LoopInv, SendLoopTypeOK
<1>2. CASE FlushCopy(u)
  <2>1. /\ UNCHANGED <<pending, shown>>
        /\ \A t \in Threads : pc'[t] \in InFlush =>
             \/ pc[t] \in InFlush /\ snap'[t] = snap[t]
             \/ snap'[t] = pending
    BY <1>1, <1>2 DEF FlushCopy, Goto, AfterFlush, bufferVars, historyVars, InFlush
  <2> QED
    BY <1>1, <2>1 DEF WholeInv, FramesStayWhole
<1>3. CASE FlushClear(u)
  <2>1. /\ pending' = Empty /\ UNCHANGED <<snap, shown>>
        /\ \A t \in Threads : pc'[t] \in InFlush => pc[t] \in InFlush
    BY <1>1, <1>3 DEF FlushClear, Goto, historyVars, InFlush
  <2> QED
    BY <1>1, <2>1, EmptyTogether DEF WholeInv, FramesStayWhole
<1>4. CASE FlushEmit(u)
  <2>1. /\ UNCHANGED pending
        /\ pc[u] = "emit"
        /\ \A t \in Threads : pc'[t] \in InFlush => pc[t] \in InFlush /\ snap'[t] = snap[t]
    BY <1>1, <1>4 DEF FlushEmit, Goto, AfterFlush, Uncaught, bufferVars, InFlush
  <2>2. FramesStayWhole'
    <3>1. Together(snap[u], dicts)
      BY <2>1 DEF WholeInv, InFlush
    <3>2. CASE UNCHANGED shown
      BY <3>2 DEF WholeInv, FramesStayWhole
    <3>3. CASE shown' = [l \in Leaves |->
                 IF Value(snap[u], l) # 0 THEN Value(snap[u], l) ELSE shown[l]]
      BY <3>1, <3>3, FrameLeavesAssumption DEF WholeInv, FramesStayWhole, Together, Value
    <3> QED
      BY <1>4, <3>2, <3>3 DEF FlushEmit
  <2> QED
    BY <1>1, <2>1, <2>2 DEF WholeInv
<1> QED
  BY <1>2, <1>3, <1>4 DEF Flush

LEMMA WholeStep == MonitorInv /\ WholeInv /\ [Next]_vars => WholeInv'
<1> SUFFICES ASSUME MonitorInv, WholeInv, [Next]_vars PROVE WholeInv'
  OBVIOUS
<1>1. CASE MergeHeld
  BY <1>1, WholeMerge
<1>2. CASE FinalFlush \/ (SendThread /\ Flush("sender"))
  BY <1>2, WholeFlush DEF FinalFlush, Threads
<1>3. CASE ~(MergeHeld \/ FinalFlush \/ (SendThread /\ Flush("sender")))
  BY <1>3, OtherSteps DEF WholeInv, FramesStayWhole
<1> QED
  BY <1>1, <1>2, <1>3

\* LIVI never sees fields of two frames at once: a merge and the copy of the
\* pending telemetry exclude each other, for every frame layout.
THEOREM UsbFramesStayWhole == Spec => []FramesStayWhole
<1>1. WholeInv => FramesStayWhole
  BY DEF WholeInv, FramesStayWhole
<1> QED
  BY MonitorInvariant, WholeInitially, WholeStep, <1>1, PTL DEF Spec
------------------------------------------------------------------------------
(* The order of what is shown *)

LEMMA OrderHolds == Spec => []OrderInv
<1>1. Init => OrderInv
  BY OrderInitially DEF Init, BeforeJoin
<1>2. MonitorInv /\ OrderInv /\ [Next]_vars => OrderInv'
  <2> SUFFICES ASSUME MonitorInv, OrderInv, [Next]_vars PROVE OrderInv'
    OBVIOUS
  <2> USE DEF BeforeJoin, AfterJoin, AfterClear, Locations, InFlush
  <2>1. LoopInv /\ SendLoopTypeOK
    BY DEF MonitorInv, LoopInv
  <2>2. CASE Connect
    BY <2>1, <2>2, OrderConnect DEF Connect
  <2>3. CASE OpenAndStart
    BY <2>1, <2>3, OrderStart DEF OpenAndStart, StartSender, MonitorInv, NothingShared
  <2>4. CASE Read \/ LoopTest \/ OpenFails \/ Drain
    <3>1. UNCHANGED <<snap, bufferVars, historyVars>>
      BY <2>4 DEF Read, ReadNoFrame, ReadFrame, ReadFails, LoopTest, OpenFails, Drain, NothingShared
    <3>2. CASE Read \/ LoopTest \/ OpenFails
      <4>1. PICK from \in {"read", "test", "open"}, to \in {"test", "merge", "failed", "join", "read"} :
              Goto("main", from, to)
        BY <3>2 DEF Read, ReadNoFrame, ReadFrame, ReadFails, LoopTest, OpenFails
      <4> QED
        BY <2>1, <3>1, <4>1, OrderMain
    <3>3. CASE Drain
      <4>1. PICK to \in {"flush", "last", "failed"} : Goto("main", "drain", to)
        BY <3>3 DEF Drain
      <4> QED
        BY <2>1, <3>1, <4>1, OrderMain
    <3> QED
      BY <2>4, <3>2, <3>3
  <2>5. CASE MergeHeld
    <3>1. PICK from, to : /\ <<from, to>> \in {<<"merge", "test">>, <<"last", "flush">>}
                          /\ Goto("main", from, to)
      BY <2>5 DEF MergeHeld
    <3>2. held \in SUBSET Leaves /\ patches < MaxPatches
      BY <3>1, FrameLeavesAssumption DEF MonitorInv, Goto
    <3> QED
      BY <2>1, <2>5, <3>1, <3>2, OrderMerge DEF MergeHeld
  <2>6. CASE Join
    BY <2>1, <2>6, OrderJoin DEF Join
  <2>7. CASE FinalFlush
    BY <2>1, <2>7, OrderFlush DEF FinalFlush, Threads
  <2>8. CASE Close
    BY <2>1, <2>8, OrderClose DEF Close
  <2>9. CASE SendThread
    BY <2>1, <2>9, OrderSender DEF SendThread
  <2>10. CASE Exit \/ Outside \/ UNCHANGED vars
    <3>1. UNCHANGED <<threadVars, bufferVars, historyVars>>
      BY <2>10 DEF Exit, ProcessExit, Outside, Environment, Signal, LinkDown, LinkUp, vars, sendLoopVars
    <3> QED
      BY <2>1, <3>1, OrderStill
  <2> QED
    BY <2>2, <2>3, <2>4, <2>5, <2>6, <2>7, <2>8, <2>9, <2>10 DEF Next, MainButRead, Gone
<1> QED
  BY <1>1, <1>2, MonitorInvariant, PTL DEF Spec

\* The decoder holds nothing once the main thread has flushed it.
Drained == pc["main"] \in {"last", "flush", "clear", "emit", "close", "done"} => ~segment

LEMMA DrainedHolds == Spec => []Drained
<1>1. Init => Drained
  BY DEF Init, Drained
<1>2. MonitorInv /\ Drained /\ [Next]_vars => Drained'
  <2> SUFFICES ASSUME MonitorInv, Drained, [Next]_vars PROVE Drained'
    OBVIOUS
  <2> USE DEF Drained
  <2>1. pc \in [Threads -> Locations]
    BY DEF MonitorInv, LoopInv, SendLoopTypeOK
  <2>2. CASE Read
    <3>1. pc'["main"] \in {"test", "merge", "failed"}
      BY <2>2, MainGoes DEF Read, ReadNoFrame, ReadFrame, ReadFails
    <3> QED
      BY <3>1
  <2>3. CASE Drain
    BY <2>3 DEF Drain
  <2>4. CASE OpenAndStart
    BY <2>1, <2>4 DEF OpenAndStart, StartSender, Threads
  <2>5. CASE Connect \/ OpenFails \/ LoopTest \/ Join
    <3>1. pc'["main"] \in {"open", "failed", "join", "read", "drain"}
      BY <2>5, MainGoes DEF Connect, ConnectEmitter, OpenFails, LoopTest, Join, JoinSender
    <3> QED
      BY <3>1
  <2>6. CASE MergeHeld \/ FinalFlush \/ Close
    <3>1. PICK from \in {"merge", "last", "flush", "clear", "emit", "close"},
               to \in {"test", "flush", "clear", "emit", "close", "failed", "done"} :
            Goto("main", from, to) /\ (from = "merge" => to = "test")
      BY <2>6 DEF MergeHeld, FinalFlush, Flush, FlushCopy, FlushClear, FlushEmit, AfterFlush,
                  Uncaught, Close, CloseEmitter
    <3>2. UNCHANGED segment
      BY <2>6 DEF MergeHeld, FinalFlush, Close, readVars
    <3> QED
      BY <3>1, <3>2, MainGoes
  <2>7. CASE SendThread
    <3>1. PICK from, to : Goto("sender", from, to)
      BY <2>7 DEF SendThread, Sender, SendLoopTest, SendLoopWake, Flush, FlushCopy, FlushClear, FlushEmit
    <3> QED
      BY <2>7, <3>1, SenderGoes DEF SendThread, readVars
  <2>8. CASE Exit \/ Outside \/ UNCHANGED vars
    BY <2>8 DEF Exit, ProcessExit, Outside, Environment, Signal, LinkDown, LinkUp, vars,
                sendLoopVars, threadVars, readVars
  <2> QED
    BY <2>2, <2>3, <2>4, <2>5, <2>6, <2>7, <2>8 DEF Next, MainButRead, Gone
<1> QED
  BY <1>1, <1>2, MonitorInvariant, PTL DEF Spec

\* A run() that returns, with join() in time, has handed over every frame it
\* merged and has left no captured data in the decoder.
THEOREM UsbShutdownLosesNothing == Spec => []ShutdownLosesNothing
<1>1. MonitorInv /\ OrderInv /\ Drained => ShutdownLosesNothing
  BY OrderDrains DEF MonitorInv, Drained, ShutdownLosesNothing
<1> QED
  BY MonitorInvariant, OrderHolds, DrainedHolds, <1>1, PTL

\* The bridge implements the telemetry feed.
THEOREM UsbImplementsFeed == Spec => FeedSpec
<1> USE DEF Feed!feedVars
<1>1. Init => Feed!FeedInit
  BY DEF Init, SendLoopInit, PendingInit, Feed!FeedInit
<1>2. MonitorInv /\ OrderInv /\ [Next]_vars => [Feed!FeedNext]_(Feed!feedVars)
  <2> SUFFICES ASSUME MonitorInv, OrderInv, [Next]_vars
               PROVE  [Feed!FeedNext]_(Feed!feedVars)
    OBVIOUS
  <2>1. LoopInv /\ SendLoopTypeOK /\ PendingTypeOK
    BY DEF MonitorInv, LoopInv, SendLoopTypeOK
  <2>2. CASE MergeHeld
    <3>1. held \in SUBSET Leaves /\ patches < MaxPatches /\ MergePatch(held)
      BY <2>2, FrameLeavesAssumption DEF MergeHeld, LockedMerge, MonitorInv, Goto
    <3>2. \A l \in Leaves : latest[l] <= latest'[l] /\ latest[l] \in Nat /\ latest'[l] \in Nat
      BY <2>1, <3>1, MergeTypes, MaxPatchesAssumption DEF PendingTypeOK
    <3>3. \A l \in Leaves : latest'[l] >= latest[l]
      BY <3>2
    <3> QED
      BY <2>2, <3>3 DEF MergeHeld, historyVars, Feed!FeedNext, Feed!Accept
  <2>3. CASE FinalFlush \/ (SendThread /\ Flush("sender"))
    <3>1. PICK t \in Threads : Flush(t)
      BY <2>3 DEF FinalFlush, Threads
    <3> QED
      BY <2>1, <3>1, FlushFeeds DEF Feed!FeedNext, Feed!Publish
  <2>4. CASE Join
    BY <2>1, <2>4, OrderJoin DEF Join, JoinSender, bufferVars, Feed!FeedNext, Feed!GiveUp
  <2>5. CASE ~(MergeHeld \/ FinalFlush \/ (SendThread /\ Flush("sender")) \/ Join)
    <3>1. UNCHANGED <<latest, shown, gaveUp>>
      BY <2>5 DEF Next, Read, ReadNoFrame, ReadFrame, ReadFails, MainButRead, Connect,
         ConnectEmitter, OpenFails, OpenAndStart, LoopTest, Drain, NothingShared, Close,
         CloseEmitter, Exit, ProcessExit, SendThread, Sender, SendLoopTest, SendLoopWake,
         Outside, Environment, Signal, LinkDown, LinkUp, Gone, bufferVars, historyVars, vars,
         sendLoopVars
    <3> QED
      BY <3>1
  <2> QED
    BY <2>2, <2>3, <2>4, <2>5
<1> QED
  BY <1>1, <1>2, MonitorInvariant, OrderHolds, PTL DEF Spec, FeedSpec, Feed!FeedSpec
==============================================================================
