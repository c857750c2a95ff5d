----------------------------- MODULE UsbMonBridge -----------------------------
(***************************************************************************)
(* UsbMonBridge of the Linux console: the main thread reads usbmon records *)
(* of another program's serial session, gives them to the frame decoder    *)
(* and merges the frames it returns; the sender thread is that of the UDP  *)
(* bridge.  Unlike recvfrom, the read of the usbmon device has no timeout. *)
(*                                                                         *)
(* The decoder is reduced to what run() sees of it: whether it may still   *)
(* hold data at shutdown, and whether a call returns a frame, nothing or   *)
(* raises.  Module TsDecoder has the decoder itself.                       *)
(***************************************************************************)
EXTENDS SendLoop

CONSTANT
    FrameLeaves     \* the fields of the frame layout, all set by every frame

ASSUME FrameLeavesAssumption == FrameLeaves \subseteq Leaves /\ FrameLeaves # {}

VARIABLES
    held,       \* fields of the frame the main thread is about to merge
    decoder,    \* "ts" (TunerStudioSerialDecoder) or "fixed" (FixedFrameDecoder)
    segment     \* the decoder holds a pending segment

readVars == <<held, segment>>
vars == <<sendLoopVars, readVars, decoder>>

NoFrame == {}

Init ==
    /\ SendLoopInit("connect")
    /\ held = NoFrame
    /\ decoder \in {"ts", "fixed"}
    /\ segment = FALSE

\* What a step of the main thread outside the shared part leaves alone.
NothingShared == UNCHANGED <<lock, snap, bufferVars, emitterVars, historyVars, stop, running, decoder>>

------------------------------------------------------------------------------
(* run() *)

Connect ==
    /\ ConnectEmitter("open")
    /\ UNCHANGED <<readVars, decoder>>

\* resolve_serial_usb_device or the open of the usbmon device raises: run()
\* ends, the emitter still open.
OpenFails ==
    /\ Goto("main", "open", "failed")
    /\ NothingShared
    /\ UNCHANGED readVars

\* The usbmon device is open, sender.start().
OpenAndStart ==
    /\ StartSender("open")
    /\ NothingShared
    /\ UNCHANGED readVars

\* Fault: the loop does not look at stop_event.
LoopTestForever ==
    /\ Goto("main", "test", "read")
    /\ NothingShared
    /\ UNCHANGED readVars

\* while not self.stop_event.is_set()
LoopTest ==
    /\ Goto("main", "test", IF stop THEN "join" ELSE "read")
    /\ NothingShared
    /\ UNCHANGED readVars

\* A record that yields no frame: short, of another device or direction, of no
\* interest to the decoder, or one that makes it raise.  A read command leaves
\* the TunerStudio decoder with a pending segment, a frame that cannot be
\* decoded leaves it with none.
ReadNoFrame ==
    /\ Goto("main", "read", "test")
    /\ segment' \in IF decoder = "ts" THEN BOOLEAN ELSE {FALSE}
    /\ NothingShared
    /\ UNCHANGED held

\* A record that completes frames.  They all set the same fields and are
\* merged under one lock, so the last one stands for them.  The TunerStudio
\* decoder completes a frame at the read command that follows it.
ReadFrame ==
    /\ patches < MaxPatches
    /\ decoder = "ts" => segment
    /\ Goto("main", "read", "merge")
    /\ held' = FrameLeaves
    /\ NothingShared
    /\ UNCHANGED segment

\* os.read fails: run() ends without join, flush or close.
ReadFails ==
    /\ Goto("main", "read", "failed")
    /\ NothingShared
    /\ UNCHANGED readVars

\* Fault: the fields of a frame are merged one by one, each under the lock.
MergeFieldwise ==
    \E l \in held :
        /\ LockedMerge({l})
        /\ held' = held \ {l}
        /\ \/ Goto("main", "merge", IF held = {l} THEN "test" ELSE "merge")
           \/ Goto("main", "last", IF held = {l} THEN "flush" ELSE "last")
        /\ UNCHANGED <<lock, snap, emitterVars, historyVars, stop, running, segment, decoder>>

\* with self.lock: merge_patch(self.pending, patch), in the loop ("merge") or
\* for the frame that decoder.flush() returned ("last").
MergeHeld ==
    /\ LockedMerge(held)
    /\ \/ Goto("main", "merge", "test")
       \/ Goto("main", "last", "flush")
    /\ held' = NoFrame
    /\ UNCHANGED <<lock, snap, emitterVars, historyVars, stop, running, segment, decoder>>

\* Fault: the sender is not waited for.
NoJoin ==
    /\ Goto("main", "join", "drain")
    /\ NothingShared
    /\ UNCHANGED readVars

Join ==
    /\ JoinSender("drain")
    /\ UNCHANGED <<readVars, decoder>>

\* Fault: what the decoder holds is left there.
NoDrain ==
    /\ Goto("main", "drain", "flush")
    /\ NothingShared
    /\ UNCHANGED readVars

\* decoder.flush(), which FixedFrameDecoder lacks: gives up the pending
\* segment, which may complete a frame or make the decoder raise.
Drain ==
    /\ segment' = FALSE
    /\ \/ /\ Goto("main", "drain", "flush")
          /\ held' = NoFrame
       \/ /\ segment
          /\ patches < MaxPatches
          /\ Goto("main", "drain", "last")
          /\ held' = FrameLeaves
       \/ /\ segment
          /\ Goto("main", "drain", "failed")
          /\ held' = NoFrame
    /\ NothingShared

FinalFlush ==
    /\ Flush("main")
    /\ UNCHANGED <<readVars, decoder>>

Close ==
    /\ CloseEmitter
    /\ UNCHANGED <<readVars, decoder>>

Exit ==
    /\ ProcessExit
    /\ UNCHANGED <<readVars, decoder>>

\* What waits for the bus to speak, and what does not.
Read == ReadNoFrame \/ ReadFrame \/ ReadFails

MainButRead ==
    \/ Connect \/ OpenFails \/ OpenAndStart \/ LoopTest \/ MergeHeld
    \/ Join \/ Drain \/ FinalFlush \/ Close \/ Exit

SendThread ==
    /\ Sender
    /\ UNCHANGED <<readVars, decoder>>

Outside ==
    /\ Environment
    /\ UNCHANGED <<readVars, decoder>>

\* The process is gone: nothing happens any more.
Gone ==
    /\ ~running
    /\ UNCHANGED vars

Next == Read \/ MainButRead \/ SendThread \/ Outside \/ Gone

Spec == Init /\ [][Next]_vars

\* os.read returns only when a record arrives, which nothing ensures; every
\* other step of the two threads ends by itself.
FairSpec == Spec /\ WF_vars(MainButRead) /\ WF_vars(SendThread)

------------------------------------------------------------------------------
(* Properties *)

\* Every variable has its type.
TypeOK ==
    /\ SendLoopTypeOK
    /\ held \in {NoFrame, FrameLeaves}
    /\ decoder \in {"ts", "fixed"}
    /\ segment \in BOOLEAN

\* A merged frame is on its way or was handed over, the one merged after
\* join() included.
NoLostUpdate == LatestIsAccountedFor

\* LIVI is given each frame whole: all fields of the frame layout come from
\* the same frame, because the merge and the copy of the pending telemetry
\* exclude each other.
FramesStayWhole ==
    \A l1, l2 \in FrameLeaves : shown[l1] = shown[l2]

\* What _flush copied is not changed by the merge of the next frame.
PayloadFrozen == [][PayloadKept]_vars

\* A run() that returns, with join() in time, has handed over every frame it
\* merged and has left no captured data in the decoder.
ShutdownLosesNothing ==
    /\ DrainedAtClose
    /\ pc["main"] = "done" => ~segment

\* stop() ends the process, or the main thread waits in os.read for good: the
\* signal handler does not end a read of a silent bus.
StopEndsOrWaits == stop ~> ~running \/ [](pc["main"] = "read")

\* The bridge implements the telemetry feed.
Feed == INSTANCE TelemetryFeed WITH orderly <- ~gaveUp
FeedSpec == Feed!FeedSpec
==============================================================================
