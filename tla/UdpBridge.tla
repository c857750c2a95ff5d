------------------------------ MODULE UdpBridge ------------------------------
(***************************************************************************)
(* Bridge of the Linux console: the main thread receives one JSON datagram *)
(* per TunerStudio channel value and merges it into the pending telemetry, *)
(* the sender thread hands the pending telemetry to the emitter once per   *)
(* interval.  A signal sets stop_event; the main thread then waits for the *)
(* sender, flushes what is left and closes the emitter.                    *)
(***************************************************************************)
EXTENDS SendLoop

VARIABLE
    held        \* fields of the patch the main thread is about to merge

vars == <<sendLoopVars, held>>

NoPatch == {}

Init ==
    /\ SendLoopInit("connect")
    /\ held = NoPatch

------------------------------------------------------------------------------
(* run() *)

Connect ==
    /\ ConnectEmitter("bind")
    /\ UNCHANGED held

\* udp.bind raises when the port is taken: run() ends, the emitter still open.
BindFails ==
    /\ Goto("main", "bind", "failed")
    /\ UNCHANGED <<lock, snap, bufferVars, emitterVars, historyVars, stop, running, held>>

\* udp.bind, then sender.start().
BindAndStart ==
    /\ StartSender("bind")
    /\ UNCHANGED <<lock, snap, bufferVars, emitterVars, historyVars, stop, running, held>>

\* Fault: the loop does not look at stop_event.
LoopTestForever ==
    /\ Goto("main", "test", "recv")
    /\ UNCHANGED <<lock, snap, bufferVars, emitterVars, historyVars, stop, running, held>>

\* while not self.stop_event.is_set()
LoopTest ==
    /\ Goto("main", "test", IF stop THEN "join" ELSE "recv")
    /\ UNCHANGED <<lock, snap, bufferVars, emitterVars, historyVars, stop, running, held>>

\* recvfrom times out after 0.25 s, or the datagram is dropped: it is no JSON
\* object, its channel is not mapped, its value cannot be coerced.
RecvNothing ==
    /\ Goto("main", "recv", "test")
    /\ UNCHANGED <<lock, snap, bufferVars, emitterVars, historyVars, stop, running, held>>

\* A datagram that the mapper turns into a patch of the one field l.
RecvPacket(l) ==
    /\ patches < MaxPatches
    /\ Goto("main", "recv", "merge")
    /\ held' = {l}
    /\ UNCHANGED <<lock, snap, bufferVars, emitterVars, historyVars, stop, running>>

\* with self.lock: merge_patch(self.pending, patch)
MergeHeld ==
    /\ LockedMerge(held)
    /\ Goto("main", "merge", "test")
    /\ held' = NoPatch
    /\ UNCHANGED <<lock, snap, emitterVars, historyVars, stop, running>>

\* Faults: the final flush is forgotten; the sender is not waited for.
JoinThenClose ==
    /\ JoinSender("close")
    /\ UNCHANGED held

NoJoin ==
    /\ Goto("main", "join", "flush")
    /\ UNCHANGED <<lock, snap, bufferVars, emitterVars, historyVars, stop, running, held>>

Join ==
    /\ JoinSender("flush")
    /\ UNCHANGED held

FinalFlush ==
    /\ Flush("main")
    /\ UNCHANGED held

Close ==
    /\ CloseEmitter
    /\ UNCHANGED held

Exit ==
    /\ ProcessExit
    /\ UNCHANGED held

Main ==
    \/ Connect \/ BindFails \/ BindAndStart
    \/ LoopTest \/ RecvNothing \/ (\E l \in Leaves : RecvPacket(l)) \/ MergeHeld
    \/ Join \/ FinalFlush \/ Close \/ Exit

SendThread ==
    /\ Sender
    /\ UNCHANGED held

Outside ==
    /\ Environment
    /\ UNCHANGED held

\* The process is gone: nothing happens any more.
Gone ==
    /\ ~running
    /\ UNCHANGED vars

Next == Main \/ SendThread \/ Outside \/ Gone

Spec == Init /\ [][Next]_vars

\* The recvfrom timeout keeps the main thread from waiting for a datagram, and
\* sleep() ends, so both threads are always given a step; signals, datagrams
\* and the link to LIVI owe nothing.
FairSpec == Spec /\ WF_vars(Main) /\ WF_vars(SendThread)

------------------------------------------------------------------------------
(* Properties *)

\* Every variable has its type.
TypeOK ==
    /\ SendLoopTypeOK
    /\ held \in SUBSET Leaves

\* A datagram that was merged is on its way or was handed over: run() and
\* _flush never drop a merged value, whichever thread flushes and whenever.
NoLostUpdate == LatestIsAccountedFor

\* What _flush copied is not changed under the emitter's feet by a later merge,
\* although the copy is shallow and merge_patch updates gps and can in place.
PayloadFrozen == [][PayloadKept]_vars

\* Nothing reaches LIVI once the emitter is closed, unless join() timed out.
ClosedIsSilent == [][emitter = "closed" => gaveUp \/ UNCHANGED shown]_vars

\* A run() that returns, with join() in time, has handed everything merged to
\* the emitter, even what was merged after the sender died of an exception of
\* emit(); and LIVI was given all of it when no emit() raised.
ShutdownLosesNothing == DrainedAtClose

\* stop() ends the process.
StopEndsProcess == stop ~> ~running

\* A merged value reaches LIVI, or is overtaken by a newer one, as long as the
\* process lives and no emit() raised.
MergedIsShown ==
    \A l \in Leaves, n \in PatchIds :
        latest[l] = n ~> shown[l] >= n \/ raised \/ ~running

\* The bridge implements the telemetry feed: LIVI is only shown values that
\* were merged, and never goes back to an older value of a field although two
\* threads call _flush, unless sender.join() timed out.
Feed == INSTANCE TelemetryFeed WITH orderly <- ~gaveUp
FeedSpec == Feed!FeedSpec
==============================================================================
