------------------------------- MODULE SendLoop -------------------------------
(***************************************************************************)
(* The part that the UDP bridge and the usbmon bridge of the Linux console *)
(* share: the pending telemetry, the lock around it, the                   *)
(* sender thread (_send_loop), the hand-over of the pending telemetry to   *)
(* the emitter (_flush), which the main thread also runs once at shutdown, *)
(* and the emitter itself.                                                 *)
(***************************************************************************)
EXTENDS PendingTelemetry, FiniteSets

Threads == {"main", "sender"}
Free == "free"
Locations == {"unborn", "connect", "bind", "resolve", "open", "test", "recv",
              "read", "merge", "join", "drain", "last", "sleep", "flush", "clear",
              "emit", "close", "done", "failed", "exited", "crashed"}

VARIABLES
    pc,         \* pc[t]: where thread t stands
    stop,       \* stop_event
    lock,       \* the thread holding self.lock between two steps, or Free
    snap,       \* snap[t]: the payload thread t copied in _flush
    emitter,    \* "new", "open" after connect(), "closed" after close()
    kind,       \* which Emitter: "dry" (DryRunEmitter) or "socketio"
    link,       \* whether what the emitter writes to (LIVI, stdout) is "up"
    running,    \* the process exists
    \* history of the run, read by no action of the code
    shown,      \* shown[l]: value of l in the last payload that carried it
    settled,    \* settled[l]: newest value of l passed to emit()
    raised,     \* some emit() raised an exception
    gaveUp      \* sender.join() timed out

threadVars == <<pc, lock, snap>>
emitterVars == <<emitter, kind, link>>
historyVars == <<shown, settled, raised, gaveUp>>
sendLoopVars == <<threadVars, bufferVars, emitterVars, historyVars, stop, running>>

SendLoopInit(mainStart) ==
    /\ pc = [t \in Threads |-> IF t = "main" THEN mainStart ELSE "unborn"]
    /\ stop = FALSE
    /\ lock = Free
    /\ PendingInit
    /\ snap = [t \in Threads |-> Empty]
    /\ emitter = "new"
    /\ kind \in {"dry", "socketio"}
    /\ link = "up"
    /\ running = TRUE
    /\ shown = [l \in Leaves |-> 0]
    /\ settled = [l \in Leaves |-> 0]
    /\ raised = FALSE
    /\ gaveUp = FALSE

\* Thread t, standing at from, goes to to.
Goto(t, from, to) ==
    /\ running
    /\ pc[t] = from
    /\ pc' = [pc EXCEPT ![t] = to]

------------------------------------------------------------------------------
\* "with self.lock: merge_patch(...)" run by the main thread.
LockedMerge(fs) ==
    /\ lock = Free
    /\ MergePatch(fs)

------------------------------------------------------------------------------
(* _flush *)

AfterFlush(t) == IF t = "main" THEN "close" ELSE "test"

\* Fault: the copy and the clear are not under one lock.
FlushCopyUnlocked(t) ==
    /\ lock = Free
    /\ Goto(t, "flush", IF pending = Empty THEN AfterFlush(t) ELSE "clear")
    /\ snap' = [snap EXCEPT ![t] = pending]
    /\ UNCHANGED <<lock, bufferVars, emitterVars, historyVars, stop, running>>

\* Takes the lock.  With nothing pending returns at once, else copies.
FlushCopy(t) ==
    /\ lock = Free
    /\ \/ /\ pending = Empty
          /\ Goto(t, "flush", AfterFlush(t))
          /\ UNCHANGED <<lock, snap>>
       \/ /\ pending # Empty
          /\ Goto(t, "flush", "clear")
          /\ lock' = t
          /\ snap' = [snap EXCEPT ![t] = pending]
    /\ UNCHANGED <<bufferVars, emitterVars, historyVars, stop, running>>

\* Fault: the pending telemetry is not cleared.
FlushUncleared(t) ==
    /\ Goto(t, "clear", "emit")
    /\ lock' = Free
    /\ UNCHANGED <<snap, bufferVars, emitterVars, historyVars, stop, running>>

\* self.pending.clear(), then leaves the with block.
FlushClear(t) ==
    /\ Goto(t, "clear", "emit")
    /\ pending' = Empty
    /\ lock' = Free
    /\ UNCHANGED <<snap, dicts, patches, latest, emitterVars, historyVars, stop, running>>

EmitSucceeds == link = "up" /\ (kind = "dry" \/ emitter = "open")

\* What an exception of emit() does to the thread that called _flush: nothing
\* in _send_loop or run() catches it.
Uncaught(t) == IF t = "main" THEN "failed" ELSE "crashed"

Settle(t) ==
    settled' = [l \in Leaves |->
        IF Value(snap[t], l) > settled[l] THEN Value(snap[t], l) ELSE settled[l]]

\* self.emitter.emit(self.event, payload), outside the lock.
FlushEmit(t) ==
    /\ Settle(t)
    /\ snap' = [snap EXCEPT ![t] = Empty]
    /\ \/ /\ EmitSucceeds
          /\ Goto(t, "emit", AfterFlush(t))
          /\ shown' = [l \in Leaves |->
               IF Value(snap[t], l) # 0 THEN Value(snap[t], l) ELSE shown[l]]
          /\ UNCHANGED raised
       \/ /\ ~EmitSucceeds
          /\ Goto(t, "emit", Uncaught(t))
          /\ raised' = TRUE
          /\ UNCHANGED shown
    /\ UNCHANGED <<lock, bufferVars, emitterVars, gaveUp, stop, running>>

Flush(t) == FlushCopy(t) \/ FlushClear(t) \/ FlushEmit(t)

------------------------------------------------------------------------------
(* The sender thread: while not stop: sleep(interval); _flush() *)

\* Fault: the loop ends when it finds nothing pending.
SendLoopTestPending ==
    /\ Goto("sender", "test", IF stop \/ pending = Empty THEN "exited" ELSE "sleep")
    /\ UNCHANGED <<lock, snap, bufferVars, emitterVars, historyVars, stop, running>>

SendLoopTest ==
    /\ Goto("sender", "test", IF stop THEN "exited" ELSE "sleep")
    /\ UNCHANGED <<lock, snap, bufferVars, emitterVars, historyVars, stop, running>>

SendLoopWake ==
    /\ Goto("sender", "sleep", "flush")
    /\ UNCHANGED <<lock, snap, bufferVars, emitterVars, historyVars, stop, running>>

Sender == SendLoopTest \/ SendLoopWake \/ Flush("sender")

------------------------------------------------------------------------------
(* Steps of run() that the bridges share *)

\* emitter.connect(), which raises when LIVI cannot be reached.
ConnectEmitter(next) ==
    /\ \/ /\ Goto("main", "connect", next)
          /\ emitter' = "open"
       \/ /\ kind = "socketio"
          /\ Goto("main", "connect", "failed")
          /\ UNCHANGED emitter
    /\ UNCHANGED <<lock, snap, bufferVars, kind, link, historyVars, stop, running>>

StartSender(from) ==
    /\ running
    /\ pc["main"] = from
    /\ pc' = [pc EXCEPT !["main"] = "test", !["sender"] = "test"]

SenderOver == pc["sender"] \in {"exited", "crashed"}

\* sender.join(timeout=2.0)
JoinSender(next) ==
    /\ Goto("main", "join", next)
    /\ gaveUp' = ~SenderOver
    /\ UNCHANGED <<lock, snap, bufferVars, emitterVars, shown, settled, raised, stop, running>>

\* emitter.close(), then run() returns.
CloseEmitter ==
    /\ Goto("main", "close", "done")
    /\ emitter' = "closed"
    /\ UNCHANGED <<lock, snap, bufferVars, kind, link, historyVars, stop, running>>

\* main() returns and the process ends, the daemon sender with it.
ProcessExit ==
    /\ running
    /\ pc["main"] \in {"done", "failed"}
    /\ running' = FALSE
    /\ UNCHANGED <<threadVars, bufferVars, emitterVars, historyVars, stop>>

------------------------------------------------------------------------------
(* The environment *)

\* SIGINT or SIGTERM: stop()
Signal ==
    /\ running
    /\ stop' = TRUE
    /\ UNCHANGED <<threadVars, bufferVars, emitterVars, historyVars, running>>

\* LIVI goes away (or the reader of stdout does), and the Socket.IO client,
\* created with reconnection=True, finds it again.
LinkDown ==
    /\ running
    /\ link' = "down"
    /\ UNCHANGED <<threadVars, bufferVars, emitter, kind, historyVars, stop, running>>

LinkUp ==
    /\ running
    /\ kind = "socketio"
    /\ link' = "up"
    /\ UNCHANGED <<threadVars, bufferVars, emitter, kind, historyVars, stop, running>>

Environment == Signal \/ LinkDown \/ LinkUp

------------------------------------------------------------------------------
(* Properties, stated here once for the bridges *)

SendLoopTypeOK ==
    /\ pc \in [Threads -> Locations]
    /\ stop \in BOOLEAN
    /\ lock \in Threads \cup {Free}
    /\ PendingTypeOK
    /\ snap \in [Threads -> [Keys -> 0..patches]]
    /\ emitter \in {"new", "open", "closed"}
    /\ kind \in {"dry", "socketio"}
    /\ link \in {"up", "down"}
    /\ running \in BOOLEAN
    /\ shown \in [Leaves -> 0..patches]
    /\ settled \in [Leaves -> 0..patches]
    /\ raised \in BOOLEAN
    /\ gaveUp \in BOOLEAN

\* Where the newest value of field l is: pending, in the payload of a thread
\* inside _flush, or handed over.
LatestIsAccountedFor ==
    \A l \in Leaves : latest[l] # 0 =>
        \/ Value(pending, l) = latest[l]
        \/ \E t \in Threads : pc[t] \in {"clear", "emit"} /\ Value(snap[t], l) = latest[l]
        \/ settled[l] = latest[l]

\* The payload a thread is about to emit keeps its values.
PayloadKept ==
    \A t \in Threads : pc[t] = "emit" /\ pc'[t] = "emit" =>
        \A l \in Leaves : ValueIn(snap'[t], dicts', l) = Value(snap[t], l)

DrainedAtClose ==
    pc["main"] = "done" /\ ~gaveUp =>
        /\ settled = latest
        /\ ~raised => shown = latest
==============================================================================
