--------------------------- MODULE DirectPublisher ---------------------------
(***************************************************************************)
(* TelemetryPublisher of the TunerStudio plugin in direct mode, with the   *)
(* way LiviTelemetryPlugin closes it.  Callbacks of TunerStudio merge      *)
(* channel values into the pending payload, a timer thread flushes it to   *)
(* LIVI, and close(), on another thread, unsubscribes, cancels the timer   *)
(* without waiting for a run in progress, flushes once more and closes the *)
(* Socket.IO client.                                                       *)
(*                                                                         *)
(* The client is reduced to the outcome of its synchronized methods: emit  *)
(* opens a closed client again, raises when LIVI cannot be reached, or     *)
(* writes to a connection that is lost without the client knowing it, and  *)
(* returns.  Module SocketIoClient has the client itself.                  *)
(***************************************************************************)
EXTENDS PendingTelemetry

VARIABLES
    held,       \* held: fields of the patch a callback is about to merge
    timer,      \* "idle" between two runs, "run" before the copy, "emit" after it
    ticking,    \* the timer is not cancelled
    closer,     \* where the thread that calls close() stands
    snap,       \* snap[t]: the payload thread t copied in flushDirect
    client,     \* the Socket.IO client: "open" (it takes itself for connected) or "closed"
    link,       \* LIVI: "up", "down", or "stalled" (connected, reading nothing)
    subscribed, \* callbacks may still be made
    \* history
    shown,      \* shown[l]: value of l in the last payload that carried it
    settled,    \* settled[l]: newest value of l passed to emit()
    failed,     \* some emit() raised an IOException
    vanished,   \* some emit() wrote to a connection that is lost, and returned
    overlap,    \* the timer was cancelled in the middle of a run
    late        \* a callback merged after the last copy of close()

Threads == {"timer", "closer"}
NoPatch == {}

publishVars == <<shown, settled, failed, vanished>>
linkVars == <<client, link>>
vars == <<bufferVars, held, timer, ticking, closer, snap, linkVars, subscribed,
          publishVars, overlap, late>>

\* The constructor has connected the client and scheduled the timer.
Init ==
    /\ PendingInit
    /\ held = NoPatch
    /\ timer = "idle"
    /\ ticking = TRUE
    /\ closer = "away"
    /\ snap = [t \in Threads |-> Empty]
    /\ client = "open"
    /\ link = "up"
    /\ subscribed = TRUE
    /\ shown = [l \in Leaves |-> 0]
    /\ settled = [l \in Leaves |-> 0]
    /\ failed = FALSE
    /\ vanished = FALSE
    /\ overlap = FALSE
    /\ late = FALSE

------------------------------------------------------------------------------
(* setCurrentOutputChannelValue *)

\* A value that is finite and mapped becomes a patch of one field; every other
\* value is dropped without a trace.
Callback(l) ==
    /\ subscribed
    /\ held = NoPatch
    /\ patches < MaxPatches
    /\ held' = {l}
    /\ UNCHANGED <<bufferVars, timer, ticking, closer, snap, linkVars, subscribed, publishVars, overlap, late>>

CopiedForClose == closer \in {"emit", "close", "done"}

\* synchronized (lock) { merge(pendingPayload, patch) }
MapPending ==
    /\ held # NoPatch
    /\ MergePatch(held)
    /\ held' = NoPatch
    /\ late' = (late \/ CopiedForClose)
    /\ UNCHANGED <<timer, ticking, closer, snap, linkVars, subscribed, publishVars, overlap>>

------------------------------------------------------------------------------
(* flushDirect *)

\* Fault: pendingPayload is sent, not a copy of it that is then cleared.
CopyUncleared(t) ==
    /\ snap' = [snap EXCEPT ![t] = pending]
    /\ UNCHANGED bufferVars

\* synchronized (lock) { copy; clear }
CopyAndClear(t) ==
    /\ snap' = [snap EXCEPT ![t] = pending]
    /\ pending' = Empty
    /\ UNCHANGED <<dicts, patches, latest>>

\* socketIoClient.emit, outside the lock.  A stalled LIVI makes it wait.  The
\* payload reaches LIVI, over a new connection when the client is closed or finds
\* the old one broken; or the system accepts it for a connection that is lost,
\* which raises nothing, while LIVI is down or up again; or connect() fails, and
\* flushDirect swallows the IOException with the payload.
EmitPayload(t) ==
    /\ link # "stalled"
    /\ settled' = [l \in Leaves |->
         IF Value(snap[t], l) > settled[l] THEN Value(snap[t], l) ELSE settled[l]]
    /\ snap' = [snap EXCEPT ![t] = Empty]
    /\ \/ /\ link = "up"
          /\ client' = "open"
          /\ shown' = [l \in Leaves |->
               IF Value(snap[t], l) # 0 THEN Value(snap[t], l) ELSE shown[l]]
          /\ UNCHANGED <<failed, vanished>>
       \/ /\ client = "open"
          /\ vanished' = TRUE
          /\ UNCHANGED <<client, shown, failed>>
       \/ /\ link = "down"
          /\ client' = "closed"
          /\ failed' = TRUE
          /\ UNCHANGED <<shown, vanished>>
    /\ UNCHANGED <<bufferVars, link>>

\* The timer thread takes up its task.
TimerFire ==
    /\ ticking
    /\ timer = "idle"
    /\ timer' = "run"
    /\ UNCHANGED <<bufferVars, held, ticking, closer, snap, linkVars, subscribed, publishVars, overlap, late>>

TimerCopy ==
    /\ timer = "run"
    /\ \/ /\ pending = Empty
          /\ timer' = "idle"
          /\ UNCHANGED <<bufferVars, snap>>
       \/ /\ pending # Empty
          /\ timer' = "emit"
          /\ CopyAndClear("timer")
    /\ UNCHANGED <<held, ticking, closer, linkVars, subscribed, publishVars, overlap, late>>

\* Fault: the task is scheduled once, not at a fixed rate.
TimerEmitOnce ==
    /\ timer = "emit"
    /\ timer' = "idle"
    /\ ticking' = FALSE
    /\ EmitPayload("timer")
    /\ UNCHANGED <<held, closer, subscribed, overlap, late>>

TimerEmit ==
    /\ timer = "emit"
    /\ timer' = "idle"
    /\ EmitPayload("timer")
    /\ UNCHANGED <<held, ticking, closer, subscribed, overlap, late>>

------------------------------------------------------------------------------
(* closePublisher: unsubscribe, then close() *)

\* A callback in progress is not waited for.
Unsubscribe ==
    /\ closer = "away"
    /\ closer' = "cancel"
    /\ subscribed' = FALSE
    /\ UNCHANGED <<bufferVars, held, timer, ticking, snap, linkVars, publishVars, overlap, late>>

\* Fault: close() does not cancel the timer.
CancelNothing ==
    /\ closer = "cancel"
    /\ closer' = "flush"
    /\ overlap' = (timer # "idle")
    /\ UNCHANGED <<bufferVars, held, timer, ticking, snap, linkVars, subscribed, publishVars, late>>

\* timer.cancel(): no further run begins, one in progress goes on.
CancelTimer ==
    /\ closer = "cancel"
    /\ closer' = "flush"
    /\ ticking' = FALSE
    /\ overlap' = (timer # "idle")
    /\ UNCHANGED <<bufferVars, held, timer, snap, linkVars, subscribed, publishVars, late>>

\* Faults: close() flushes nothing; it waits for something to flush.
CloseFlushNothing ==
    /\ closer = "flush"
    /\ closer' = "close"
    /\ UNCHANGED <<bufferVars, held, timer, ticking, snap, linkVars, subscribed, publishVars, overlap, late>>

CloseFlushWaits ==
    /\ closer = "flush"
    /\ pending # Empty
    /\ closer' = "emit"
    /\ CopyAndClear("closer")
    /\ UNCHANGED <<held, timer, ticking, linkVars, subscribed, publishVars, overlap, late>>

\* flushDirect() by the thread that closes
CloseFlush ==
    /\ closer = "flush"
    /\ \/ /\ pending = Empty
          /\ closer' = "close"
          /\ UNCHANGED <<bufferVars, snap>>
       \/ /\ pending # Empty
          /\ closer' = "emit"
          /\ CopyAndClear("closer")
    /\ UNCHANGED <<held, timer, ticking, linkVars, subscribed, publishVars, overlap, late>>

CloseEmit ==
    /\ closer = "emit"
    /\ closer' = "close"
    /\ EmitPayload("closer")
    /\ UNCHANGED <<held, timer, ticking, subscribed, overlap, late>>

\* socketIoClient.close(), which also waits for a stalled LIVI.
CloseClient ==
    /\ closer = "close"
    /\ link # "stalled"
    /\ closer' = "done"
    /\ client' = "closed"
    /\ UNCHANGED <<bufferVars, held, timer, ticking, snap, link, subscribed, publishVars, overlap, late>>

------------------------------------------------------------------------------
LinkChange ==
    /\ link' \in {"up", "down", "stalled"} \ {link}
    /\ UNCHANGED <<bufferVars, held, timer, ticking, closer, snap, client, subscribed, publishVars, overlap, late>>

TimerThread == TimerFire \/ TimerCopy \/ TimerEmit
CloseThread == CancelTimer \/ CloseFlush \/ CloseEmit \/ CloseClient

Next ==
    \/ \E l \in Leaves : Callback(l)
    \/ MapPending \/ TimerThread
    \/ Unsubscribe \/ CloseThread \/ LinkChange

Spec == Init /\ [][Next]_vars

\* The timer keeps firing until it is cancelled and close() goes on once it was
\* called, as long as emit and the client's close return.
FairSpec == Spec /\ WF_vars(TimerThread) /\ WF_vars(CloseThread)

------------------------------------------------------------------------------
(* Properties *)

\* Every variable has its type.
TypeOK ==
    /\ PendingTypeOK
    /\ held \in SUBSET Leaves
    /\ timer \in {"idle", "run", "emit"}
    /\ ticking \in BOOLEAN
    /\ closer \in {"away", "cancel", "flush", "emit", "close", "done"}
    /\ snap \in [Threads -> [Keys -> 0..patches]]
    /\ client \in {"open", "closed"}
    /\ link \in {"up", "down", "stalled"}
    /\ subscribed \in BOOLEAN
    /\ shown \in [Leaves -> 0..patches]
    /\ settled \in [Leaves -> 0..patches]
    /\ failed \in BOOLEAN
    /\ vanished \in BOOLEAN
    /\ overlap \in BOOLEAN
    /\ late \in BOOLEAN

InEmit == {t \in Threads : (t = "timer" /\ timer = "emit") \/ (t = "closer" /\ closer = "emit")}

\* A merged value is pending, in the payload of a thread inside flushDirect, or
\* was passed to emit: copy and clear are one critical section with merge.
NoLostUpdate ==
    \A l \in Leaves : latest[l] # 0 =>
        \/ Value(pending, l) = latest[l]
        \/ \E t \in InEmit : Value(snap[t], l) = latest[l]
        \/ settled[l] = latest[l]

\* The payload that JsonUtil serialises outside the lock does not change under
\* it, although the copy is shallow and merge updates gps in place.
PayloadFrozen ==
    [][\A t \in InEmit \cap InEmit' :
         \A l \in Leaves : ValueIn(snap'[t], dicts', l) = Value(snap[t], l)]_vars

\* A close() that did not overlap a run of the timer leaves the client closed
\* for good: no later flush connects it again.
ClosedStaysClosed == closer = "done" /\ ~overlap => client = "closed"

\* Such a close() has passed everything merged to emit, except what a callback
\* merged after its flush; and LIVI shows it, unless an emit() raised or wrote to
\* a connection that was lost: emit() does not learn of the latter.
CloseLosesNothing ==
    closer = "done" /\ ~overlap /\ ~late =>
        /\ settled = latest
        /\ ~failed /\ ~vanished => shown = latest

\* A merged value reaches LIVI, or is overtaken, unless an emit raises, an emit
\* writes to a lost connection, LIVI stalls, or the plugin is closed.
MergedIsShown ==
    \A l \in Leaves, n \in PatchIds :
        latest[l] = n ~> \/ shown[l] >= n \/ failed \/ vanished
                            \/ link = "stalled" \/ closer # "away"

\* close() returns, unless LIVI stalls: the timer thread may then be in emit and
\* hold the client's monitor.
CloseReturns == closer # "away" ~> closer = "done" \/ link = "stalled"

\* The publisher implements the telemetry feed, until a close() overlaps a run
\* of the timer: its older payload may then be emitted after the last one.
Feed == INSTANCE TelemetryFeed WITH orderly <- ~overlap
FeedSpec == Feed!FeedSpec
==============================================================================
