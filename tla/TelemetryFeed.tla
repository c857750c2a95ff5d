---------------------------- MODULE TelemetryFeed ----------------------------
(***************************************************************************)
(* What every telemetry path of the program promises to the LIVI           *)
(* dashboard, whatever source it reads: the dashboard follows the newest   *)
(* accepted value of each field, possibly skipping values, never showing a *)
(* value that was not accepted yet and never going back to an older one.   *)
(*                                                                         *)
(* Values are numbered by the order in which the program accepted them, 0  *)
(* standing for "none yet".  The promise of not going back ends when a     *)
(* shutdown gives up waiting for the sending thread.                       *)
(***************************************************************************)
EXTENDS Naturals

CONSTANT Leaves     \* the telemetry fields, nested ones such as gps.lat included

VARIABLES
    latest,     \* latest[l]: number of the newest accepted value of l
    shown,      \* shown[l]: number of the value LIVI was last given for l
    orderly     \* FALSE once a shutdown stopped waiting for the sender

feedVars == <<latest, shown, orderly>>

FeedInit ==
    /\ latest = [l \in Leaves |-> 0]
    /\ shown = [l \in Leaves |-> 0]
    /\ orderly = TRUE

\* Newer values of some fields are accepted.
Accept ==
    /\ \A l \in Leaves : latest'[l] >= latest[l]
    /\ UNCHANGED <<shown, orderly>>

\* LIVI is given accepted values of some fields.
Publish ==
    /\ \A l \in Leaves :
         /\ shown'[l] <= latest[l]
         /\ orderly => shown'[l] >= shown[l]
    /\ UNCHANGED <<latest, orderly>>

\* The shutdown no longer waits for the sending thread.
GiveUp ==
    /\ orderly' = FALSE
    /\ UNCHANGED <<latest, shown>>

FeedNext == Accept \/ Publish \/ GiveUp

FeedSpec == FeedInit /\ [][FeedNext]_feedVars
==============================================================================
