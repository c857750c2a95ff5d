---------------------------- MODULE MCSerialBridge ----------------------------
(* Instances of SerialBridge for TLC. *)
EXTENDS SerialBridge

\* A poll is one read, or two of which the second is shorter.
MCReadSizes == {2, 3}
==============================================================================
