----------------------------- MODULE MCUdpBridge -----------------------------
(* Instances of UdpBridge for TLC. *)
EXTENDS UdpBridge

\* One scalar and one nested dictionary with two fields.
MCFlatKeys == {"rpm"}
MCNestedKeys == {"gps"}
MCChildren == {"lat", "lng"}
==============================================================================
