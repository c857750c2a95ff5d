---------------------------- MODULE MCUsbMonBridge ----------------------------
(* Instances of UsbMonBridge for TLC. *)
EXTENDS UsbMonBridge

\* One scalar and one nested dictionary; every frame sets both.
MCFlatKeys == {"rpm"}
MCNestedKeys == {"gps"}
MCChildren == {"lat"}
MCFrameLeaves == Leaves
==============================================================================
