---------------------------- MODULE MCUsbCapture ----------------------------
(* Instances of UsbCapture for TLC. *)
EXTENDS UsbCapture

\* Two reads, the second reaching beyond the block.
MCPlan == <<[offset |-> 0, count |-> 2], [offset |-> 2, count |-> 2]>>

\* A read of another page that would cover the block, and one within it.
MCOtherReads == {[offset |-> 0, count |-> 3], [offset |-> 1, count |-> 1]}
==============================================================================
