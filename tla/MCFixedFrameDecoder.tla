------------------------- MODULE MCFixedFrameDecoder -------------------------
(* Instances of FixedFrameDecoder for TLC. *)
EXTENDS FixedFrameDecoder

\* No pattern, one of one byte, one that overlaps itself, one that does not,
\* and one that is longer than the frame.
MCLayouts == {
    [sync |-> <<>>, length |-> 2],
    [sync |-> <<1>>, length |-> 2],
    [sync |-> <<1, 1>>, length |-> 3],
    [sync |-> <<1, 0>>, length |-> 3],
    [sync |-> <<0, 1, 1>>, length |-> 2]}
==============================================================================
