--------------------------- MODULE MCCoverageSweep ---------------------------
(* Instances of CoverageSweep for TLC. *)
EXTENDS CoverageSweep

\* Every range, empty ones left out as the decoder does, of a block of 4 bytes.
MCRanges == {v \in (0..3) \X (1..4) : v[1] < v[2]}
==============================================================================
