------------------------------- MODULE Coverage -------------------------------
(***************************************************************************)
(* When the block of TunerStudioSerialDecoder holds all that its fields    *)
(* are read from.  TsDecoder uses the answer; CoverageSweep is the loop    *)
(* that finds it.                                                          *)
(***************************************************************************)
EXTENDS Naturals

CONSTANT RequiredLength     \* end of the last field of the frame layout, 0 without fields

ASSUME RequiredLengthAssumption == RequiredLength \in Nat

\* Some of the ranges <<start, end>> in r contains position p.
Covers(r, p) == \E v \in r : v[1] <= p /\ p < v[2]

\* What _has_required_data returns: FALSE when the frame layout has no fields.
HasRequiredData(r) ==
    /\ RequiredLength > 0
    /\ \A p \in 0..(RequiredLength - 1) : Covers(r, p)
==============================================================================
