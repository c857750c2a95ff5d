---------------------------- MODULE CoverageSweep ----------------------------
(***************************************************************************)
(* _has_required_data: the loop that decides, from the ranges written to   *)
(* the block so far, whether its first RequiredLength bytes are covered.   *)
(* One action per outcome of an iteration.  TsDecoder uses the answer in   *)
(* one step (HasRequiredData); here the loop is shown to give it.  A range *)
(* listed twice changes nothing the second time, so the ranges are a set.  *)
(***************************************************************************)
EXTENDS Coverage

CONSTANT Ranges     \* the ranges <<start, end>> that may be listed

ASSUME RangesAssumption == Ranges \subseteq Nat \X Nat

VARIABLES
    listed,     \* self.valid_ranges
    rest,       \* the ranges that the loop has not looked at yet
    covered,    \* covered_until
    verdict     \* "none" until the method returns "yes" or "no"

sweepVars == <<listed, rest, covered, verdict>>

\* Python's order of pairs, the order of sorted(self.valid_ranges).
Precedes(v, w) == v[1] < w[1] \/ (v[1] = w[1] /\ v[2] <= w[2])

SweepInit ==
    /\ listed \in SUBSET Ranges
    /\ rest = listed
    /\ covered = 0
    /\ verdict = IF RequiredLength = 0 THEN "no" ELSE "none"

IsNext(v) ==
    /\ verdict = "none"
    /\ v \in rest
    /\ \A w \in rest : Precedes(v, w)

\* Fault: a range that starts where the covered part ends counts as a gap.
GapOrTouch(v) ==
    /\ IsNext(v)
    /\ v[1] >= covered
    /\ verdict' = "no"
    /\ UNCHANGED <<listed, rest, covered>>

\* if start > covered_until: return False
Gap(v) ==
    /\ IsNext(v)
    /\ v[1] > covered
    /\ verdict' = "no"
    /\ UNCHANGED <<listed, rest, covered>>

\* Fault: covered_until = end, a short range inside a longer one takes it back.
ExtendBack(v) ==
    /\ IsNext(v)
    /\ v[1] <= covered
    /\ covered' = v[2]
    /\ rest' = rest \ {v}
    /\ verdict' = IF covered' >= RequiredLength THEN "yes" ELSE "none"
    /\ UNCHANGED listed

\* covered_until = max(covered_until, end), and True once that is enough.
Extend(v) ==
    /\ IsNext(v)
    /\ v[1] <= covered
    /\ covered' = IF v[2] > covered THEN v[2] ELSE covered
    /\ rest' = rest \ {v}
    /\ verdict' = IF covered' >= RequiredLength THEN "yes" ELSE "none"
    /\ UNCHANGED listed

\* The loop ends: return False
Exhausted ==
    /\ verdict = "none"
    /\ rest = {}
    /\ verdict' = "no"
    /\ UNCHANGED <<listed, rest, covered>>

Returned ==
    /\ verdict # "none"
    /\ UNCHANGED sweepVars

SweepNext ==
    \/ \E v \in Ranges : Gap(v) \/ Extend(v)
    \/ Exhausted \/ Returned

SweepSpec == SweepInit /\ [][SweepNext]_sweepVars

------------------------------------------------------------------------------
(* Properties *)

\* Every variable has its type.
SweepTypeOK ==
    /\ listed \subseteq Ranges
    /\ rest \subseteq listed
    /\ covered \in Nat
    /\ verdict \in {"none", "yes", "no"}

\* The method answers True exactly when every byte that a field is read from
\* lies in some range, in whatever order the ranges were listed and however
\* they overlap; without fields it answers False.
VerdictIsRight ==
    /\ verdict = "yes" => HasRequiredData(listed)
    /\ verdict = "no" => ~HasRequiredData(listed)
==============================================================================
