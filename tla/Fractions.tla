------------------------------ MODULE Fractions ------------------------------
(***************************************************************************)
(* Exact numbers in place of Python's floats: pairs of a numerator and a   *)
(* positive denominator.  The rounding of floats is left out.              *)
(***************************************************************************)
EXTENDS Integers

Fraction == Int \X (Nat \ {0})

Whole(n) == <<n, 1>>
Plus(p, q) == <<p[1] * q[2] + q[1] * p[2], p[2] * q[2]>>
Times(p, q) == <<p[1] * q[1], p[2] * q[2]>>
Negated(p) == <<-p[1], p[2]>>
Inverted(p) == IF p[1] < 0 THEN <<-p[2], -p[1]>> ELSE <<p[2], p[1]>>
IsZero(p) == p[1] = 0
Same(p, q) == p[1] * q[2] = q[1] * p[2]

\* int() of a number.
Truncated(p) == IF p[1] >= 0 THEN p[1] \div p[2] ELSE -((-p[1]) \div p[2])

\* round() of a number, but for the direction of ties.
Rounded(p) == (2 * p[1] + p[2]) \div (2 * p[2])
==============================================================================
