-------------------------- MODULE LinearExpressions --------------------------
(***************************************************************************)
(* _linear_from_ast: the expression of a calculated channel as a sum of    *)
(* channels, each with a coefficient, and a constant; or NotLinear.        *)
(*                                                                         *)
(* An expression is a tree of records: [op |-> "name", name |-> c],        *)
(* [op |-> "number", value |-> n], [op |-> "neg", arg |-> e],              *)
(* [op |-> "add", left |-> d, right |-> e] and so on with "sub", "mul" and *)
(* "div", or [op |-> "other"] for whatever else Python's parser accepts.   *)
(***************************************************************************)
EXTENDS Fractions, FiniteSets, Functions

CONSTANTS
    Channels,       \* channel names
    Expressions,    \* the expressions that occur, with all their parts
    Depth,          \* how deep each one is nested
    MaxDepth        \* how deep any is

Operators == {"add", "sub", "mul", "div"}

Parts(e) ==
    CASE e.op = "neg" -> {e.arg}
      [] e.op \in Operators -> {e.left, e.right}
      [] OTHER -> {}

ASSUME ExpressionsAssumption ==
    /\ MaxDepth \in Nat
    /\ Depth \in [Expressions -> 0..MaxDepth]
    /\ \A e \in Expressions :
          /\ e.op \in {"name", "table"} => e.name \in Channels
          /\ e.op = "number" => e.value \in Int
          /\ \A p \in Parts(e) : p \in Expressions /\ Depth[p] < Depth[e]

NotLinear == [linear |-> FALSE]

LinearValue(coefficients, constant) ==
    [linear |-> TRUE, coefficients |-> coefficients, constant |-> constant]

Constants(v) == DOMAIN v.coefficients = {}

\* A coefficient that becomes 0 in a sum is deleted.
Add(v, w) ==
    LET In(x, c) == IF c \in DOMAIN x.coefficients THEN x.coefficients[c] ELSE Whole(0)
        sum == [c \in DOMAIN v.coefficients \cup DOMAIN w.coefficients |-> Plus(In(v, c), In(w, c))]
        kept == {c \in DOMAIN sum : c \in DOMAIN w.coefficients => ~IsZero(sum[c])}
    IN LinearValue(Restrict(sum, kept), Plus(v.constant, w.constant))

\* A coefficient that becomes 0 in a product is kept.
MultiplyConstant(v, q) ==
    LinearValue([c \in DOMAIN v.coefficients |-> Times(v.coefficients[c], q)], Times(v.constant, q))

\* A quotient is linear if the divisor is a constant other than 0, a product if
\* one of the factors is a constant.
Combined(op, v, w) ==
    CASE op = "add" -> Add(v, w)
      [] op = "sub" -> Add(v, MultiplyConstant(w, Whole(-1)))
      [] op = "mul" /\ Constants(v) -> MultiplyConstant(w, v.constant)
      [] op = "mul" /\ ~Constants(v) /\ Constants(w) -> MultiplyConstant(v, w.constant)
      [] op = "div" /\ Constants(w) /\ ~IsZero(w.constant) -> MultiplyConstant(v, Inverted(w.constant))
      [] OTHER -> NotLinear

Linear[e \in Expressions] ==
    CASE e.op = "name" -> LinearValue([c \in {e.name} |-> Whole(1)], Whole(0))
      [] e.op = "number" -> LinearValue([c \in {} |-> Whole(0)], Whole(e.value))
      [] e.op = "neg" /\ Linear[e.arg].linear -> MultiplyConstant(Linear[e.arg], Whole(-1))
      [] e.op \in Operators /\ Linear[e.left].linear /\ Linear[e.right].linear ->
            Combined(e.op, Linear[e.left], Linear[e.right])
      [] OTHER -> NotLinear

------------------------------------------------------------------------------
(* What an expression means: its value, in a set that is empty when it has  *)
(* none, from such sets for the channels in it.                             *)

SetPlus(S, T) == {Plus(v, w) : v \in S, w \in T}
SetTimes(S, T) == {Times(v, w) : v \in S, w \in T}
SetNegated(S) == {Negated(v) : v \in S}
SetInverted(S) == {Inverted(v) : v \in {w \in S : ~IsZero(w)}}

Valuations == [Channels -> SUBSET Fraction]

Denotation[e \in Expressions] ==
    [values \in Valuations |->
        CASE e.op = "name" -> values[e.name]
          [] e.op = "number" -> {Whole(e.value)}
          [] e.op = "neg" -> SetNegated(Denotation[e.arg][values])
          [] e.op = "add" -> SetPlus(Denotation[e.left][values], Denotation[e.right][values])
          [] e.op = "sub" -> SetPlus(Denotation[e.left][values], SetNegated(Denotation[e.right][values]))
          [] e.op = "mul" -> SetTimes(Denotation[e.left][values], Denotation[e.right][values])
          [] e.op = "div" -> SetTimes(Denotation[e.left][values], SetInverted(Denotation[e.right][values]))
          [] OTHER -> {}]
ValueOf(e, values) == Denotation[e][values]

\* The channels in an expression.
Names[e \in Expressions] ==
    CASE e.op = "name" -> {e.name}
      [] e.op = "neg" -> Names[e.arg]
      [] e.op \in Operators -> Names[e.left] \cup Names[e.right]
      [] OTHER -> {}

\* A number, and one other than 0, without channels.
NoValues == [c \in Channels |-> {}]
Summand(e) == Names[e] = {} /\ ValueOf(e, NoValues) # {}
Factor(e) == Names[e] = {} /\ \E v \in ValueOf(e, NoValues) : ~IsZero(v)

\* One channel, once, not in a divisor and not times 0: the formulas the code
\* is for.
Simple[e \in Expressions] ==
    CASE e.op = "name" -> TRUE
      [] e.op = "neg" -> Simple[e.arg]
      [] e.op \in {"add", "sub"} ->
            (Simple[e.left] /\ Summand(e.right)) \/ (Summand(e.left) /\ Simple[e.right])
      [] e.op = "mul" ->
            (Simple[e.left] /\ Factor(e.right)) \/ (Factor(e.left) /\ Simple[e.right])
      [] e.op = "div" -> Simple[e.left] /\ Factor(e.right)
      [] OTHER -> FALSE
==============================================================================
