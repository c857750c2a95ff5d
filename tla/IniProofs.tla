------------------------------- MODULE IniProofs -------------------------------
(***************************************************************************)
(* Proofs about the INI front end, for every input, every field map, any   *)
(* channels, expressions and tables.                                       *)
(*                                                                         *)
(* The model speaks of expressions with recursive functions.  That such a  *)
(* function is what its definition says (Recursion), and that what passes  *)
(* from the parts of an expression to the expression holds of all          *)
(* (ExpressionInduction), is proved from the well-foundedness of the       *)
(* natural numbers, with sets in the place of predicates.                  *)
(*                                                                         *)
(* ReadInv says what has been read: the stack describes the conditionals   *)
(* open at the line (StackInv), the lines kept are those selected          *)
(* (OutputInv), and each calculated channel is its last definition in the  *)
(* sections so far (CalculatedInv).  ResolutionInv says of the calls in    *)
(* progress that they are the beginning of a walk along the definitions    *)
(* without repetition, and what the last call returned for its part of it. *)
(*                                                                         *)
(* DecodeInv adds what the values are: what the last call returned yields  *)
(* the values its channel has by the definitions (Right), and so do the    *)
(* fields.  That a linear form yields the value of the expression it was   *)
(* read from (LinearEvaluates) is shown with the partial sums of the form  *)
(* over a numbering of the channels (Evaluates).                           *)
(***************************************************************************)
EXTENDS IniFrontEnd, FiniteSetTheorems, WellFoundedInduction, TLAPS

------------------------------------------------------------------------------
(* Recursion and induction on expressions *)

\* Induction, said with a set.
LEMMA Induct ==
    ASSUME NEW S \in SUBSET Nat, 0 \in S, \A n \in S : n + 1 \in S
    PROVE  S = Nat
<1> DEFINE T == Nat \ S
<1> DEFINE R == OpToRel(<, Nat)
<1>1. SUFFICES ASSUME T # {} PROVE FALSE
  OBVIOUS
<1>2. IsWellFoundedOn(R, Nat)
  BY NatLessThanWellFounded
<1>3. T \subseteq Nat
  OBVIOUS
<1>4. PICK x \in T : \A y \in T : <<y, x>> \notin R
  <2> HIDE DEF T, R
  <2> QED BY <1>1, <1>2, <1>3, WFMin
<1>5. \A y \in T : ~(y < x)
  BY <1>4, <1>3 DEF OpToRel
<1>6. x # 0 /\ x - 1 \in Nat
  BY <1>3
<1>7. x - 1 \in S
  BY <1>5, <1>6
<1>8. x \in S
  BY <1>7, <1>6
<1> QED BY <1>8

\* A function on E is defined by recursion if its value at e follows from its
\* values at what has a smaller rank.
IsStep(E, rank, T, step) ==
    /\ T # {}
    /\ step \in [E \X [E -> T] -> T]
    /\ \A e \in E : \A f, g \in [E -> T] :
          (\A p \in E : rank[p] < rank[e] => f[p] = g[p]) => step[<<e, f>>] = step[<<e, g>>]

IsRank(E, rank) == \E m \in Nat : rank \in [E -> 0..m]

Solution(E, T, step) ==
    \E f \in [E -> T] : \A e \in E : f[e] = step[<<e, f>>]

\* A definition by recursion along a rank has a solution.
LEMMA Recursion ==
    ASSUME NEW E, NEW rank, IsRank(E, rank), NEW T, NEW step, IsStep(E, rank, T, step)
    PROVE  Solution(E, T, step)
<1> USE DEF IsStep
<1>0. PICK m \in Nat : rank \in [E -> 0..m]
  BY DEF IsRank
<1> DEFINE Solves(f, n) == \A e \in E : rank[e] < n => f[e] = step[<<e, f>>]
<1> DEFINE S == {n \in Nat : \E f \in [E -> T] : Solves(f, n)}
<1>1. \A e \in E : rank[e] \in Nat /\ rank[e] <= m
  BY <1>0
<1>2. 0 \in S
  <2> PICK t \in T : TRUE
    OBVIOUS
  <2>1. [e \in E |-> t] \in [E -> T]
    OBVIOUS
  <2>2. Solves([e \in E |-> t], 0)
    BY <1>1
  <2> QED BY <2>1, <2>2
<1>3. ASSUME NEW n \in S PROVE n + 1 \in S
  <2>1. PICK f \in [E -> T] : Solves(f, n)
    OBVIOUS
  <2> DEFINE g == [e \in E |-> step[<<e, f>>]]
  <2>2. g \in [E -> T]
    OBVIOUS
  <2>3. ASSUME NEW e \in E, rank[e] < n + 1 PROVE g[e] = step[<<e, g>>]
    <3>1. ASSUME NEW p \in E, rank[p] < rank[e] PROVE f[p] = g[p]
      <4>1. rank[p] < n
        BY <3>1, <1>1, <2>3
      <4> QED BY <4>1, <2>1
    <3> QED BY <3>1, <2>2
  <2>4. Solves(g, n + 1)
    BY <2>3
  <2>5. n + 1 \in Nat
    OBVIOUS
  <2> HIDE DEF g, Solves
  <2> QED BY <2>2, <2>4, <2>5
<1>4. S = Nat
  <2> HIDE DEF S
  <2>1. S \subseteq Nat
    BY DEF S
  <2> QED BY <1>2, <1>3, <2>1, Induct
<1>5. m + 1 \in S
  <2> HIDE DEF S
  <2> QED BY <1>4
<1>6. PICK f \in [E -> T] : Solves(f, m + 1)
  BY <1>5
<1>7. \A e \in E : f[e] = step[<<e, f>>]
  BY <1>6, <1>1
<1> QED BY <1>7 DEF Solution

\* Expressions can be recursed on: their parts are less deep.
LEMMA DepthIsRank ==
    /\ IsRank(Expressions, Depth)
    /\ \A e \in Expressions : \A p \in Parts(e) : p \in Expressions /\ Depth[p] < Depth[e]
  BY ExpressionsAssumption DEF IsRank

\* A property of the parts of every expression is one of every expression.
LEMMA ExpressionInduction ==
    ASSUME NEW S \in SUBSET Expressions,
           \A e \in Expressions : Parts(e) \subseteq S => e \in S
    PROVE  S = Expressions
<1> DEFINE U == {n \in Nat : \A e \in Expressions : Depth[e] < n => e \in S}
<1>1. \A e \in Expressions : Depth[e] \in Nat
  BY ExpressionsAssumption
<1>2. 0 \in U
  BY <1>1
<1>3. ASSUME NEW n \in U PROVE n + 1 \in U
  <2>1. ASSUME NEW e \in Expressions, Depth[e] < n + 1 PROVE e \in S
    <3>1. ASSUME NEW p \in Parts(e) PROVE p \in S
      <4>1. p \in Expressions /\ Depth[p] < Depth[e]
        BY ExpressionsAssumption
      <4>2. Depth[p] < n
        BY <4>1, <1>1, <2>1
      <4> QED BY <4>1, <4>2
    <3> QED BY <3>1
  <2> QED BY <2>1
<1>4. U = Nat
  <2> HIDE DEF U
  <2>1. U \subseteq Nat
    BY DEF U
  <2> QED BY <1>2, <1>3, <2>1, Induct
<1>5. ASSUME NEW e \in Expressions PROVE e \in S
  <2>1. Depth[e] + 1 \in U
    <3> HIDE DEF U
    <3> QED BY <1>1, <1>4
  <2> QED BY <2>1, <1>1
<1> QED BY <1>5

------------------------------------------------------------------------------
(* Types: fractions, sums, and what the recursive definitions say *)

\* Numbers are fractions, and the operations on fractions give fractions.
LEMMA WholeType == ASSUME NEW n \in Int PROVE Whole(n) \in Fraction
  BY DEF Whole, Fraction

\* Sums are fractions.
LEMMA PlusType == ASSUME NEW p \in Fraction, NEW q \in Fraction PROVE Plus(p, q) \in Fraction
  <1>1. p[1] * q[2] + q[1] * p[2] \in Int /\ p[2] * q[2] \in Nat /\ p[2] * q[2] # 0
    BY DEF Fraction
  <1> QED BY <1>1 DEF Fraction, Plus

\* Products are fractions.
LEMMA TimesType == ASSUME NEW p \in Fraction, NEW q \in Fraction PROVE Times(p, q) \in Fraction
  <1>1. p[1] * q[1] \in Int /\ p[2] * q[2] \in Nat /\ p[2] * q[2] # 0
    BY DEF Fraction
  <1> QED BY <1>1 DEF Fraction, Times

\* Negatives are fractions.
LEMMA NegatedType == ASSUME NEW p \in Fraction PROVE Negated(p) \in Fraction
  BY DEF Fraction, Negated

\* Inverses of what is not 0 are fractions.
LEMMA InvertedType == ASSUME NEW p \in Fraction, ~IsZero(p) PROVE Inverted(p) \in Fraction
  BY DEF Fraction, Inverted, IsZero

\* What an expression can be as a sum.
Sums == {LinearValue(k, q) : k \in UNION {[S -> Fraction] : S \in SUBSET Channels}, q \in Fraction}
Forms == {NotLinear} \cup Sums

\* Coefficients and a constant make a sum.
LEMMA FormIntro ==
    ASSUME NEW S \in SUBSET Channels, NEW k \in [S -> Fraction], NEW q \in Fraction
    PROVE  LinearValue(k, q) \in Sums
  BY DEF Sums

\* The parts of a sum.
LEMMA FormElim ==
    ASSUME NEW v \in Sums
    PROVE  /\ v = LinearValue(v.coefficients, v.constant)
           /\ v.linear = TRUE
           /\ DOMAIN v.coefficients \subseteq Channels
           /\ v.coefficients \in [DOMAIN v.coefficients -> Fraction]
           /\ v.constant \in Fraction
  BY DEF Sums, LinearValue

\* A linear form is a sum.
LEMMA FormLinear == ASSUME NEW v \in Forms, v.linear PROVE v \in Sums
  BY DEF Forms, NotLinear

\* What is not linear is a form too.
LEMMA FormOther == NotLinear \in Forms /\ NotLinear.linear = FALSE /\ Forms # {}
  BY DEF Forms, NotLinear

\* A channel is a sum.
LEMMA FormName ==
    ASSUME NEW c \in Channels
    PROVE  LinearValue([d \in {c} |-> Whole(1)], Whole(0)) \in Forms
  BY FormIntro, WholeType DEF Forms

\* A number is a sum.
LEMMA FormNumber ==
    ASSUME NEW n \in Int
    PROVE  LinearValue([d \in {} |-> Whole(0)], Whole(n)) \in Forms
  BY FormIntro, WholeType DEF Forms

\* A sum times a number is a sum.
LEMMA SumMultiply ==
    ASSUME NEW v \in Sums, NEW q \in Fraction
    PROVE  MultiplyConstant(v, q) \in Sums
<1>1. \A c \in DOMAIN v.coefficients : Times(v.coefficients[c], q) \in Fraction
  BY FormElim, TimesType
<1>2. Times(v.constant, q) \in Fraction
  BY FormElim, TimesType
<1> QED BY <1>1, <1>2, FormElim, FormIntro DEF MultiplyConstant

\* The same of forms.
LEMMA FormMultiply ==
    ASSUME NEW v \in Forms, v.linear, NEW q \in Fraction
    PROVE  MultiplyConstant(v, q) \in Forms
  BY SumMultiply, FormLinear DEF Forms

\* Two sums added are a sum.
LEMMA SumAdd ==
    ASSUME NEW v \in Sums, NEW w \in Sums
    PROVE  Add(v, w) \in Sums
<1> DEFINE In(x, c) == IF c \in DOMAIN x.coefficients THEN x.coefficients[c] ELSE Whole(0)
<1> DEFINE D == DOMAIN v.coefficients \cup DOMAIN w.coefficients
<1> DEFINE sum == [c \in D |-> Plus(In(v, c), In(w, c))]
<1> DEFINE kept == {c \in DOMAIN sum : c \in DOMAIN w.coefficients => ~IsZero(sum[c])}
<1>1. D \subseteq Channels
  BY FormElim
<1>2. \A c \in D : In(v, c) \in Fraction /\ In(w, c) \in Fraction
  <2>1. v.coefficients \in [DOMAIN v.coefficients -> Fraction]
    BY FormElim
  <2>2. w.coefficients \in [DOMAIN w.coefficients -> Fraction]
    BY FormElim
  <2> QED BY <2>1, <2>2, WholeType
<1>3. \A c \in D : sum[c] \in Fraction
  <2> HIDE DEF In, D
  <2> QED BY <1>2, PlusType
<1>4. kept \subseteq D
  OBVIOUS
<1>5. Restrict(sum, kept) \in [kept -> Fraction]
  <2> HIDE DEF sum
  <2> QED BY <1>3, <1>4 DEF Restrict
<1>6. Plus(v.constant, w.constant) \in Fraction
  BY FormElim, PlusType
<1>7. Add(v, w) = LinearValue(Restrict(sum, kept), Plus(v.constant, w.constant))
  BY DEF Add
<1> HIDE DEF kept, sum
<1> QED BY <1>1, <1>4, <1>5, <1>6, <1>7, FormIntro

\* What two operands combine to is a form.
LEMMA FormCombined ==
    ASSUME NEW op \in Operators, NEW v \in Forms, NEW w \in Forms, v.linear, w.linear
    PROVE  Combined(op, v, w) \in Forms
<1>1. v \in Sums /\ w \in Sums /\ v.constant \in Fraction /\ w.constant \in Fraction
  BY FormLinear, FormElim
<1>2. Whole(-1) \in Fraction
  BY WholeType
<1>3. ~IsZero(w.constant) => Inverted(w.constant) \in Fraction
  BY <1>1, InvertedType
<1>4. CASE op = "add"
  BY <1>1, <1>4, SumAdd DEF Combined, Forms
<1>5. CASE op = "sub"
  BY <1>1, <1>2, <1>5, SumAdd, SumMultiply DEF Combined, Forms
<1>6. CASE op = "mul"
  BY <1>1, <1>6, SumMultiply, FormOther DEF Combined, Forms
<1>7. CASE op = "div"
  BY <1>1, <1>3, <1>7, SumMultiply, FormOther DEF Combined, Forms
<1> QED BY <1>4, <1>5, <1>6, <1>7 DEF Operators

\* The recursive definition of Names holds, and gives sets of channels.
LEMMA NamesStep ==
    /\ Names \in [Expressions -> SUBSET Channels]
    /\ \A e \in Expressions : Names[e] =
          CASE e.op = "name" -> {e.name}
            [] e.op = "neg" -> Names[e.arg]
            [] e.op \in Operators -> Names[e.left] \cup Names[e.right]
            [] OTHER -> {}
<1> DEFINE T == SUBSET Channels
<1> DEFINE Body(e, f) ==
          CASE e.op = "name" -> {e.name}
            [] e.op = "neg" -> f[e.arg]
            [] e.op \in Operators -> f[e.left] \cup f[e.right]
            [] OTHER -> {}
<1> DEFINE step == [x \in Expressions \X [Expressions -> T] |-> Body(x[1], x[2])]
<1>1. ASSUME NEW e \in Expressions, NEW f \in [Expressions -> T] PROVE Body(e, f) \in T
  <2>1. Parts(e) \subseteq Expressions
    BY ExpressionsAssumption
  <2> QED BY <2>1, ExpressionsAssumption DEF Parts, Operators
<1>2. step \in [Expressions \X [Expressions -> T] -> T]
  <2> HIDE DEF Body
  <2> QED BY <1>1
<1>3. ASSUME NEW e \in Expressions, NEW f \in [Expressions -> T], NEW g \in [Expressions -> T],
             \A p \in Expressions : Depth[p] < Depth[e] => f[p] = g[p]
      PROVE step[<<e, f>>] = step[<<e, g>>]
  <2>1. \A p \in Parts(e) : f[p] = g[p]
    BY <1>3, DepthIsRank
  <2>2. Body(e, f) = Body(e, g)
    BY <2>1 DEF Parts, Operators
  <2> HIDE DEF Body
  <2> QED BY <2>2
<1>4. PICK f \in [Expressions -> T] : \A e \in Expressions : f[e] = step[<<e, f>>]
  <2> HIDE DEF step, T
  <2>1. IsStep(Expressions, Depth, T, step)
    BY <1>2, <1>3 DEF IsStep, T
  <2>2. Solution(Expressions, T, step)
    BY <2>1, DepthIsRank, Recursion
  <2> QED BY <2>2 DEF Solution
<1>5. f = [e \in Expressions |-> Body(e, f)]
  <2>1. \A e \in Expressions : step[<<e, f>>] = Body(e, f)
    <3> HIDE DEF Body
    <3> QED OBVIOUS
  <2> HIDE DEF step, Body
  <2> QED BY <1>4, <2>1
<1>6. Names = [e \in Expressions |-> Body(e, Names)]
  BY <1>5 DEF Names
<1> DEFINE S == {e \in Expressions : Names[e] \in T}
<1>7. S = Expressions
  <2>1. ASSUME NEW e \in Expressions, Parts(e) \subseteq S PROVE e \in S
    <3>1. Body(e, Names) \in T
      BY <2>1, ExpressionsAssumption DEF Parts, Operators
    <3>2. Names[e] = Body(e, Names)
      <4> HIDE DEF Body
      <4> QED BY <1>6
    <3> QED BY <3>1, <3>2
  <2>2. S \in SUBSET Expressions
    OBVIOUS
  <2> HIDE DEF S
  <2> QED BY <2>1, <2>2, ExpressionInduction
<1>8. Names \in [Expressions -> T]
  <2> HIDE DEF Body, T
  <2> QED BY <1>6, <1>7
<1> QED BY <1>6, <1>8

\* That of Simple.
LEMMA SimpleStep ==
    /\ Simple \in [Expressions -> BOOLEAN]
    /\ \A e \in Expressions : Simple[e] =
          CASE e.op = "name" -> TRUE
            [] e.op = "neg" -> Simple[e.arg]
            [] e.op \in {"add", "sub"} ->
                  (Simple[e.left] /\ Summand(e.right)) \/ (Summand(e.left) /\ Simple[e.right])
            [] e.op = "mul" ->
                  (Simple[e.left] /\ Factor(e.right)) \/ (Factor(e.left) /\ Simple[e.right])
            [] e.op = "div" -> Simple[e.left] /\ Factor(e.right)
            [] OTHER -> FALSE
<1> DEFINE T == BOOLEAN
<1> DEFINE Body(e, f) ==
          CASE e.op = "name" -> TRUE
            [] e.op = "neg" -> f[e.arg]
            [] e.op \in {"add", "sub"} ->
                  (f[e.left] /\ Summand(e.right)) \/ (Summand(e.left) /\ f[e.right])
            [] e.op = "mul" ->
                  (f[e.left] /\ Factor(e.right)) \/ (Factor(e.left) /\ f[e.right])
            [] e.op = "div" -> f[e.left] /\ Factor(e.right)
            [] OTHER -> FALSE
<1> DEFINE step == [x \in Expressions \X [Expressions -> T] |-> Body(x[1], x[2])]
<1>1. ASSUME NEW e \in Expressions, NEW f \in [Expressions -> T] PROVE Body(e, f) \in T
  <2>1. Parts(e) \subseteq Expressions
    BY ExpressionsAssumption
  <2> QED BY <2>1, ExpressionsAssumption DEF Parts, Operators
<1>2. step \in [Expressions \X [Expressions -> T] -> T]
  <2> HIDE DEF Body
  <2> QED BY <1>1
<1>3. ASSUME NEW e \in Expressions, NEW f \in [Expressions -> T], NEW g \in [Expressions -> T],
             \A p \in Expressions : Depth[p] < Depth[e] => f[p] = g[p]
      PROVE step[<<e, f>>] = step[<<e, g>>]
  <2>1. \A p \in Parts(e) : f[p] = g[p]
    BY <1>3, DepthIsRank
  <2>2. Body(e, f) = Body(e, g)
    BY <2>1 DEF Parts, Operators
  <2> HIDE DEF Body
  <2> QED BY <2>2
<1>4. PICK f \in [Expressions -> T] : \A e \in Expressions : f[e] = step[<<e, f>>]
  <2> HIDE DEF step, T
  <2>1. IsStep(Expressions, Depth, T, step)
    BY <1>2, <1>3 DEF IsStep, T
  <2>2. Solution(Expressions, T, step)
    BY <2>1, DepthIsRank, Recursion
  <2> QED BY <2>2 DEF Solution
<1>5. f = [e \in Expressions |-> Body(e, f)]
  <2>1. \A e \in Expressions : step[<<e, f>>] = Body(e, f)
    <3> HIDE DEF Body
    <3> QED OBVIOUS
  <2> HIDE DEF step, Body
  <2> QED BY <1>4, <2>1
<1>6. Simple = [e \in Expressions |-> Body(e, Simple)]
  BY <1>5 DEF Simple
<1> DEFINE S == {e \in Expressions : Simple[e] \in T}
<1>7. S = Expressions
  <2>1. ASSUME NEW e \in Expressions, Parts(e) \subseteq S PROVE e \in S
    <3>1. Body(e, Simple) \in T
      BY <2>1, ExpressionsAssumption DEF Parts, Operators
    <3>2. Simple[e] = Body(e, Simple)
      <4> HIDE DEF Body
      <4> QED BY <1>6
    <3> QED BY <3>1, <3>2
  <2>2. S \in SUBSET Expressions
    OBVIOUS
  <2> HIDE DEF S
  <2> QED BY <2>1, <2>2, ExpressionInduction
<1>8. Simple \in [Expressions -> T]
  <2> HIDE DEF Body, T
  <2> QED BY <1>6, <1>7
<1> QED BY <1>6, <1>8

\* That of Linear.
LEMMA LinearStep ==
    /\ Linear \in [Expressions -> Forms]
    /\ \A e \in Expressions : Linear[e] =
          CASE e.op = "name" -> LinearValue([c \in {e.name} |-> Whole(1)], Whole(0))
            [] e.op = "number" -> LinearValue([c \in {} |-> Whole(0)], Whole(e.value))
            [] e.op = "neg" /\ Linear[e.arg].linear -> MultiplyConstant(Linear[e.arg], Whole(-1))
            [] e.op \in Operators /\ Linear[e.left].linear /\ Linear[e.right].linear ->
                  Combined(e.op, Linear[e.left], Linear[e.right])
            [] OTHER -> NotLinear
<1> DEFINE T == Forms
<1> DEFINE Body(e, f) ==
          CASE e.op = "name" -> LinearValue([c \in {e.name} |-> Whole(1)], Whole(0))
            [] e.op = "number" -> LinearValue([c \in {} |-> Whole(0)], Whole(e.value))
            [] e.op = "neg" /\ f[e.arg].linear -> MultiplyConstant(f[e.arg], Whole(-1))
            [] e.op \in Operators /\ f[e.left].linear /\ f[e.right].linear ->
                  Combined(e.op, f[e.left], f[e.right])
            [] OTHER -> NotLinear
<1> DEFINE step == [x \in Expressions \X [Expressions -> T] |-> Body(x[1], x[2])]
<1>1. ASSUME NEW e \in Expressions, NEW f \in [Expressions -> T] PROVE Body(e, f) \in T
  <2> HIDE DEF T
  <2>1. Parts(e) \subseteq Expressions
    BY ExpressionsAssumption
  <2>2. CASE e.op = "name"
    BY <2>2, FormName, ExpressionsAssumption DEF T, Operators
  <2>3. CASE e.op = "number"
    BY <2>3, FormNumber, ExpressionsAssumption DEF T, Operators
  <2>4. CASE e.op = "neg"
    <3>1. f[e.arg] \in Forms
      BY <2>1, <2>4 DEF Parts, T, Operators
    <3> QED BY <3>1, <2>4, FormMultiply, FormOther, WholeType DEF T, Operators
  <2>5. CASE e.op \in Operators
    <3>1. f[e.left] \in Forms /\ f[e.right] \in Forms
      BY <2>1, <2>5 DEF Parts, T, Operators
    <3> QED BY <3>1, <2>5, FormCombined, FormOther DEF T, Operators
  <2>6. CASE e.op \notin Operators \cup {"name", "number", "neg"}
    BY <2>6, FormOther DEF T
  <2> QED BY <2>2, <2>3, <2>4, <2>5, <2>6
<1>2. step \in [Expressions \X [Expressions -> T] -> T]
  <2> HIDE DEF Body
  <2> QED BY <1>1
<1>3. ASSUME NEW e \in Expressions, NEW f \in [Expressions -> T], NEW g \in [Expressions -> T],
             \A p \in Expressions : Depth[p] < Depth[e] => f[p] = g[p]
      PROVE step[<<e, f>>] = step[<<e, g>>]
  <2>1. \A p \in Parts(e) : f[p] = g[p]
    BY <1>3, DepthIsRank
  <2>2. Body(e, f) = Body(e, g)
    BY <2>1 DEF Parts, Operators
  <2> HIDE DEF Body
  <2> QED BY <2>2
<1>4. PICK f \in [Expressions -> T] : \A e \in Expressions : f[e] = step[<<e, f>>]
  <2> HIDE DEF step, T
  <2>1. IsStep(Expressions, Depth, T, step)
    BY <1>2, <1>3 DEF IsStep, T, Forms
  <2>2. Solution(Expressions, T, step)
    BY <2>1, DepthIsRank, Recursion
  <2> QED BY <2>2 DEF Solution
<1>5. f = [e \in Expressions |-> Body(e, f)]
  <2>1. \A e \in Expressions : step[<<e, f>>] = Body(e, f)
    <3> HIDE DEF Body
    <3> QED OBVIOUS
  <2> HIDE DEF step, Body
  <2> QED BY <1>4, <2>1
<1>6. Linear = [e \in Expressions |-> Body(e, Linear)]
  BY <1>5 DEF Linear
<1> DEFINE S == {e \in Expressions : Linear[e] \in T}
<1>7. S = Expressions
  <2>1. ASSUME NEW e \in Expressions, Parts(e) \subseteq S PROVE e \in S
    <3>1. Body(e, Linear) \in T
      <4> HIDE DEF T
      <4>1. Parts(e) \subseteq S
        BY <2>1
      <4>2. CASE e.op = "name"
        BY <4>2, FormName, ExpressionsAssumption DEF T, Operators
      <4>3. CASE e.op = "number"
        BY <4>3, FormNumber, ExpressionsAssumption DEF T, Operators
      <4>4. CASE e.op = "neg"
        <5>1. Linear[e.arg] \in Forms
          BY <4>1, <4>4 DEF Parts, T, Operators
        <5> QED BY <5>1, <4>4, FormMultiply, FormOther, WholeType DEF T, Operators
      <4>5. CASE e.op \in Operators
        <5>1. Linear[e.left] \in Forms /\ Linear[e.right] \in Forms
          BY <4>1, <4>5 DEF Parts, T, Operators
        <5> QED BY <5>1, <4>5, FormCombined, FormOther DEF T, Operators
      <4>6. CASE e.op \notin Operators \cup {"name", "number", "neg"}
        BY <4>6, FormOther DEF T
      <4> QED BY <4>2, <4>3, <4>4, <4>5, <4>6
    <3>2. Linear[e] = Body(e, Linear)
      <4> HIDE DEF Body
      <4> QED BY <1>6
    <3> QED BY <3>1, <3>2
  <2>2. S \in SUBSET Expressions
    OBVIOUS
  <2> HIDE DEF S
  <2> QED BY <2>1, <2>2, ExpressionInduction
<1>8. Linear \in [Expressions -> T]
  <2> HIDE DEF Body, T
  <2> QED BY <1>6, <1>7
<1> QED BY <1>6, <1>8

\* Operations on sets of fractions give sets of fractions.
LEMMA SetTypes ==
    ASSUME NEW X \in SUBSET Fraction, NEW Y \in SUBSET Fraction
    PROVE  /\ SetPlus(X, Y) \in SUBSET Fraction
           /\ SetTimes(X, Y) \in SUBSET Fraction
           /\ SetNegated(X) \in SUBSET Fraction
           /\ SetInverted(X) \in SUBSET Fraction
<1>1. \A v \in X : \A w \in Y : Plus(v, w) \in Fraction /\ Times(v, w) \in Fraction
  BY PlusType, TimesType
<1>2. \A v \in X : Negated(v) \in Fraction /\ (~IsZero(v) => Inverted(v) \in Fraction)
  BY NegatedType, InvertedType
<1> QED BY <1>1, <1>2 DEF SetPlus, SetTimes, SetNegated, SetInverted

\* That of Denotation.
LEMMA DenotationStep ==
    /\ Denotation \in [Expressions -> [Valuations -> SUBSET Fraction]]
    /\ \A e \in Expressions : Denotation[e] =
          [values \in Valuations |->
              CASE e.op = "name" -> values[e.name]
                [] e.op = "number" -> {Whole(e.value)}
                [] e.op = "neg" -> SetNegated(Denotation[e.arg][values])
                [] e.op = "add" -> SetPlus(Denotation[e.left][values], Denotation[e.right][values])
                [] e.op = "sub" -> SetPlus(Denotation[e.left][values], SetNegated(Denotation[e.right][values]))
                [] e.op = "mul" -> SetTimes(Denotation[e.left][values], Denotation[e.right][values])
                [] e.op = "div" -> SetTimes(Denotation[e.left][values], SetInverted(Denotation[e.right][values]))
                [] OTHER -> {}]
<1> DEFINE T == [Valuations -> SUBSET Fraction]
<1> DEFINE V(e, f, values) ==
          CASE e.op = "name" -> values[e.name]
            [] e.op = "number" -> {Whole(e.value)}
            [] e.op = "neg" -> SetNegated(f[e.arg][values])
            [] e.op = "add" -> SetPlus(f[e.left][values], f[e.right][values])
            [] e.op = "sub" -> SetPlus(f[e.left][values], SetNegated(f[e.right][values]))
            [] e.op = "mul" -> SetTimes(f[e.left][values], f[e.right][values])
            [] e.op = "div" -> SetTimes(f[e.left][values], SetInverted(f[e.right][values]))
            [] OTHER -> {}
<1> DEFINE Body(e, f) == [values \in Valuations |-> V(e, f, values)]
<1> DEFINE step == [x \in Expressions \X [Expressions -> T] |-> Body(x[1], x[2])]
<1>1. ASSUME NEW e \in Expressions, NEW f \in [Expressions -> T] PROVE Body(e, f) \in T
  <2> DEFINE U == SUBSET Fraction
  <2>0. Parts(e) \subseteq Expressions
    BY ExpressionsAssumption
  <2>9. SUFFICES ASSUME NEW values \in Valuations PROVE V(e, f, values) \in U
    OBVIOUS
  <2>2. CASE e.op = "name"
    BY <2>2, <2>9, ExpressionsAssumption DEF U, Valuations, Operators
  <2>3. CASE e.op = "number"
    BY <2>3, WholeType, ExpressionsAssumption DEF U, Operators
  <2>4. CASE e.op = "neg"
    <3>1. f[e.arg][values] \in U
      BY <2>0, <2>4 DEF Parts, Valuations, Operators
    <3> HIDE DEF U
    <3> QED BY <3>1, <2>4, SetTypes DEF U, Operators
  <2>5. CASE e.op \in Operators
    <3>1. f[e.left][values] \in U /\ f[e.right][values] \in U
      BY <2>0, <2>5 DEF Parts, Valuations, Operators
    <3>2. SetNegated(f[e.right][values]) \in U /\ SetInverted(f[e.right][values]) \in U
      BY <3>1, SetTypes
    <3>3. /\ SetPlus(f[e.left][values], f[e.right][values]) \in U
          /\ SetTimes(f[e.left][values], f[e.right][values]) \in U
          /\ SetPlus(f[e.left][values], SetNegated(f[e.right][values])) \in U
          /\ SetTimes(f[e.left][values], SetInverted(f[e.right][values])) \in U
      BY <3>1, <3>2, SetTypes
    <3> HIDE DEF U
    <3> QED BY <3>3, <2>5 DEF Operators
  <2>6. CASE e.op \notin Operators \cup {"name", "number", "neg"}
    BY <2>6 DEF Operators
  <2> QED BY <2>2, <2>3, <2>4, <2>5, <2>6
<1>2. step \in [Expressions \X [Expressions -> T] -> T]
  <2> HIDE DEF Body
  <2> QED BY <1>1
<1>3. ASSUME NEW e \in Expressions, NEW f \in [Expressions -> T], NEW g \in [Expressions -> T],
             \A p \in Expressions : Depth[p] < Depth[e] => f[p] = g[p]
      PROVE step[<<e, f>>] = step[<<e, g>>]
  <2>1. \A p \in Parts(e) : f[p] = g[p]
    BY <1>3, DepthIsRank
  <2>2. Body(e, f) = Body(e, g)
    BY <2>1 DEF Parts, Operators
  <2> HIDE DEF Body
  <2> QED BY <2>2
<1>4. PICK f \in [Expressions -> T] : \A e \in Expressions : f[e] = step[<<e, f>>]
  <2>0. T # {}
    <3>1. [values \in Valuations |-> {}] \in T
      OBVIOUS
    <3> QED BY <3>1
  <2> HIDE DEF step, T
  <2>1. IsStep(Expressions, Depth, T, step)
    BY <1>2, <1>3, <2>0 DEF IsStep
  <2>2. Solution(Expressions, T, step)
    BY <2>1, DepthIsRank, Recursion
  <2> QED BY <2>2 DEF Solution
<1>5. f = [e \in Expressions |-> Body(e, f)]
  <2>1. \A e \in Expressions : step[<<e, f>>] = Body(e, f)
    <3> HIDE DEF Body
    <3> QED OBVIOUS
  <2> HIDE DEF step, Body
  <2> QED BY <1>4, <2>1
<1>6. Denotation = [e \in Expressions |-> Body(e, Denotation)]
  BY <1>5 DEF Denotation
<1> DEFINE S == {e \in Expressions : Denotation[e] \in T}
<1>7. S = Expressions
  <2>1. ASSUME NEW e \in Expressions, Parts(e) \subseteq S PROVE e \in S
    <3>1. Body(e, Denotation) \in T
      <4> DEFINE U == SUBSET Fraction
      <4>0. Parts(e) \subseteq S
        BY <2>1
      <4>9. SUFFICES ASSUME NEW values \in Valuations PROVE V(e, Denotation, values) \in U
        OBVIOUS
      <4>2. CASE e.op = "name"
        BY <4>2, <4>9, ExpressionsAssumption DEF U, Valuations, Operators
      <4>3. CASE e.op = "number"
        BY <4>3, WholeType, ExpressionsAssumption DEF U, Operators
      <4>4. CASE e.op = "neg"
        <5>1. Denotation[e.arg][values] \in U
          BY <4>0, <4>4 DEF Parts, Valuations, Operators
        <5> HIDE DEF U
        <5> QED BY <5>1, <4>4, SetTypes DEF U, Operators
      <4>5. CASE e.op \in Operators
        <5>1. Denotation[e.left][values] \in U /\ Denotation[e.right][values] \in U
          BY <4>0, <4>5 DEF Parts, Valuations, Operators
        <5>2. SetNegated(Denotation[e.right][values]) \in U /\ SetInverted(Denotation[e.right][values]) \in U
          BY <5>1, SetTypes
        <5>3. /\ SetPlus(Denotation[e.left][values], Denotation[e.right][values]) \in U
              /\ SetTimes(Denotation[e.left][values], Denotation[e.right][values]) \in U
              /\ SetPlus(Denotation[e.left][values], SetNegated(Denotation[e.right][values])) \in U
              /\ SetTimes(Denotation[e.left][values], SetInverted(Denotation[e.right][values])) \in U
          BY <5>1, <5>2, SetTypes
        <5> HIDE DEF U
        <5> QED BY <5>3, <4>5 DEF Operators
      <4>6. CASE e.op \notin Operators \cup {"name", "number", "neg"}
        BY <4>6 DEF Operators
      <4> QED BY <4>2, <4>3, <4>4, <4>5, <4>6
    <3>2. Denotation[e] = Body(e, Denotation)
      <4> HIDE DEF Body
      <4> QED BY <1>6
    <3> QED BY <3>1, <3>2
  <2>2. S \in SUBSET Expressions
    OBVIOUS
  <2> HIDE DEF S
  <2> QED BY <2>1, <2>2, ExpressionInduction
<1>8. Denotation \in [Expressions -> T]
  <2> HIDE DEF Body, T
  <2> QED BY <1>6, <1>7
<1> QED BY <1>6, <1>8

\* ValueOf follows the expression.
LEMMA ValueStep ==
    ASSUME NEW values \in Valuations
    PROVE  \A e \in Expressions :
              /\ ValueOf(e, values) \in SUBSET Fraction
              /\ ValueOf(e, values) =
                    CASE e.op = "name" -> values[e.name]
                      [] e.op = "number" -> {Whole(e.value)}
                      [] e.op = "neg" -> SetNegated(ValueOf(e.arg, values))
                      [] e.op = "add" -> SetPlus(ValueOf(e.left, values), ValueOf(e.right, values))
                      [] e.op = "sub" -> SetPlus(ValueOf(e.left, values), SetNegated(ValueOf(e.right, values)))
                      [] e.op = "mul" -> SetTimes(ValueOf(e.left, values), ValueOf(e.right, values))
                      [] e.op = "div" -> SetTimes(ValueOf(e.left, values), SetInverted(ValueOf(e.right, values)))
                      [] OTHER -> {}
<1>1. \A e : ValueOf(e, values) = Denotation[e][values]
  BY DEF ValueOf
<1>2. \A e \in Expressions : Denotation[e] \in [Valuations -> SUBSET Fraction]
  BY DenotationStep
<1>3. ASSUME NEW e \in Expressions
      PROVE  /\ ValueOf(e, values) \in SUBSET Fraction
             /\ ValueOf(e, values) =
                    CASE e.op = "name" -> values[e.name]
                      [] e.op = "number" -> {Whole(e.value)}
                      [] e.op = "neg" -> SetNegated(ValueOf(e.arg, values))
                      [] e.op = "add" -> SetPlus(ValueOf(e.left, values), ValueOf(e.right, values))
                      [] e.op = "sub" -> SetPlus(ValueOf(e.left, values), SetNegated(ValueOf(e.right, values)))
                      [] e.op = "mul" -> SetTimes(ValueOf(e.left, values), ValueOf(e.right, values))
                      [] e.op = "div" -> SetTimes(ValueOf(e.left, values), SetInverted(ValueOf(e.right, values)))
                      [] OTHER -> {}
  <2>1. ValueOf(e, values) \in SUBSET Fraction
    BY <1>1, <1>2
  <2>2. QED
    BY <2>1, <1>1, DenotationStep
<1> QED BY <1>3

------------------------------------------------------------------------------
(* Names and missing values *)

\* An addition brings in no channel.
LEMMA AddDomain ==
    ASSUME NEW v, NEW w
    PROVE  DOMAIN Add(v, w).coefficients \subseteq DOMAIN v.coefficients \cup DOMAIN w.coefficients
  BY DEF Add, LinearValue, Restrict

\* A product with a number keeps the channels.
LEMMA MultiplyDomain ==
    ASSUME NEW v, NEW q
    PROVE  DOMAIN MultiplyConstant(v, q).coefficients = DOMAIN v.coefficients
  BY DEF MultiplyConstant, LinearValue

\* No operator brings in a channel.
LEMMA CombinedDomain ==
    ASSUME NEW op \in Operators, NEW v, NEW w, Combined(op, v, w).linear
    PROVE  DOMAIN Combined(op, v, w).coefficients \subseteq DOMAIN v.coefficients \cup DOMAIN w.coefficients
<1>1. CASE op = "add"
  BY <1>1, AddDomain DEF Combined
<1>2. CASE op = "sub"
  BY <1>2, AddDomain, MultiplyDomain DEF Combined
<1>3. CASE op = "mul"
  BY <1>3, MultiplyDomain DEF Combined, NotLinear
<1>4. CASE op = "div"
  BY <1>4, MultiplyDomain DEF Combined, NotLinear
<1> QED BY <1>1, <1>2, <1>3, <1>4 DEF Operators

\* The channels of the sum are named in the expression.
LEMMA LinearNames ==
    \A e \in Expressions : Linear[e].linear => DOMAIN Linear[e].coefficients \subseteq Names[e]
<1> DEFINE S == {e \in Expressions : Linear[e].linear => DOMAIN Linear[e].coefficients \subseteq Names[e]}
<1>1. ASSUME NEW e \in Expressions, Parts(e) \subseteq S, Linear[e].linear
      PROVE  DOMAIN Linear[e].coefficients \subseteq Names[e]
  <2>2. CASE e.op = "name"
    <3>1. Linear[e] = LinearValue([c \in {e.name} |-> Whole(1)], Whole(0))
      BY <2>2, LinearStep DEF Operators
    <3> QED BY <2>2, <3>1, NamesStep DEF LinearValue, Operators
  <2>3. CASE e.op = "number"
    <3>1. Linear[e] = LinearValue([c \in {} |-> Whole(0)], Whole(e.value))
      BY <2>3, LinearStep DEF Operators
    <3> QED BY <3>1 DEF LinearValue
  <2>4. CASE e.op = "neg"
    <3>1. e.arg \in S
      BY <1>1, <2>4 DEF Parts, Operators
    <3>2. Linear[e.arg].linear /\ Linear[e] = MultiplyConstant(Linear[e.arg], Whole(-1))
      BY <1>1, <2>4, LinearStep, FormOther DEF Operators
    <3>3. Names[e] = Names[e.arg]
      BY <2>4, NamesStep DEF Operators
    <3> QED BY <3>1, <3>2, <3>3, MultiplyDomain
  <2>5. CASE e.op \in Operators
    <3>1. e.left \in S /\ e.right \in S
      BY <1>1, <2>5 DEF Parts, Operators
    <3>2. Linear[e.left].linear /\ Linear[e.right].linear /\ Linear[e] = Combined(e.op, Linear[e.left], Linear[e.right])
      BY <1>1, <2>5, LinearStep, FormOther DEF Operators
    <3>3. Names[e] = Names[e.left] \cup Names[e.right]
      BY <2>5, NamesStep DEF Operators
    <3> QED BY <3>1, <3>2, <3>3, <2>5, <1>1, CombinedDomain
  <2>6. CASE e.op \notin Operators \cup {"name", "number", "neg"}
    BY <1>1, <2>6, LinearStep, FormOther DEF Operators
  <2> QED BY <2>2, <2>3, <2>4, <2>5, <2>6
<1>2. S = Expressions
  <2>1. \A e \in Expressions : Parts(e) \subseteq S => e \in S
    BY <1>1
  <2> HIDE DEF S
  <2> QED BY <2>1, ExpressionInduction DEF S
<1> QED BY <1>2

\* An operand without value leaves none.
LEMMA EmptyOperands ==
    ASSUME NEW X, NEW Y, X = {} \/ Y = {}
    PROVE  /\ SetPlus(X, Y) = {}
           /\ SetTimes(X, Y) = {}
           /\ SetPlus(X, SetNegated(Y)) = {}
           /\ SetTimes(X, SetInverted(Y)) = {}
           /\ X = {} => SetNegated(X) = {}
  BY DEF SetPlus, SetTimes, SetNegated, SetInverted

\* An expression has no value if a channel in it has none.
LEMMA ValueStrict ==
    ASSUME NEW values \in Valuations, NEW d \in Channels, values[d] = {}
    PROVE  \A e \in Expressions : d \in Names[e] => ValueOf(e, values) = {}
<1> DEFINE S == {e \in Expressions : d \in Names[e] => ValueOf(e, values) = {}}
<1>1. ASSUME NEW e \in Expressions, Parts(e) \subseteq S, d \in Names[e]
      PROVE  ValueOf(e, values) = {}
  <2>2. CASE e.op = "name"
    BY <1>1, <2>2, ValueStep, NamesStep DEF Operators
  <2>4. CASE e.op = "neg"
    <3>1. e.arg \in S
      BY <1>1, <2>4 DEF Parts, Operators
    <3>2. d \in Names[e.arg]
      BY <1>1, <2>4, NamesStep DEF Operators
    <3>3. ValueOf(e, values) = SetNegated(ValueOf(e.arg, values))
      BY <2>4, ValueStep
    <3> QED BY <3>1, <3>2, <3>3, EmptyOperands
  <2>5. CASE e.op \in Operators
    <3>1. e.left \in S /\ e.right \in S
      BY <1>1, <2>5 DEF Parts, Operators
    <3>2. d \in Names[e.left] \/ d \in Names[e.right]
      BY <1>1, <2>5, NamesStep DEF Operators
    <3> DEFINE X == ValueOf(e.left, values)
               Y == ValueOf(e.right, values)
    <3>3. X = {} \/ Y = {}
      BY <3>1, <3>2
    <3>4. ValueOf(e, values) \in {SetPlus(X, Y), SetTimes(X, Y), SetPlus(X, SetNegated(Y)), SetTimes(X, SetInverted(Y))}
      BY <2>5, ValueStep DEF Operators
    <3> HIDE DEF X, Y
    <3> QED BY <3>3, <3>4, EmptyOperands
  <2>6. CASE e.op \notin Operators \cup {"name", "neg"}
    BY <1>1, <2>6, NamesStep
  <2> QED BY <2>2, <2>4, <2>5, <2>6
<1>2. S = Expressions
  <2>1. \A e \in Expressions : Parts(e) \subseteq S => e \in S
    BY <1>1
  <2> HIDE DEF S
  <2> QED BY <2>1, ExpressionInduction DEF S
<1> QED BY <1>2

------------------------------------------------------------------------------
(* Expressions without names are constants *)

\* Products commute, and minus one negates.
LEMMA TimesFacts ==
    ASSUME NEW p \in Fraction, NEW q \in Fraction
    PROVE  /\ Times(p, Whole(-1)) = Negated(p)
           /\ Times(p, q) = Times(q, p)
<1>1. p[1] \in Int /\ p[2] \in Int /\ q[1] \in Int /\ q[2] \in Int
  BY DEF Fraction
<1>2. p[1] * q[1] = q[1] * p[1] /\ p[2] * q[2] = q[2] * p[2]
  BY <1>1
<1>3. p[1] * (-1) = -p[1] /\ p[2] * 1 = p[2]
  BY <1>1
<1> QED BY <1>2, <1>3 DEF Times, Whole, Negated

IsConstant(v, q) == v \in Sums /\ DOMAIN v.coefficients = {} /\ v.constant = q

\* A constant times a number is a constant.
LEMMA ConstantMultiply ==
    ASSUME NEW v, NEW p \in Fraction, IsConstant(v, p), NEW q \in Fraction
    PROVE  IsConstant(MultiplyConstant(v, q), Times(p, q))
  BY SumMultiply, MultiplyDomain DEF IsConstant, MultiplyConstant, LinearValue

\* Two constants added are a constant.
LEMMA ConstantAdd ==
    ASSUME NEW v, NEW p \in Fraction, IsConstant(v, p), NEW w, NEW q \in Fraction, IsConstant(w, q)
    PROVE  IsConstant(Add(v, w), Plus(p, q))
<1>1. DOMAIN Add(v, w).coefficients = {}
  BY AddDomain DEF IsConstant
<1>2. Add(v, w).constant = Plus(p, q)
  BY DEF Add, LinearValue, IsConstant
<1> QED BY <1>1, <1>2, SumAdd DEF IsConstant

\* An expression without channels that has a value is read as that constant.
LEMMA ConstantValue ==
    ASSUME NEW values \in Valuations
    PROVE  \A e \in Expressions : Names[e] = {} /\ ValueOf(e, values) # {} =>
              \E q \in Fraction : IsConstant(Linear[e], q) /\ ValueOf(e, values) = {q}
<1> DEFINE P(e) == \E q \in Fraction : IsConstant(Linear[e], q) /\ ValueOf(e, values) = {q}
<1> DEFINE S == {e \in Expressions : Names[e] = {} /\ ValueOf(e, values) # {} => P(e)}
<1>1. ASSUME NEW e \in Expressions, Parts(e) \subseteq S, Names[e] = {}, ValueOf(e, values) # {}
      PROVE  P(e)
  <2>2. CASE e.op = "name"
    BY <1>1, <2>2, NamesStep DEF Operators
  <2>3. CASE e.op = "number"
    <3>1. Linear[e] = LinearValue([c \in {} |-> Whole(0)], Whole(e.value))
      BY <2>3, LinearStep DEF Operators
    <3>2. Whole(e.value) \in Fraction
      BY <2>3, ExpressionsAssumption, WholeType
    <3>3. IsConstant(Linear[e], Whole(e.value))
      <4>1. [c \in {} |-> Whole(0)] \in [{} -> Fraction]
        OBVIOUS
      <4>2. Linear[e] \in Sums
        BY <3>1, <3>2, <4>1, FormIntro
      <4> QED BY <4>2, <3>1 DEF IsConstant, LinearValue
    <3>4. ValueOf(e, values) = {Whole(e.value)}
      BY <2>3, ValueStep
    <3> QED BY <3>2, <3>3, <3>4
  <2>4. CASE e.op = "neg"
    <3>1. e.arg \in S /\ Names[e.arg] = {}
      BY <1>1, <2>4, NamesStep DEF Parts, Operators
    <3>2. ValueOf(e, values) = SetNegated(ValueOf(e.arg, values))
      BY <2>4, ValueStep
    <3>3. ValueOf(e.arg, values) # {}
      BY <1>1, <3>2, EmptyOperands
    <3>4. PICK q \in Fraction : IsConstant(Linear[e.arg], q) /\ ValueOf(e.arg, values) = {q}
      BY <3>1, <3>3
    <3>5. Linear[e.arg].linear
      BY <3>4, FormElim DEF IsConstant
    <3>6. Linear[e] = MultiplyConstant(Linear[e.arg], Whole(-1))
      BY <3>5, <2>4, LinearStep DEF Operators
    <3>7. IsConstant(Linear[e], Negated(q))
      BY <3>4, <3>6, ConstantMultiply, WholeType, TimesFacts
    <3>8. ValueOf(e, values) = {Negated(q)}
      BY <3>2, <3>4 DEF SetNegated
    <3> QED BY <3>7, <3>8, NegatedType
  <2>5. CASE e.op \in Operators
    <3> DEFINE X == ValueOf(e.left, values)
               Y == ValueOf(e.right, values)
               v == Linear[e.left]
               w == Linear[e.right]
    <3>1. e.left \in S /\ e.right \in S /\ Names[e.left] = {} /\ Names[e.right] = {}
      BY <1>1, <2>5, NamesStep DEF Parts, Operators
    <3>2. ValueOf(e, values) \in {SetPlus(X, Y), SetTimes(X, Y), SetPlus(X, SetNegated(Y)), SetTimes(X, SetInverted(Y))}
      BY <2>5, ValueStep DEF Operators
    <3>3. X # {} /\ Y # {}
      <4> HIDE DEF X, Y
      <4> QED BY <1>1, <3>2, EmptyOperands
    <3>4. PICK p \in Fraction : IsConstant(v, p) /\ X = {p}
      BY <3>1, <3>3
    <3>5. PICK q \in Fraction : IsConstant(w, q) /\ Y = {q}
      BY <3>1, <3>3
    <3>6. Linear[e] = Combined(e.op, v, w)
      <4>1. v.linear /\ w.linear
        BY <3>4, <3>5, FormElim DEF IsConstant
      <4> QED BY <4>1, <2>5, LinearStep DEF Operators
    <3>7. ValueOf(e, values) = CASE e.op = "add" -> SetPlus(X, Y) [] e.op = "sub" -> SetPlus(X, SetNegated(Y))
                                 [] e.op = "mul" -> SetTimes(X, Y) [] e.op = "div" -> SetTimes(X, SetInverted(Y))
      BY <2>5, ValueStep DEF Operators
    <3>8. Whole(-1) \in Fraction
      BY WholeType
    <3> HIDE DEF X, Y, v, w
    <3>9. CASE e.op = "add"
      <4>1. Linear[e] = Add(v, w) /\ ValueOf(e, values) = {Plus(p, q)}
        BY <3>4, <3>5, <3>6, <3>7, <3>9 DEF Combined, SetPlus
      <4> QED BY <4>1, <3>4, <3>5, ConstantAdd, PlusType
    <3>10. CASE e.op = "sub"
      <4>1. Linear[e] = Add(v, MultiplyConstant(w, Whole(-1))) /\ ValueOf(e, values) = {Plus(p, Negated(q))}
        BY <3>4, <3>5, <3>6, <3>7, <3>10 DEF Combined, SetPlus, SetNegated
      <4>2. IsConstant(MultiplyConstant(w, Whole(-1)), Negated(q)) /\ Negated(q) \in Fraction
        BY <3>5, <3>8, ConstantMultiply, TimesFacts, NegatedType
      <4> QED BY <4>1, <4>2, <3>4, ConstantAdd, PlusType
    <3>11. CASE e.op = "mul"
      <4>1. Linear[e] = MultiplyConstant(w, p) /\ ValueOf(e, values) = {Times(p, q)}
        BY <3>4, <3>5, <3>6, <3>7, <3>11 DEF Combined, SetTimes, Constants, IsConstant
      <4> QED BY <4>1, <3>4, <3>5, ConstantMultiply, TimesFacts, TimesType
    <3>12. CASE e.op = "div"
      <4>1. ~IsZero(q)
        BY <3>5, <3>7, <3>12, <1>1 DEF SetTimes, SetInverted
      <4>2. Linear[e] = MultiplyConstant(v, Inverted(q)) /\ ValueOf(e, values) = {Times(p, Inverted(q))}
        <5>1. SetInverted(Y) = {Inverted(q)}
          BY <3>5, <4>1 DEF SetInverted
        <5>2. Linear[e] = MultiplyConstant(v, Inverted(q))
          BY <4>1, <3>5, <3>6, <3>12 DEF Combined, Constants, IsConstant
        <5>3. ValueOf(e, values) = {Times(p, Inverted(q))}
          BY <5>1, <3>4, <3>7, <3>12 DEF SetTimes
        <5> QED BY <5>2, <5>3
      <4> QED BY <4>1, <4>2, <3>4, ConstantMultiply, InvertedType, TimesType
    <3> QED BY <2>5, <3>9, <3>10, <3>11, <3>12 DEF Operators
  <2>6. CASE e.op \notin Operators \cup {"name", "number", "neg"}
    BY <1>1, <2>6, ValueStep DEF Operators
  <2> QED BY <2>2, <2>3, <2>4, <2>5, <2>6
<1>2. S = Expressions
  <2>1. \A e \in Expressions : Parts(e) \subseteq S => e \in S
    BY <1>1
  <2> HIDE DEF S, P
  <2> QED BY <2>1, ExpressionInduction DEF S
<1> QED BY <1>2

------------------------------------------------------------------------------
(* Simple formulas keep one channel *)

\* Products and inverses of what is not 0 are not 0.
LEMMA NonZero ==
    ASSUME NEW p \in Fraction, NEW q \in Fraction, ~IsZero(p), ~IsZero(q)
    PROVE  ~IsZero(Times(p, q)) /\ ~IsZero(Inverted(p))
<1>1. p[1] \in Int /\ p[2] \in Int /\ p[2] # 0 /\ q[1] \in Int /\ p[1] # 0 /\ q[1] # 0
  BY DEF Fraction, IsZero
<1>2. p[1] * q[1] # 0
  BY <1>1
<1> QED BY <1>1, <1>2 DEF Times, Inverted, IsZero

\* Adding 0 changes nothing.
LEMMA PlusNothing ==
    ASSUME NEW p \in Fraction
    PROVE  Plus(p, Whole(0)) = p /\ Plus(Whole(0), p) = p
<1>1. p = <<p[1], p[2]>> /\ p[1] \in Int /\ p[2] \in Int
  BY DEF Fraction
<1>2. p[1] * 1 + 0 * p[2] = p[1] /\ 0 * p[2] + p[1] * 1 = p[1] /\ p[2] * 1 = p[2] /\ 1 * p[2] = p[2]
  BY <1>1
<1> QED BY <1>1, <1>2 DEF Plus, Whole

OneTerm(v) ==
    v \in Sums /\ \E c \in Channels : DOMAIN v.coefficients = {c} /\ ~IsZero(v.coefficients[c])

\* One channel times a number other than 0 remains.
LEMMA OneTermMultiply ==
    ASSUME NEW v, OneTerm(v), NEW q \in Fraction, ~IsZero(q)
    PROVE  OneTerm(MultiplyConstant(v, q))
<1>1. PICK c \in Channels : DOMAIN v.coefficients = {c} /\ ~IsZero(v.coefficients[c])
  BY DEF OneTerm
<1>2. v \in Sums /\ v.coefficients[c] \in Fraction
  BY <1>1, FormElim DEF OneTerm
<1>3. MultiplyConstant(v, q).coefficients = [d \in {c} |-> Times(v.coefficients[d], q)]
  BY <1>1 DEF MultiplyConstant, LinearValue
<1>4. ~IsZero(Times(v.coefficients[c], q))
  BY <1>1, <1>2, NonZero
<1> QED BY <1>2, <1>3, <1>4, SumMultiply DEF OneTerm

\* One channel plus a constant remains.
LEMMA OneTermAdd ==
    ASSUME NEW v, OneTerm(v), NEW w, NEW q \in Fraction, IsConstant(w, q)
    PROVE  OneTerm(Add(v, w)) /\ OneTerm(Add(w, v))
<1>1. PICK c \in Channels : DOMAIN v.coefficients = {c} /\ ~IsZero(v.coefficients[c])
  BY DEF OneTerm
<1>2. v \in Sums /\ w \in Sums /\ v.coefficients[c] \in Fraction /\ DOMAIN w.coefficients = {}
  BY <1>1, FormElim DEF OneTerm, IsConstant
<1>3. Plus(v.coefficients[c], Whole(0)) = v.coefficients[c] /\ Plus(Whole(0), v.coefficients[c]) = v.coefficients[c]
  BY <1>2, PlusNothing
<1>4. DOMAIN Add(v, w).coefficients = {c} /\ Add(v, w).coefficients[c] = v.coefficients[c]
  BY <1>1, <1>2, <1>3 DEF Add, LinearValue, Restrict
<1>5. DOMAIN Add(w, v).coefficients = {c} /\ Add(w, v).coefficients[c] = v.coefficients[c]
  BY <1>1, <1>2, <1>3 DEF Add, LinearValue, Restrict
<1>6. Add(v, w) \in Sums /\ Add(w, v) \in Sums
  BY <1>2, SumAdd
<1> QED BY <1>1, <1>4, <1>5, <1>6 DEF OneTerm

\* A summand is read as a constant.
LEMMA SummandValue ==
    ASSUME NEW e \in Expressions, Summand(e)
    PROVE  \E q \in Fraction : IsConstant(Linear[e], q) /\ ValueOf(e, NoValues) = {q}
<1>1. NoValues \in Valuations
  BY DEF NoValues, Valuations
<1> QED BY <1>1, ConstantValue DEF Summand

\* A factor is read as a constant other than 0.
LEMMA FactorValue ==
    ASSUME NEW e \in Expressions, Factor(e)
    PROVE  \E q \in Fraction : IsConstant(Linear[e], q) /\ ~IsZero(q)
<1>1. Summand(e)
  BY DEF Factor, Summand
<1> QED BY <1>1, SummandValue DEF Factor

\* The code reads every simple formula as one channel with a coefficient other than 0.
LEMMA SimpleIsOneTerm ==
    \A e \in Expressions : Simple[e] => OneTerm(Linear[e])
<1> DEFINE S == {e \in Expressions : Simple[e] => OneTerm(Linear[e])}
<1>0. \A v : OneTerm(v) => v.linear /\ ~Constants(v)
  BY FormElim DEF OneTerm, Constants
<1>00. \A v, q : IsConstant(v, q) => v.linear /\ Constants(v) /\ v.constant = q
  BY FormElim DEF IsConstant, Constants
<1>9. Whole(-1) \in Fraction /\ ~IsZero(Whole(-1))
  BY WholeType DEF Whole, IsZero
<1>1. ASSUME NEW e \in Expressions, Parts(e) \subseteq S, Simple[e]
      PROVE  OneTerm(Linear[e])
  <2>2. CASE e.op = "name"
    <3>1. Linear[e] = LinearValue([c \in {e.name} |-> Whole(1)], Whole(0)) /\ Linear[e] \in Forms
      BY <2>2, LinearStep DEF Operators
    <3>2. Linear[e] \in Sums
      BY <3>1, FormLinear DEF LinearValue
    <3>3. ~IsZero(Whole(1)) /\ e.name \in Channels
      BY <2>2, ExpressionsAssumption DEF IsZero, Whole
    <3> QED BY <3>1, <3>2, <3>3 DEF OneTerm, LinearValue
  <2>4. CASE e.op = "neg"
    <3>1. e.arg \in S /\ Simple[e.arg]
      BY <1>1, <2>4, SimpleStep DEF Parts, Operators
    <3>2. Linear[e] = MultiplyConstant(Linear[e.arg], Whole(-1))
      BY <3>1, <1>0, <2>4, LinearStep DEF Operators
    <3> QED BY <3>1, <3>2, <1>9, OneTermMultiply
  <2>5. CASE e.op \in Operators
    <3> DEFINE v == Linear[e.left]
               w == Linear[e.right]
    <3>1. /\ e.left \in S /\ e.left \in Expressions
          /\ e.right \in S /\ e.right \in Expressions
      BY <1>1, <2>5 DEF Parts, Operators
    <3>2. ASSUME v.linear, w.linear PROVE Linear[e] = Combined(e.op, v, w)
      BY <3>2, <2>5, LinearStep DEF Operators
    <3>3. CASE e.op \in {"add", "sub"} /\ Simple[e.left] /\ Summand(e.right)
      <4>1. OneTerm(v)
        BY <3>1, <3>3
      <4>2. PICK q \in Fraction : IsConstant(w, q)
        BY <3>1, <3>3, SummandValue
      <4>3. Linear[e] = Combined(e.op, v, w)
        BY <4>1, <4>2, <1>0, <1>00, <3>2
      <4>4. IsConstant(MultiplyConstant(w, Whole(-1)), Times(q, Whole(-1))) /\ Times(q, Whole(-1)) \in Fraction
        BY <4>2, <1>9, ConstantMultiply, TimesType
      <4> HIDE DEF v, w
      <4>5. Linear[e] = Add(v, w) \/ Linear[e] = Add(v, MultiplyConstant(w, Whole(-1)))
        BY <3>3, <4>3 DEF Combined
      <4> QED BY <4>1, <4>2, <4>4, <4>5, OneTermAdd
    <3>4. CASE e.op \in {"add", "sub"} /\ Summand(e.left) /\ Simple[e.right]
      <4>1. OneTerm(w)
        BY <3>1, <3>4
      <4>2. PICK q \in Fraction : IsConstant(v, q)
        BY <3>1, <3>4, SummandValue
      <4>3. Linear[e] = Combined(e.op, v, w)
        BY <4>1, <4>2, <1>0, <1>00, <3>2
      <4>4. OneTerm(MultiplyConstant(w, Whole(-1)))
        BY <4>1, <1>9, OneTermMultiply
      <4> HIDE DEF v, w
      <4>5. Linear[e] = Add(v, w) \/ Linear[e] = Add(v, MultiplyConstant(w, Whole(-1)))
        BY <3>4, <4>3 DEF Combined
      <4> QED BY <4>1, <4>2, <4>4, <4>5, OneTermAdd
    <3>5. CASE e.op \in {"mul", "div"} /\ Simple[e.left] /\ Factor(e.right)
      <4>1. OneTerm(v)
        BY <3>1, <3>5
      <4>2. PICK q \in Fraction : IsConstant(w, q) /\ ~IsZero(q)
        BY <3>1, <3>5, FactorValue
      <4>3. Linear[e] = Combined(e.op, v, w) /\ ~Constants(v) /\ Constants(w) /\ w.constant = q
        BY <4>1, <4>2, <1>0, <1>00, <3>2
      <4>4. Inverted(q) \in Fraction /\ ~IsZero(Inverted(q))
        BY <4>2, InvertedType, NonZero
      <4> HIDE DEF v, w
      <4>5. Linear[e] = MultiplyConstant(v, q) \/ Linear[e] = MultiplyConstant(v, Inverted(q))
        BY <3>5, <4>3, <4>2 DEF Combined
      <4> QED BY <4>1, <4>2, <4>4, <4>5, OneTermMultiply
    <3>6. CASE e.op = "mul" /\ Factor(e.left) /\ Simple[e.right]
      <4>1. OneTerm(w)
        BY <3>1, <3>6
      <4>2. PICK q \in Fraction : IsConstant(v, q) /\ ~IsZero(q)
        BY <3>1, <3>6, FactorValue
      <4>3. Linear[e] = Combined(e.op, v, w) /\ Constants(v) /\ v.constant = q
        BY <4>1, <4>2, <1>0, <1>00, <3>2
      <4> HIDE DEF v, w
      <4>5. Linear[e] = MultiplyConstant(w, q)
        BY <3>6, <4>3 DEF Combined
      <4> QED BY <4>1, <4>2, <4>5, OneTermMultiply
    <3>7. \/ e.op \in {"add", "sub"} /\ Simple[e.left] /\ Summand(e.right)
          \/ e.op \in {"add", "sub"} /\ Summand(e.left) /\ Simple[e.right]
          \/ e.op \in {"mul", "div"} /\ Simple[e.left] /\ Factor(e.right)
          \/ e.op = "mul" /\ Factor(e.left) /\ Simple[e.right]
      BY <1>1, <2>5, SimpleStep DEF Operators
    <3> QED BY <3>3, <3>4, <3>5, <3>6, <3>7
  <2>6. CASE e.op \notin Operators \cup {"name", "neg"}
    BY <1>1, <2>6, SimpleStep DEF Operators
  <2> QED BY <2>2, <2>4, <2>5, <2>6
<1>2. S = Expressions
  <2>1. \A e \in Expressions : Parts(e) \subseteq S => e \in S
    BY <1>1
  <2> HIDE DEF S
  <2> QED BY <2>1, ExpressionInduction DEF S
<1> QED BY <1>2

------------------------------------------------------------------------------
(* Preprocessor: counting directives *)

\* Nothing is counted in no lines.
LEMMA CountStart ==
    ASSUME NEW t, NEW d, NEW n \in Int
    PROVE  CountOf(t, d, n + 1, n) = 0
<1>1. {k \in (n + 1)..n : t[k].directive = d} = {}
  OBVIOUS
<1> QED BY <1>1, FS_EmptySet DEF CountOf

\* One more line to count in.
LEMMA CountStep ==
    ASSUME NEW t, NEW d, NEW from \in Int, NEW to \in Int, from <= to + 1
    PROVE  /\ CountOf(t, d, from, to) \in Nat
           /\ CountOf(t, d, from, to + 1) =
                 CountOf(t, d, from, to) + (IF t[to + 1].directive = d THEN 1 ELSE 0)
<1> DEFINE A == {k \in from..to : t[k].directive = d}
<1> DEFINE B == {k \in from..(to + 1) : t[k].directive = d}
<1>1. IsFiniteSet(A)
  <2>1. IsFiniteSet(from..to) /\ A \subseteq from..to
    BY FS_Interval
  <2> QED BY <2>1, FS_Subset
<1>2. Cardinality(A) \in Nat
  BY <1>1, FS_CardinalityType
<1>3. B = IF t[to + 1].directive = d THEN A \cup {to + 1} ELSE A
  <2>1. from..(to + 1) = (from..to) \cup {to + 1}
    OBVIOUS
  <2> QED BY <2>1
<1>4. to + 1 \notin A
  OBVIOUS
<1>5. Cardinality(A \cup {to + 1}) = Cardinality(A) + 1
  <2> HIDE DEF A
  <2> QED BY <1>1, <1>4, FS_AddElement
<1>6. CountOf(t, d, from, to) = Cardinality(A) /\ CountOf(t, d, from, to + 1) = Cardinality(B)
  BY DEF CountOf
<1> HIDE DEF A, B
<1> QED BY <1>2, <1>3, <1>5, <1>6

\* The nesting depth after a line, from that before it.
LEMMA LevelStep ==
    ASSUME NEW t, NEW i \in Int, NEW n \in Int, i <= n
    PROVE  /\ Level(t, i, i) = 0
           /\ Level(t, i, n) \in Int
           /\ Level(t, i, n + 1) = Level(t, i, n) +
                (IF t[n + 1].directive = "if" THEN 1 ELSE IF t[n + 1].directive = "endif" THEN -1 ELSE 0)
<1>1. i + 1 <= n + 1
  OBVIOUS
<1>2. /\ CountOf(t, "if", i + 1, n) \in Nat
      /\ CountOf(t, "if", i + 1, n + 1) = CountOf(t, "if", i + 1, n) + (IF t[n + 1].directive = "if" THEN 1 ELSE 0)
  BY <1>1, CountStep
<1>3. /\ CountOf(t, "endif", i + 1, n) \in Nat
      /\ CountOf(t, "endif", i + 1, n + 1) = CountOf(t, "endif", i + 1, n) + (IF t[n + 1].directive = "endif" THEN 1 ELSE 0)
  BY <1>1, CountStep
<1>4. CountOf(t, "if", i + 1, i) = 0 /\ CountOf(t, "endif", i + 1, i) = 0
  BY CountStart
<1> QED BY <1>2, <1>3, <1>4 DEF Level

------------------------------------------------------------------------------
(* The stack of open conditionals *)

Frames == [parent : BOOLEAN, else : BOOLEAN]

\* The branch of the conditional at line i that line n is in counts.
On(t, i, n) ==
    t[i].symbol \in DOMAIN Symbols => (Symbols[t[i].symbol] <=> ~ElseBetween(t, i, n))
Negative(t, i) == t[i].symbol \in DOMAIN Symbols => ~Symbols[t[i].symbol]

\* One more line after an #if.
LEMMA EnclosesStep ==
    ASSUME NEW t, NEW n \in Nat, NEW i \in 1..n
    PROVE  /\ Encloses(t, i, n + 1) <=> Encloses(t, i, n) /\ Level(t, i, n + 1) >= 0
           /\ ElseBetween(t, i, n + 2) <=>
                 ElseBetween(t, i, n + 1) \/ (t[n + 1].directive = "else" /\ Level(t, i, n + 1) = 0)
<1>1. (i + 1)..(n + 1) = ((i + 1)..n) \cup {n + 1}
  OBVIOUS
<1>2. (i + 1)..((n + 2) - 1) = (i + 1)..(n + 1) /\ (i + 1)..((n + 1) - 1) = (i + 1)..n
  OBVIOUS
<1> QED BY <1>1, <1>2 DEF Encloses, ElseBetween

\* The line of the #if itself.
LEMMA EnclosesStart ==
    ASSUME NEW t, NEW n \in Nat
    PROVE  /\ Encloses(t, n, n) <=> t[n].directive = "if"
           /\ ~ElseBetween(t, n, n + 1)
<1>1. (n + 1)..n = {} /\ (n + 1)..((n + 1) - 1) = {}
  OBVIOUS
<1> QED BY <1>1 DEF Encloses, ElseBetween

\* The frames of a stack are those of the conditionals that enclose line n of a
\* text, given by the numbers of their #if lines.
FramesOf(open, t, n, frames, on) ==
    /\ open \in [1..Len(frames) -> 1..(n - 1)]
    /\ \A i \in 1..(n - 1) : Encloses(t, i, n - 1) <=> \E m \in 1..Len(frames) : i = open[m]
    /\ \A m \in 1..Len(frames) : Level(t, open[m], n - 1) = Len(frames) - m
    /\ on <=> \A m \in 1..Len(frames) : On(t, open[m], n)
    /\ \A m \in 1..Len(frames) : frames[m].parent <=> \A k \in 1..(m - 1) : On(t, open[k], n)
    /\ \A m \in 1..Len(frames) : frames[m].else <=> frames[m].parent /\ Negative(t, open[m])

Describes(open) == FramesOf(open, text, line, stack, active)

\* Describes of the next state, as a fact about its values.
LEMMA DescribesNext ==
    ASSUME NEW open, FramesOf(open, text', line', stack', active')
    PROVE  Describes(open)'
  BY DEF Describes, FramesOf

StackType ==
    /\ line \in Nat \ {0}
    /\ stack \in Seq(Frames)
    /\ active \in BOOLEAN

StackInv == StackType /\ \E open : Describes(open)

OutputInv ==
    /\ output \subseteq 1..(line - 1)
    /\ \A j \in 1..(line - 1) :
          text[j].directive = "none" => (j \in output <=> Selected(text, j))

\* A text begins with no conditional open.
LEMMA BeginInv ==
    ASSUME line = 1, stack = <<>>, active = TRUE, output = {}
    PROVE  StackInv /\ OutputInv
<1>1. 1..Len(stack) = {} /\ 1..(line - 1) = {}
  OBVIOUS
<1>2. StackType
  BY DEF StackType
<1>3. Describes([m \in {} |-> 1])
  BY <1>1 DEF Describes, FramesOf
<1>4. OutputInv
  BY <1>1 DEF OutputInv
<1> QED BY <1>2, <1>3, <1>4 DEF StackInv

\* A sequence without its last element.
LEMMA FrontFacts ==
    ASSUME NEW S, NEW s \in Seq(S), s # <<>>
    PROVE  /\ Len(s) \in Nat \ {0}
           /\ s[Len(s)] \in S
           /\ SubSeq(s, 1, Len(s) - 1) \in Seq(S)
           /\ Len(SubSeq(s, 1, Len(s) - 1)) = Len(s) - 1
           /\ \A k \in 1..(Len(s) - 1) : SubSeq(s, 1, Len(s) - 1)[k] = s[k]
<1>1. Len(s) \in Nat \ {0} /\ DOMAIN s = 1..Len(s)
  OBVIOUS
<1>2. \A k \in 1..Len(s) : s[k] \in S
  OBVIOUS
<1>3. SubSeq(s, 1, Len(s) - 1) = [k \in 1..(Len(s) - 1) |-> s[k]]
  BY <1>1
<1>4. [k \in 1..(Len(s) - 1) |-> s[k]] \in [1..(Len(s) - 1) -> S]
  BY <1>1, <1>2
<1> QED BY <1>1, <1>2, <1>3, <1>4

\* SelectLine keeps the types.
LEMMA SelectLineType ==
    ASSUME StackInv, SelectLine
    PROVE  StackType'
<1> USE DEF StackInv, StackType, SelectLine
<1>1. CASE IfLine
  <2>1. active' \in BOOLEAN
    BY <1>1 DEF IfLine
  <2>2. PICK b \in BOOLEAN : stack' = Append(stack, [parent |-> active, else |-> b])
    BY <1>1 DEF IfLine
  <2> QED BY <2>1, <2>2 DEF Frames
<1>2. CASE ElseLine
  BY <1>2 DEF ElseLine
<1>3. CASE EndifLine
  <2>1. stack[Len(stack)] \in Frames /\ SubSeq(stack, 1, Len(stack) - 1) \in Seq(Frames)
    BY <1>3, FrontFacts DEF EndifLine
  <2>2. active' = stack[Len(stack)].parent /\ stack' = SubSeq(stack, 1, Len(stack) - 1)
    BY <1>3 DEF EndifLine, Innermost, Outer
  <2>3. active' \in BOOLEAN
    BY <2>1, <2>2 DEF Frames
  <2> QED BY <2>1, <2>2, <2>3
<1>4. CASE OtherLine
  BY <1>4 DEF OtherLine
<1> QED BY <1>1, <1>2, <1>3, <1>4

------------------------------------------------------------------------------
(* What a line does to it *)

\* What line n does to the conditionals opened before it.
LEMMA LineFacts ==
    ASSUME NEW t, NEW n \in Nat \ {0}
    PROVE  /\ \A i \in 1..(n - 1) :
                /\ Level(t, i, n - 1) \in Int
                /\ Level(t, i, n) = Level(t, i, n - 1) +
                     (IF t[n].directive = "if" THEN 1 ELSE IF t[n].directive = "endif" THEN -1 ELSE 0)
                /\ Encloses(t, i, n) <=> Encloses(t, i, n - 1) /\ Level(t, i, n) >= 0
                /\ t[n].directive # "else" \/ Level(t, i, n) # 0 => (On(t, i, n + 1) <=> On(t, i, n))
                /\ t[n].directive = "else" /\ Level(t, i, n) = 0 => (On(t, i, n + 1) <=> Negative(t, i))
           /\ Encloses(t, n, n) <=> t[n].directive = "if"
           /\ On(t, n, n + 1) <=> (t[n].symbol \in DOMAIN Symbols => Symbols[t[n].symbol])
           /\ Level(t, n, n) = 0
<1>1. ASSUME NEW i \in 1..(n - 1)
      PROVE  /\ Level(t, i, n - 1) \in Int
             /\ Level(t, i, n) = Level(t, i, n - 1) +
                     (IF t[n].directive = "if" THEN 1 ELSE IF t[n].directive = "endif" THEN -1 ELSE 0)
             /\ Encloses(t, i, n) <=> Encloses(t, i, n - 1) /\ Level(t, i, n) >= 0
             /\ ElseBetween(t, i, n + 1) <=>
                     ElseBetween(t, i, n) \/ (t[n].directive = "else" /\ Level(t, i, n) = 0)
  <2>1. (n - 1) + 1 = n /\ (n - 1) + 2 = n + 1 /\ n - 1 \in Nat
    OBVIOUS
  <2>2. Level(t, i, n - 1) \in Int /\ Level(t, i, (n - 1) + 1) = Level(t, i, n - 1) +
                     (IF t[(n - 1) + 1].directive = "if" THEN 1 ELSE IF t[(n - 1) + 1].directive = "endif" THEN -1 ELSE 0)
    BY LevelStep
  <2>3. /\ Encloses(t, i, (n - 1) + 1) <=> Encloses(t, i, n - 1) /\ Level(t, i, (n - 1) + 1) >= 0
        /\ ElseBetween(t, i, (n - 1) + 2) <=> ElseBetween(t, i, (n - 1) + 1)
              \/ (t[(n - 1) + 1].directive = "else" /\ Level(t, i, (n - 1) + 1) = 0)
    BY <2>1, EnclosesStep
  <2> QED BY <2>1, <2>2, <2>3
<1>2. /\ Encloses(t, n, n) <=> t[n].directive = "if"
      /\ ~ElseBetween(t, n, n + 1)
  BY EnclosesStart
<1>3. Level(t, n, n) = 0
  BY LevelStep
<1>4. \A i \in 1..(n - 1) :
                /\ t[n].directive # "else" \/ Level(t, i, n) # 0 => (On(t, i, n + 1) <=> On(t, i, n))
                /\ t[n].directive = "else" /\ Level(t, i, n) = 0 => (On(t, i, n + 1) <=> Negative(t, i))
  <2> SUFFICES ASSUME NEW i \in 1..(n - 1)
               PROVE  /\ t[n].directive # "else" \/ Level(t, i, n) # 0 => (On(t, i, n + 1) <=> On(t, i, n))
                      /\ t[n].directive = "else" /\ Level(t, i, n) = 0 => (On(t, i, n + 1) <=> Negative(t, i))
    OBVIOUS
  <2> DEFINE s == t[i].symbol
  <2>1. s \in DOMAIN Symbols => Symbols[s] \in BOOLEAN
    BY SymbolsAssumption
  <2>2. ElseBetween(t, i, n + 1) <=> ElseBetween(t, i, n) \/ (t[n].directive = "else" /\ Level(t, i, n) = 0)
    BY <1>1
  <2> QED BY <2>1, <2>2, Zenon DEF On, Negative
<1>5. On(t, n, n + 1) <=> (t[n].symbol \in DOMAIN Symbols => Symbols[t[n].symbol])
  <2>1. t[n].symbol \in DOMAIN Symbols => Symbols[t[n].symbol] \in BOOLEAN
    BY SymbolsAssumption
  <2> QED BY <1>2, <2>1, Zenon DEF On
<1> QED BY <1>1, <1>2, <1>3, <1>4, <1>5

\* #if opens one more.
LEMMA DescribesIf ==
    ASSUME StackType, StackType', SelectLine, IfLine, NEW open, Describes(open)
    PROVE  StackInv'
<1> DEFINE len == Len(stack)
<1>1. /\ line' = line + 1 /\ text' = text /\ text[line].directive = "if"
      /\ line \in Nat \ {0} /\ len \in Nat
      /\ active \in BOOLEAN /\ active' \in BOOLEAN
  BY DEF SelectLine, IfLine, StackType, Directive
<1>2. PICK b \in BOOLEAN :
          /\ b <=> active /\ Negative(text, line)
          /\ stack' = Append(stack, [parent |-> active, else |-> b])
  BY <1>1 DEF IfLine, Negative
<1>3. active' <=> active /\ On(text, line, line + 1)
  <2>1. active' <=> active /\ (text[line].symbol \in DOMAIN Symbols => Symbols[text[line].symbol])
    BY <1>1, Zenon DEF IfLine
  <2> QED BY <2>1, <1>1, LineFacts
<1>4. /\ Len(stack') = len + 1
      /\ \A m \in 1..len : stack'[m] = stack[m]
      /\ stack'[len + 1] = [parent |-> active, else |-> b]
  BY <1>2, <1>1 DEF StackType
<1>5. /\ open \in [1..len -> 1..(line - 1)]
      /\ \A i \in 1..(line - 1) : Encloses(text, i, line - 1) <=> \E m \in 1..len : i = open[m]
      /\ \A m \in 1..len : Level(text, open[m], line - 1) = len - m
      /\ active <=> \A m \in 1..len : On(text, open[m], line)
      /\ \A m \in 1..len : stack[m].parent <=> \A n \in 1..(m - 1) : On(text, open[n], line)
      /\ \A m \in 1..len : stack[m].else <=> stack[m].parent /\ Negative(text, open[m])
  BY DEF Describes, FramesOf
<1>6. PICK more \in [1..(len + 1) -> 1..line] :
          /\ \A m \in 1..len : more[m] = open[m] /\ open[m] \in 1..(line - 1)
          /\ more[len + 1] = line
  <2> DEFINE o == [m \in 1..(len + 1) |-> IF m <= len THEN open[m] ELSE line]
  <2>1. \A m \in 1..len : open[m] \in 1..(line - 1) /\ open[m] \in 1..line
    BY <1>5, <1>1
  <2>2. o \in [1..(len + 1) -> 1..line] /\ \A m \in 1..len : o[m] = open[m]
    BY <2>1, <1>1
  <2>3. o[len + 1] = line
    BY <1>1
  <2> HIDE DEF o
  <2> QED BY <2>1, <2>2, <2>3
<1>7. ASSUME NEW i \in 1..line PROVE Encloses(text, i, line) <=> \E m \in 1..(len + 1) : i = more[m]
  <2>1. CASE i = line
    BY <2>1, <1>1, <1>6, LineFacts
  <2>2. CASE i # line
    <3>1. i \in 1..(line - 1)
      BY <2>2, <1>1
    <3>2. Encloses(text, i, line) <=> Encloses(text, i, line - 1) /\ Level(text, i, line - 1) + 1 >= 0
      BY <3>1, <1>1, LineFacts
    <3>3. Encloses(text, i, line - 1) => Level(text, i, line - 1) + 1 >= 0
      BY <3>1, <1>5, <1>1
    <3>4. (\E m \in 1..len : i = open[m]) <=> \E m \in 1..(len + 1) : i = more[m]
      <4>1. ASSUME NEW m \in 1..(len + 1), i = more[m] PROVE m \in 1..len /\ i = open[m]
        BY <4>1, <3>1, <1>6, <1>1
      <4>2. ASSUME NEW m \in 1..len, i = open[m] PROVE m \in 1..(len + 1) /\ i = more[m]
        BY <4>2, <1>6, <1>1
      <4> HIDE DEF len
      <4> QED BY <4>1, <4>2
    <3>5. Encloses(text, i, line - 1) <=> \E m \in 1..len : i = open[m]
      BY <3>1, <1>5
    <3> QED BY <3>2, <3>3, <3>4, <3>5
  <2> QED BY <2>1, <2>2
<1>8. ASSUME NEW m \in 1..(len + 1) PROVE Level(text, more[m], line) = len + 1 - m
  <2>1. CASE m = len + 1
    BY <2>1, <1>1, <1>6, LineFacts
  <2>2. CASE m \in 1..len
    <3>1. Level(text, open[m], line) = Level(text, open[m], line - 1) + 1
      BY <2>2, <1>1, <1>6, LineFacts
    <3>2. Level(text, open[m], line - 1) = len - m /\ more[m] = open[m]
      BY <2>2, <1>5, <1>6
    <3> QED BY <3>1, <3>2, <2>2, <1>1
  <2> QED BY <2>1, <2>2, <1>1
<1>9. \A m \in 1..len : On(text, open[m], line + 1) <=> On(text, open[m], line)
  BY <1>1, <1>6, LineFacts
<1>10. active' <=> \A m \in 1..(len + 1) : On(text, more[m], line + 1)
  <2>1. (\A m \in 1..(len + 1) : On(text, more[m], line + 1)) <=>
           /\ \A m \in 1..len : On(text, more[m], line + 1)
           /\ On(text, more[len + 1], line + 1)
    BY <1>1
  <2>2. (\A m \in 1..len : On(text, more[m], line + 1)) <=> active
    BY <1>5, <1>6, <1>9
  <2> QED BY <1>3, <1>6, <2>1, <2>2
<1>11. \A m \in 1..(len + 1) : stack'[m].parent <=> \A n \in 1..(m - 1) : On(text, more[n], line + 1)
  <2> SUFFICES ASSUME NEW m \in 1..(len + 1)
               PROVE  stack'[m].parent <=> \A n \in 1..(m - 1) : On(text, more[n], line + 1)
    OBVIOUS
  <2>1. \A n \in 1..(m - 1) : n \in 1..len /\ (On(text, more[n], line + 1) <=> On(text, open[n], line))
    BY <1>6, <1>9, <1>1
  <2>2. CASE m \in 1..len
    BY <2>1, <2>2, <1>4, <1>5
  <2>3. CASE m = len + 1
    <3>1. stack'[m].parent = active /\ m - 1 = len
      BY <2>3, <1>4, <1>1
    <3> QED BY <3>1, <2>1, <1>5, <1>1
  <2> QED BY <2>2, <2>3, <1>1
<1>12. \A m \in 1..(len + 1) : stack'[m].else <=> stack'[m].parent /\ Negative(text, more[m])
  <2> SUFFICES ASSUME NEW m \in 1..(len + 1)
               PROVE  stack'[m].else <=> stack'[m].parent /\ Negative(text, more[m])
    OBVIOUS
  <2>2. CASE m \in 1..len
    BY <2>2, <1>4, <1>5, <1>6
  <2>3. CASE m = len + 1
    <3>1. stack'[m].parent = active /\ stack'[m].else = b
      BY <2>3, <1>4
    <3> QED BY <3>1, <2>3, <1>2, <1>6
  <2> QED BY <2>2, <2>3, <1>1
<1>13. Describes(more)'
  <2>1. line' - 1 = line
    BY <1>1
  <2>2. more \in [1..Len(stack') -> 1..(line' - 1)]
    BY <2>1, <1>4, <1>6
  <2>3. \A i \in 1..(line' - 1) : Encloses(text', i, line' - 1) <=> \E m \in 1..Len(stack') : i = more[m]
    BY <2>1, <1>1, <1>4, <1>7
  <2>4. \A m \in 1..Len(stack') : Level(text', more[m], line' - 1) = Len(stack') - m
    BY <2>1, <1>1, <1>4, <1>8
  <2>5. active' <=> \A m \in 1..Len(stack') : On(text', more[m], line')
    BY <1>1, <1>4, <1>10
  <2>6. \A m \in 1..Len(stack') : stack'[m].parent <=> \A n \in 1..(m - 1) : On(text', more[n], line')
    BY <1>1, <1>4, <1>11
  <2>7. \A m \in 1..Len(stack') : stack'[m].else <=> stack'[m].parent /\ Negative(text', more[m])
    BY <1>1, <1>4, <1>12
  <2>8. FramesOf(more, text', line', stack', active')
    BY <2>2, <2>3, <2>4, <2>5, <2>6, <2>7 DEF FramesOf
  <2> QED BY <2>8, DescribesNext
<1> QED BY <1>13 DEF StackInv

\* #else turns the innermost to its other branch.
LEMMA DescribesElse ==
    ASSUME StackType, StackType', SelectLine, ElseLine, NEW open, Describes(open)
    PROVE  StackInv'
<1> DEFINE len == Len(stack)
<1>1. /\ line' = line + 1 /\ text' = text /\ text[line].directive = "else" /\ stack' = stack
      /\ line \in Nat \ {0} /\ len \in Nat \ {0}
      /\ active \in BOOLEAN /\ active' \in BOOLEAN
      /\ stack[len].parent \in BOOLEAN /\ stack[len].else \in BOOLEAN
      /\ active' = (stack[len].parent /\ stack[len].else)
  <2>1. stack # <<>> /\ stack \in Seq(Frames)
    BY DEF ElseLine, StackType
  <2>2. stack[len] \in Frames /\ len \in Nat \ {0}
    BY <2>1, FrontFacts
  <2> QED BY <2>2 DEF SelectLine, ElseLine, StackType, Directive, Innermost, Frames
<1>5. /\ open \in [1..len -> 1..(line - 1)]
      /\ \A i \in 1..(line - 1) : Encloses(text, i, line - 1) <=> \E m \in 1..len : i = open[m]
      /\ \A m \in 1..len : Level(text, open[m], line - 1) = len - m
      /\ active <=> \A m \in 1..len : On(text, open[m], line)
      /\ \A m \in 1..len : stack[m].parent <=> \A k \in 1..(m - 1) : On(text, open[k], line)
      /\ \A m \in 1..len : stack[m].else <=> stack[m].parent /\ Negative(text, open[m])
  BY DEF Describes, FramesOf
<1> HIDE DEF len
<1>6. \A m \in 1..len : open[m] \in 1..(line - 1) /\ open[m] \in 1..line
  BY <1>1, <1>5
<1>7. ASSUME NEW i \in 1..line PROVE Encloses(text, i, line) <=> \E m \in 1..len : i = open[m]
  <2>1. CASE i = line
    BY <2>1, <1>1, <1>6, LineFacts
  <2>2. CASE i # line
    <3>1. i \in 1..(line - 1)
      BY <2>2, <1>1
    <3>2. Encloses(text, i, line) <=> Encloses(text, i, line - 1) /\ Level(text, i, line - 1) >= 0
      BY <3>1, <1>1, LineFacts
    <3>3. Encloses(text, i, line - 1) => Level(text, i, line - 1) >= 0
      BY <3>1, <1>5, <1>1
    <3>5. Encloses(text, i, line - 1) <=> \E m \in 1..len : i = open[m]
      BY <3>1, <1>5
    <3> QED BY <3>2, <3>3, <3>5
  <2> QED BY <2>1, <2>2
<1>8. \A m \in 1..len : Level(text, open[m], line) = len - m
  <2> SUFFICES ASSUME NEW m \in 1..len PROVE Level(text, open[m], line) = len - m
    OBVIOUS
  <2>1. Level(text, open[m], line) = Level(text, open[m], line - 1)
    BY <1>1, <1>6, LineFacts
  <2> QED BY <2>1, <1>5
<1>9. \A m \in 1..(len - 1) : On(text, open[m], line + 1) <=> On(text, open[m], line)
  <2> SUFFICES ASSUME NEW m \in 1..(len - 1) PROVE On(text, open[m], line + 1) <=> On(text, open[m], line)
    OBVIOUS
  <2>1. m \in 1..len /\ Level(text, open[m], line) # 0
    BY <1>1, <1>8
  <2> QED BY <2>1, <1>1, <1>6, LineFacts
<1>10. On(text, open[len], line + 1) <=> Negative(text, open[len])
  <2>1. len \in 1..len /\ Level(text, open[len], line) = 0
    BY <1>1, <1>8
  <2> QED BY <2>1, <1>1, <1>6, LineFacts
<1>11. active' <=> \A m \in 1..len : On(text, open[m], line + 1)
  <2>1. (\A m \in 1..len : On(text, open[m], line + 1)) <=>
           /\ \A m \in 1..(len - 1) : On(text, open[m], line + 1)
           /\ On(text, open[len], line + 1)
    BY <1>1
  <2>3. len \in 1..len
    BY <1>1
  <2>5. stack[len].parent <=> \A k \in 1..(len - 1) : On(text, open[k], line)
    BY <2>3, <1>5
  <2>2. (\A m \in 1..(len - 1) : On(text, open[m], line + 1)) <=> stack[len].parent
    BY <2>5, <1>9
  <2>4. stack[len].else <=> stack[len].parent /\ Negative(text, open[len])
    BY <2>3, <1>5
  <2> QED BY <1>1, <1>10, <2>1, <2>2, <2>4
<1>12. \A m \in 1..len : stack[m].parent <=> \A k \in 1..(m - 1) : On(text, open[k], line + 1)
  <2> SUFFICES ASSUME NEW m \in 1..len
               PROVE  stack[m].parent <=> \A k \in 1..(m - 1) : On(text, open[k], line + 1)
    OBVIOUS
  <2>1. \A k \in 1..(m - 1) : k \in 1..(len - 1)
    BY <1>1
  <2> QED BY <2>1, <1>5, <1>9
<1>13. FramesOf(open, text', line', stack', active')
  <2>1. line' - 1 = line
    BY <1>1
  <2>2. open \in [1..len -> 1..line]
    BY <1>5, <1>6
  <2> QED BY <2>1, <2>2, <1>1, <1>5, <1>7, <1>8, <1>11, <1>12 DEF FramesOf, len
<1> QED BY <1>13, DescribesNext DEF StackInv

\* #endif closes the innermost.
LEMMA DescribesEndif ==
    ASSUME StackType, StackType', SelectLine, EndifLine, NEW open, Describes(open)
    PROVE  StackInv'
<1> DEFINE len == Len(stack)
<1>1. /\ line' = line + 1 /\ text' = text /\ text[line].directive = "endif"
      /\ line \in Nat \ {0} /\ len \in Nat \ {0}
      /\ active \in BOOLEAN /\ active' \in BOOLEAN
      /\ active' = stack[len].parent
      /\ Len(stack') = len - 1
      /\ \A m \in 1..(len - 1) : stack'[m] = stack[m]
  <2>1. stack # <<>> /\ stack \in Seq(Frames)
    BY DEF EndifLine, StackType
  <2>2. len \in Nat \ {0} /\ Len(Outer) = len - 1 /\ \A m \in 1..(len - 1) : Outer[m] = stack[m]
    BY <2>1, FrontFacts DEF Outer
  <2> QED BY <2>2 DEF SelectLine, EndifLine, StackType, Directive, Innermost
<1>5. /\ open \in [1..len -> 1..(line - 1)]
      /\ \A i \in 1..(line - 1) : Encloses(text, i, line - 1) <=> \E m \in 1..len : i = open[m]
      /\ \A m \in 1..len : Level(text, open[m], line - 1) = len - m
      /\ active <=> \A m \in 1..len : On(text, open[m], line)
      /\ \A m \in 1..len : stack[m].parent <=> \A k \in 1..(m - 1) : On(text, open[k], line)
      /\ \A m \in 1..len : stack[m].else <=> stack[m].parent /\ Negative(text, open[m])
  BY DEF Describes, FramesOf
<1> HIDE DEF len
<1>6. \A m \in 1..len : open[m] \in 1..(line - 1) /\ open[m] \in 1..line
  BY <1>1, <1>5
<1>60. PICK less \in [1..(len - 1) -> 1..line] : \A m \in 1..(len - 1) : m \in 1..len /\ less[m] = open[m]
  <2> DEFINE o == [m \in 1..(len - 1) |-> open[m]]
  <2>1. \A m \in 1..(len - 1) : m \in 1..len
    BY <1>1
  <2>2. o \in [1..(len - 1) -> 1..line] /\ \A m \in 1..(len - 1) : m \in 1..len /\ o[m] = open[m]
    BY <2>1, <1>6
  <2> HIDE DEF o
  <2> QED BY <2>2
<1>7. ASSUME NEW i \in 1..line PROVE Encloses(text, i, line) <=> \E m \in 1..(len - 1) : i = less[m]
  <2>1. CASE i = line
    <3>1. \A m \in 1..(len - 1) : less[m] # line
      BY <1>60, <1>6, <1>1
    <3> QED BY <2>1, <3>1, <1>1, LineFacts
  <2>2. CASE i # line
    <3>1. i \in 1..(line - 1)
      BY <2>2, <1>1
    <3>2. Encloses(text, i, line) <=> Encloses(text, i, line - 1) /\ Level(text, i, line - 1) - 1 >= 0
      <4>1. Level(text, i, line) = Level(text, i, line - 1) - 1
        BY <3>1, <1>1, LineFacts
      <4> QED BY <3>1, <4>1, <1>1, LineFacts
    <3>3. Encloses(text, i, line - 1) <=> \E m \in 1..len : i = open[m]
      BY <3>1, <1>5
    <3>4. ASSUME NEW m \in 1..len, i = open[m] PROVE Level(text, i, line - 1) - 1 >= 0 <=> m \in 1..(len - 1)
      BY <3>4, <1>5, <1>1
    <3> QED BY <3>2, <3>3, <3>4, <1>60
  <2> QED BY <2>1, <2>2
<1>8. \A m \in 1..(len - 1) : Level(text, less[m], line) = len - 1 - m
  <2> SUFFICES ASSUME NEW m \in 1..(len - 1) PROVE Level(text, less[m], line) = len - 1 - m
    OBVIOUS
  <2>1. m \in 1..len /\ less[m] = open[m] /\ open[m] \in 1..(line - 1)
    BY <1>60, <1>6
  <2>2. Level(text, open[m], line) = Level(text, open[m], line - 1) - 1
    BY <2>1, <1>1, LineFacts
  <2>3. Level(text, open[m], line - 1) = len - m
    BY <2>1, <1>5
  <2> QED BY <2>1, <2>2, <2>3, <1>1
<1>9. \A m \in 1..(len - 1) : On(text, less[m], line + 1) <=> On(text, open[m], line)
  <2> SUFFICES ASSUME NEW m \in 1..(len - 1) PROVE On(text, less[m], line + 1) <=> On(text, open[m], line)
    OBVIOUS
  <2>1. less[m] = open[m] /\ open[m] \in 1..(line - 1)
    BY <1>60, <1>6
  <2> QED BY <2>1, <1>1, LineFacts
<1>11. active' <=> \A m \in 1..(len - 1) : On(text, less[m], line + 1)
  <2>1. len \in 1..len
    BY <1>1
  <2>2. stack[len].parent <=> \A k \in 1..(len - 1) : On(text, open[k], line)
    BY <2>1, <1>5
  <2> QED BY <2>2, <1>1, <1>9
<1>12. \A m \in 1..(len - 1) : stack'[m].parent <=> \A k \in 1..(m - 1) : On(text, less[k], line + 1)
  <2> SUFFICES ASSUME NEW m \in 1..(len - 1)
               PROVE  stack'[m].parent <=> \A k \in 1..(m - 1) : On(text, less[k], line + 1)
    OBVIOUS
  <2>1. \A k \in 1..(m - 1) : k \in 1..(len - 1)
    BY <1>1
  <2>2. m \in 1..len /\ stack'[m] = stack[m]
    BY <1>1, <1>60
  <2>3. stack[m].parent <=> \A k \in 1..(m - 1) : On(text, open[k], line)
    BY <2>2, <1>5
  <2> QED BY <2>1, <2>2, <2>3, <1>9
<1>14. \A m \in 1..(len - 1) : stack'[m].else <=> stack'[m].parent /\ Negative(text, less[m])
  BY <1>1, <1>5, <1>60
<1>13. FramesOf(less, text', line', stack', active')
  <2>1. line' - 1 = line
    BY <1>1
  <2> QED BY <2>1, <1>1, <1>60, <1>7, <1>8, <1>11, <1>12, <1>14 DEF FramesOf
<1> QED BY <1>13, DescribesNext DEF StackInv

\* Any other line leaves them, and is active exactly when it is selected.
LEMMA DescribesOther ==
    ASSUME StackType, StackType', SelectLine, OtherLine, NEW open, Describes(open)
    PROVE  /\ StackInv'
           /\ text[line].directive = "none" => (active <=> Selected(text, line))
<1> DEFINE len == Len(stack)
<1>1. /\ line' = line + 1 /\ text' = text /\ text[line].directive # "if"
      /\ text[line].directive \in {"else", "endif"} => len = 0
      /\ line \in Nat \ {0} /\ len \in Nat
      /\ stack' = stack /\ active' = active
  BY DEF SelectLine, OtherLine, StackType, Directive
<1>5. /\ open \in [1..len -> 1..(line - 1)]
      /\ \A i \in 1..(line - 1) : Encloses(text, i, line - 1) <=> \E m \in 1..len : i = open[m]
      /\ \A m \in 1..len : Level(text, open[m], line - 1) = len - m
      /\ active <=> \A m \in 1..len : On(text, open[m], line)
      /\ \A m \in 1..len : stack[m].parent <=> \A k \in 1..(m - 1) : On(text, open[k], line)
      /\ \A m \in 1..len : stack[m].else <=> stack[m].parent /\ Negative(text, open[m])
  BY DEF Describes, FramesOf
<1> HIDE DEF len
<1>6. \A m \in 1..len : /\ open[m] \in 1..(line - 1) /\ open[m] \in 1..line
                        /\ text[line].directive \notin {"if", "else", "endif"}
  BY <1>1, <1>5
<1>7. ASSUME NEW i \in 1..line PROVE Encloses(text, i, line) <=> \E m \in 1..len : i = open[m]
  <2>1. CASE i = line
    BY <2>1, <1>1, <1>6, LineFacts
  <2>2. CASE i # line
    <3>1. i \in 1..(line - 1)
      BY <2>2, <1>1
    <3>2. Encloses(text, i, line) <=> Encloses(text, i, line - 1) /\ Level(text, i, line) >= 0
      BY <3>1, <1>1, LineFacts
    <3>3. ASSUME NEW m \in 1..len, i = open[m] PROVE Level(text, i, line) >= 0
      <4>1. Level(text, i, line) = Level(text, i, line - 1)
        BY <3>1, <3>3, <1>1, <1>6, LineFacts
      <4> QED BY <4>1, <3>3, <1>5, <1>1
    <3>5. Encloses(text, i, line - 1) <=> \E m \in 1..len : i = open[m]
      BY <3>1, <1>5
    <3> QED BY <3>2, <3>3, <3>5
  <2> QED BY <2>1, <2>2
<1>8. \A m \in 1..len : Level(text, open[m], line) = len - m
  <2> SUFFICES ASSUME NEW m \in 1..len PROVE Level(text, open[m], line) = len - m
    OBVIOUS
  <2>1. Level(text, open[m], line) = Level(text, open[m], line - 1)
    BY <1>1, <1>6, LineFacts
  <2> QED BY <2>1, <1>5
<1>9. \A m \in 1..len : On(text, open[m], line + 1) <=> On(text, open[m], line)
  BY <1>1, <1>6, LineFacts
<1>11. active' <=> \A m \in 1..len : On(text, open[m], line + 1)
  BY <1>1, <1>5, <1>9
<1>12. \A m \in 1..len : stack[m].parent <=> \A k \in 1..(m - 1) : On(text, open[k], line + 1)
  <2> SUFFICES ASSUME NEW m \in 1..len
               PROVE  stack[m].parent <=> \A k \in 1..(m - 1) : On(text, open[k], line + 1)
    OBVIOUS
  <2>1. \A k \in 1..(m - 1) : k \in 1..len
    BY <1>1
  <2> QED BY <2>1, <1>5, <1>9
<1>13. FramesOf(open, text', line', stack', active')
  <2>1. line' - 1 = line
    BY <1>1
  <2>2. open \in [1..len -> 1..line]
    BY <1>5, <1>6
  <2> QED BY <2>1, <2>2, <1>1, <1>5, <1>7, <1>8, <1>11, <1>12 DEF FramesOf, len
<1>14. ASSUME text[line].directive = "none" PROVE active <=> Selected(text, line)
  <2>1. Selected(text, line) <=> \A i \in 1..(line - 1) : Encloses(text, i, line) => On(text, i, line)
    BY DEF Selected, On
  <2>2. \A i \in 1..(line - 1) : i \in 1..line
    BY <1>1
  <2> QED BY <2>1, <2>2, <1>5, <1>6, <1>7
<1> QED BY <1>13, <1>14, DescribesNext DEF StackInv

\* Every line keeps the stack a description of the open conditionals.
LEMMA SelectLineInv ==
    ASSUME StackInv, OutputInv, SelectLine
    PROVE  StackInv' /\ OutputInv'
<1>1. StackType /\ StackType'
  BY SelectLineType DEF StackInv
<1>2. PICK open : Describes(open)
  BY DEF StackInv
<1>3. StackInv'
  BY <1>1, <1>2, DescribesIf, DescribesElse, DescribesEndif, DescribesOther DEF SelectLine
<1>4. line' = line + 1 /\ text' = text /\ line \in Nat \ {0} /\ line' - 1 = line
  BY <1>1 DEF SelectLine, StackType
<1>5. OutputInv'
  <2>1. CASE text[line].directive = "none"
    <3>1. OtherLine
      BY <2>1 DEF SelectLine, IfLine, ElseLine, EndifLine, Directive
    <3>2. active <=> Selected(text, line)
      BY <1>1, <1>2, <3>1, <2>1, DescribesOther
    <3>3. output' = IF active THEN output \cup {line} ELSE output
      BY <3>1 DEF OtherLine
    <3> QED BY <3>2, <3>3, <1>4 DEF OutputInv
  <2>2. CASE text[line].directive # "none"
    <3>1. output' = output \/ output' = output \cup {line}
      BY DEF SelectLine, IfLine, ElseLine, EndifLine, OtherLine
    <3>2. output' \subseteq 1..line
      <4>1. output \subseteq 1..(line - 1)
        BY DEF OutputInv
      <4>2. 1..(line - 1) \subseteq 1..line /\ line \in 1..line
        BY <1>4
      <4>3. CASE output' = output
        BY <4>1, <4>2, <4>3
      <4>4. CASE output' = output \cup {line}
        BY <4>1, <4>2, <4>4
      <4> QED BY <4>3, <4>4, <3>1
    <3>3. ASSUME NEW j \in 1..line, text[j].directive = "none" PROVE j \in output' <=> Selected(text, j)
      <4>1. j # line /\ j \in 1..(line - 1)
        BY <3>3, <2>2, <1>4
      <4> QED BY <4>1, <3>1, <3>3 DEF OutputInv
    <3> QED BY <3>2, <3>3, <1>4 DEF OutputInv
  <2> QED BY <2>1, <2>2
<1> QED BY <1>3, <1>5

------------------------------------------------------------------------------
(* Lines and definitions *)

\* Max is the greatest element.
LEMMA MaxExists ==
    ASSUME NEW n \in Nat, NEW S \in SUBSET (1..n), S # {}
    PROVE  Max(S) \in S /\ \A k \in S : k <= Max(S)
<1> DEFINE Q(T) == T # {} => \E x \in T : \A y \in T : x >= y
<1> DEFINE U == {m \in Nat : \A T \in SUBSET (1..m) : Q(T)}
<1>1. 0 \in U
  <2>1. 1..0 = {}
    OBVIOUS
  <2> QED BY <2>1
<1>2. ASSUME NEW m \in U PROVE m + 1 \in U
  <2>1. ASSUME NEW T \in SUBSET (1..(m + 1)) PROVE Q(T)
    <3>1. CASE m + 1 \in T
      <4>1. \A y \in T : m + 1 >= y
        OBVIOUS
      <4> QED BY <3>1, <4>1
    <3>2. CASE m + 1 \notin T
      <4>1. T \in SUBSET (1..m)
        BY <3>2
      <4> QED BY <4>1
    <3> QED BY <3>1, <3>2
  <2> HIDE DEF Q
  <2> QED BY <2>1
<1>3. U = Nat
  <2>1. U \in SUBSET Nat
    OBVIOUS
  <2> HIDE DEF U
  <2> QED BY <1>1, <1>2, <2>1, Induct
<1>4. Q(S)
  <2>1. n \in U
    BY <1>3
  <2> HIDE DEF Q
  <2> QED BY <2>1
<1>5. PICK x \in S : \A y \in S : x >= y
  BY <1>4
<1>6. Max(S) \in S /\ \A y \in S : Max(S) >= y
  BY <1>5 DEF Max
<1> QED BY <1>6

\* Positions are of lines.
LEMMA PositionFacts ==
    ASSUME NEW s \in Seq(Seq(Lines)), NEW p \in Positions(s)
    PROVE  /\ p = <<p[1], p[2]>>
           /\ p[1] \in 1..Len(s)
           /\ s[p[1]] \in Seq(Lines)
           /\ p[2] \in 1..Len(s[p[1]])
           /\ s[p[1]][p[2]] \in Lines
<1>1. PICK k \in DOMAIN s : p \in {k} \X DOMAIN s[k]
  BY DEF Positions
<1>2. k \in 1..Len(s) /\ s[k] \in Seq(Lines)
  OBVIOUS
<1>3. p = <<p[1], p[2]>> /\ p[1] = k /\ p[2] \in DOMAIN s[k]
  BY <1>1
<1>4. p[2] \in 1..Len(s[k]) /\ s[k][p[2]] \in Lines
  BY <1>2, <1>3
<1> QED BY <1>2, <1>3, <1>4

\* Every line has a position.
LEMMA PositionIntro ==
    ASSUME NEW s \in Seq(Seq(Lines)), NEW k \in 1..Len(s), NEW j \in 1..Len(s[k])
    PROVE  <<k, j>> \in Positions(s)
<1>1. k \in DOMAIN s /\ s[k] \in Seq(Lines)
  OBVIOUS
<1>2. j \in DOMAIN s[k]
  BY <1>1
<1> QED BY <1>1, <1>2 DEF Positions

\* Of some lines there is a last one.
LEMMA LastExists ==
    ASSUME NEW s \in Seq(Seq(Lines)), NEW S \in SUBSET Positions(s), S # {}
    PROVE  LastOf(S) \in S /\ IsLast(LastOf(S), S)
<1> DEFINE K == {p[1] : p \in S}
<1>1. K \in SUBSET (1..Len(s)) /\ K # {} /\ Len(s) \in Nat
  BY PositionFacts
<1> DEFINE k == Max(K)
<1>2. k \in K /\ \A q \in S : q[1] <= k
  <2>1. \A q \in S : q[1] \in K
    OBVIOUS
  <2> HIDE DEF K
  <2> QED BY <1>1, <2>1, MaxExists
<1> HIDE DEF k
<1> DEFINE T == {q \in S : q[1] = k}
<1> DEFINE J == {q[2] : q \in T}
<1>3. T # {}
  BY <1>2
<1>4. J \in SUBSET (1..Len(s[k])) /\ J # {} /\ Len(s[k]) \in Nat
  <2>1. \A q \in T : q[2] \in 1..Len(s[k]) /\ s[k] \in Seq(Lines)
    BY PositionFacts
  <2> HIDE DEF T
  <2> QED BY <2>1, <1>3
<1>5. PICK p \in T : \A q \in T : q[2] <= p[2]
  <2>1. \A q \in T : q[2] \in J
    OBVIOUS
  <2>2. \A j \in J : \E q \in T : j = q[2]
    OBVIOUS
  <2> HIDE DEF J, T
  <2>3. Max(J) \in J /\ \A j \in J : j <= Max(J)
    BY <1>4, MaxExists
  <2> QED BY <2>1, <2>2, <2>3
<1>6. ASSUME NEW q \in S PROVE q[1] < p[1] \/ (q[1] = p[1] /\ q[2] <= p[2])
  <2>1. q[1] \in Nat /\ p[1] = k /\ q[1] <= k /\ k \in Nat
    BY PositionFacts, <1>2
  <2>2. CASE q[1] = k
    BY <2>1, <2>2, <1>5
  <2> QED BY <2>1, <2>2
<1>7. p \in S /\ IsLast(p, S)
  BY <1>6 DEF IsLast
<1> QED BY <1>7 DEF LastOf

\* A last line is the last line.
LEMMA LastUnique ==
    ASSUME NEW s \in Seq(Seq(Lines)), NEW S \in SUBSET Positions(s),
           NEW p \in S, IsLast(p, S)
    PROVE  p = LastOf(S)
<1> DEFINE q == LastOf(S)
<1>1. q \in S /\ IsLast(q, S)
  BY LastExists
<1> HIDE DEF q
<1>2. /\ p[1] \in Nat /\ p[2] \in Nat /\ p = <<p[1], p[2]>>
      /\ q[1] \in Nat /\ q[2] \in Nat /\ q = <<q[1], q[2]>>
  BY <1>1, PositionFacts
<1>3. p[1] < q[1] \/ (p[1] = q[1] /\ p[2] <= q[2])
  BY <1>1 DEF IsLast
<1>4. q[1] < p[1] \/ (q[1] = p[1] /\ q[2] <= p[2])
  BY <1>1 DEF IsLast
<1>5. p[1] = q[1] /\ p[2] = q[2]
  BY <1>2, <1>3, <1>4
<1>6. p = q
  BY <1>2, <1>5
<1> QED BY <1>6 DEF q

\* The fields of a definition.
LEMMA LineFields ==
    ASSUME NEW l \in Lines, l.directive = "none"
    PROVE  /\ l.definition \in Definitions
           /\ l.definition.name \in Channels
           /\ l.definition.kind \in {"scalar", "calculated"}
           /\ l.definition.kind = "calculated" => l.definition.expression \in Expressions
           /\ l.definition.kind = "scalar" =>
                 /\ l.definition.scale \in Fraction
                 /\ l.definition.translate \in Fraction
                 /\ l.definition.usable \in BOOLEAN
<1>1. l.definition \in Definitions
  BY DEF Lines
<1> QED BY <1>1 DEF Definitions

\* Inputs are sections of lines.
LEMMA InputFacts ==
    ASSUME NEW s \in Inputs
    PROVE  /\ s \in Seq(Seq(Lines))
           /\ Len(s) \in Nat \ {0}
           /\ \A k \in 1..Len(s) : s[k] \in Seq(Lines) /\ Len(s[k]) \in Nat
<1>1. s \in Seq(Seq(Lines)) /\ s # <<>>
  BY InputsAssumption
<1>2. \A k \in 1..Len(s) : s[k] \in Seq(Lines)
  BY <1>1
<1>3. \A k \in 1..Len(s) : Len(s[k]) \in Nat
  BY <1>2
<1> QED BY <1>1, <1>2, <1>3

\* The dictionary of the scalars.
LEMMA ScalarsType ==
    ASSUME NEW s \in Inputs
    PROVE  /\ DOMAIN ScalarsOf(s) \subseteq Channels
           /\ \A c \in DOMAIN ScalarsOf(s) :
                 /\ ScalarsOf(s)[c] \in Definitions
                 /\ ScalarsOf(s)[c].kind = "scalar"
                 /\ ScalarsOf(s)[c].scale \in Fraction
                 /\ ScalarsOf(s)[c].translate \in Fraction
                 /\ ScalarsOf(s)[c].usable \in BOOLEAN
<1>1. DOMAIN ScalarsOf(s) = {d \in Channels : ScalarLines(s, d) # {}}
  BY DEF ScalarsOf
<1>2. ASSUME NEW c \in DOMAIN ScalarsOf(s)
      PROVE  /\ ScalarsOf(s)[c] \in Definitions
             /\ ScalarsOf(s)[c].kind = "scalar"
             /\ ScalarsOf(s)[c].scale \in Fraction
             /\ ScalarsOf(s)[c].translate \in Fraction
             /\ ScalarsOf(s)[c].usable \in BOOLEAN
  <2> DEFINE p == LastOf(ScalarLines(s, c))
  <2>1. ScalarsOf(s)[c] = DefinitionAt(s, p) /\ ScalarLines(s, c) # {}
    BY <1>1 DEF ScalarsOf
  <2>2. ScalarLines(s, c) \in SUBSET Positions(s) /\ s \in Seq(Seq(Lines))
    BY InputFacts DEF ScalarLines
  <2>3. p \in ScalarLines(s, c)
    BY <2>1, <2>2, LastExists
  <2>4. HoldsKind(s[p[1]][p[2]], "scalar") /\ s[p[1]][p[2]] \in Lines
    BY <2>2, <2>3, PositionFacts DEF ScalarLines
  <2> HIDE DEF p
  <2> QED BY <2>1, <2>4, LineFields DEF HoldsKind, DefinitionAt
<1> QED BY <1>1, <1>2

------------------------------------------------------------------------------
(* Reading: which definitions count *)

\* The definitions of c that count, of the sections that are through.
DefinitionsBefore(c, n) == {p \in DefinitionsOf(sections, c) : p[1] < n}

\* Each calculated channel is what the last of these definitions says.
CalculatedInv ==
    /\ calculated = [c \in DOMAIN calculated |-> calculated[c]]
    /\ DOMAIN calculated = {c \in Channels : DefinitionsBefore(c, at) # {}}
    /\ \A c \in DOMAIN calculated : \E p \in DefinitionsBefore(c, at) :
          /\ IsLast(p, DefinitionsBefore(c, at))
          /\ calculated[c] = Parsed(DefinitionAt(sections, p).expression)

ReadInv ==
    /\ sections \in Inputs
    /\ at \in 1..(Len(sections) + 1)
    /\ at <= Len(sections) => text = sections[at]
    /\ text \in Seq(Lines)
    /\ line <= Len(text) + 1
    /\ StackInv
    /\ OutputInv
    /\ scalars = ScalarsOf(sections)
    /\ CalculatedInv

\* The next section begins with no conditional open.
LEMMA BeginNextInv ==
    ASSUME line' = 1, stack' = <<>>, active' = TRUE, output' = {}
    PROVE  StackInv' /\ OutputInv'
<1>1. 1..Len(stack') = {} /\ 1..(line' - 1) = {}
  OBVIOUS
<1>2. StackType'
  BY DEF StackType
<1>3. FramesOf([m \in {} |-> 1], text', line', stack', active')
  BY <1>1 DEF FramesOf
<1>4. OutputInv'
  BY <1>1 DEF OutputInv
<1> QED BY <1>2, <1>3, <1>4, DescribesNext DEF StackInv

\* What an expression is kept as.
LEMMA ParsedFacts ==
    ASSUME NEW e \in Expressions
    PROVE  /\ Parsed(e) # None =>
                 /\ Parsed(e).source \in Channels
                 /\ Parsed(e).scale \in Fraction
                 /\ Parsed(e).translate \in Fraction
                 /\ e.op = "table" => /\ Parsed(e).source = e.name
                                      /\ Parsed(e).file = e.file
                                      /\ e.file # NoFile
                                      /\ Parsed(e).scale = Whole(1)
                                      /\ Parsed(e).translate = Whole(0)
                 /\ e.op # "table" => /\ Parsed(e).file = NoFile
                                      /\ Linear[e] \in Sums
                                      /\ DOMAIN Linear[e].coefficients = {Parsed(e).source}
                                      /\ Parsed(e).scale = Linear[e].coefficients[Parsed(e).source]
                                      /\ Parsed(e).translate = Linear[e].constant
           /\ Simple[e] => Parsed(e) # None
<1>1. CASE e.op = "table"
  <2>1. Parsed(e) = [source |-> e.name, scale |-> Whole(1), translate |-> Whole(0), file |-> e.file]
    BY <1>1 DEF Parsed
  <2>2. e.name \in Channels /\ e.file # NoFile
    BY <1>1, ExpressionsAssumption, FilesAssumption
  <2>3. ~Simple[e]
    BY <1>1, SimpleStep DEF Operators
  <2>4. Whole(1) \in Fraction /\ Whole(0) \in Fraction
    BY WholeType
  <2> QED BY <1>1, <2>1, <2>2, <2>3, <2>4
<1>2. CASE e.op # "table"
  <2> DEFINE v == Linear[e]
  <2>1. v \in Forms
    BY LinearStep
  <2>2. Parsed(e) = IF v.linear /\ Cardinality(DOMAIN v.coefficients) = 1
                    THEN LET c == CHOOSE c \in DOMAIN v.coefficients : TRUE
                         IN [source |-> c, scale |-> v.coefficients[c], translate |-> v.constant, file |-> NoFile]
                    ELSE None
    BY <1>2 DEF Parsed
  <2> HIDE DEF v
  <2>3. ASSUME v.linear, Cardinality(DOMAIN v.coefficients) = 1
        PROVE  /\ Parsed(e) # None
               /\ Parsed(e).file = NoFile
               /\ v \in Sums
               /\ DOMAIN v.coefficients = {Parsed(e).source}
               /\ Parsed(e).source \in Channels
               /\ Parsed(e).scale = v.coefficients[Parsed(e).source]
               /\ Parsed(e).translate = v.constant
               /\ Parsed(e).scale \in Fraction
               /\ Parsed(e).translate \in Fraction
    <3>1. v \in Sums
      BY <2>1, <2>3, FormLinear
    <3>2. DOMAIN v.coefficients \subseteq Channels /\ v.constant \in Fraction
      BY <3>1, FormElim
    <3>3. IsFiniteSet(DOMAIN v.coefficients)
      BY <3>2, ChannelsAssumption, FS_Subset
    <3>4. PICK c : DOMAIN v.coefficients = {c}
      BY <2>3, <3>3, FS_Singleton
    <3>5. (CHOOSE d \in DOMAIN v.coefficients : TRUE) = c
      BY <3>4
    <3>6. Parsed(e) = [source |-> c, scale |-> v.coefficients[c], translate |-> v.constant, file |-> NoFile]
      BY <2>2, <2>3, <3>5
    <3>7. v.coefficients[c] \in Fraction
      BY <3>1, <3>4, FormElim
    <3>8. Parsed(e) # None
      BY <3>6 DEF None
    <3> QED BY <3>1, <3>2, <3>4, <3>6, <3>7, <3>8
  <2>4. ASSUME Simple[e] PROVE v.linear /\ Cardinality(DOMAIN v.coefficients) = 1
    <3>1. OneTerm(v)
      BY <2>4, SimpleIsOneTerm DEF v
    <3>2. PICK c \in Channels : DOMAIN v.coefficients = {c}
      BY <3>1 DEF OneTerm
    <3>3. Cardinality({c}) = 1
      BY FS_Singleton
    <3> QED BY <3>1, <3>2, <3>3, FormElim DEF OneTerm
  <2>5. Parsed(e) # None => v.linear /\ Cardinality(DOMAIN v.coefficients) = 1
    BY <2>2
  <2> QED BY <1>2, <2>3, <2>4, <2>5 DEF v
<1> QED BY <1>1, <1>2

\* Definitions are at positions.
LEMMA DefinitionPositions ==
    ASSUME NEW s \in Inputs, NEW c
    PROVE  \A p \in DefinitionsOf(s, c) :
              /\ p \in Positions(s)
              /\ p = <<p[1], p[2]>>
              /\ p[1] \in 1..Len(s)
              /\ p[2] \in 1..Len(s[p[1]])
              /\ p[1] \in Nat
              /\ p[2] \in Nat
<1>1. s \in Seq(Seq(Lines)) /\ Len(s) \in Nat /\ \A k \in 1..Len(s) : Len(s[k]) \in Nat
  BY InputFacts
<1>2. \A p \in DefinitionsOf(s, c) : p \in Positions(s)
  BY DEF DefinitionsOf, LinesOf
<1> QED BY <1>1, <1>2, PositionFacts

\* At the end of a section its lines that count are its definitions.
LEMMA SectionDefinitions ==
    ASSUME ReadInv, at <= Len(sections), line > Len(text), NEW c \in Channels
    PROVE  /\ CalculatedLines(c) \in SUBSET (1..Len(text))
           /\ \A p \in DefinitionsOf(sections, c) : p[1] = at => p[2] \in CalculatedLines(c)
           /\ \A j \in CalculatedLines(c) : <<at, j>> \in DefinitionsOf(sections, c)
<1> USE DEF ReadInv
<1>1. /\ sections \in Seq(Seq(Lines))
      /\ text = sections[at]
      /\ at \in 1..Len(sections)
      /\ Len(text) \in Nat
  BY InputFacts
<1>2. line - 1 = Len(text)
  BY <1>1 DEF StackInv, StackType
<1>3. output \subseteq 1..Len(text)
  BY <1>2 DEF OutputInv
<1>4. \A j \in 1..Len(text) : text[j].directive = "none" => (j \in output <=> Selected(text, j))
  BY <1>2 DEF OutputInv
<1>5. ASSUME NEW p \in DefinitionsOf(sections, c), p[1] = at PROVE p[2] \in CalculatedLines(c)
  <2>1. p[2] \in 1..Len(text)
    BY <1>1, <1>5, DefinitionPositions
  <2>2. /\ HoldsKind(text[p[2]], "calculated")
        /\ text[p[2]].definition.name = c
        /\ Selected(text, p[2])
        /\ Parsed(text[p[2]].definition.expression) # None
    BY <1>1, <1>5 DEF DefinitionsOf, LinesOf, DefinitionAt
  <2> QED BY <2>1, <2>2, <1>4 DEF CalculatedLines, Counts, HoldsKind
<1>6. ASSUME NEW j \in CalculatedLines(c) PROVE <<at, j>> \in DefinitionsOf(sections, c)
  <2>1. /\ j \in output
        /\ HoldsKind(text[j], "calculated")
        /\ Parsed(text[j].definition.expression) # None
        /\ text[j].definition.name = c
    BY DEF CalculatedLines, Counts
  <2>2. j \in 1..Len(text) /\ Selected(text, j)
    BY <2>1, <1>3, <1>4 DEF HoldsKind
  <2>3. <<at, j>> \in Positions(sections)
    BY <2>2, <1>1, PositionIntro
  <2>4. <<at, j>>[1] = at /\ <<at, j>>[2] = j
    OBVIOUS
  <2> QED BY <2>1, <2>2, <2>3, <2>4, <1>1 DEF DefinitionsOf, LinesOf, DefinitionAt
<1>7. CalculatedLines(c) \subseteq output
  BY DEF CalculatedLines
<1> QED BY <1>3, <1>5, <1>6, <1>7

\* A section that is through adds its definitions.
LEMMA SectionCounts ==
    ASSUME ReadInv, at <= Len(sections), line > Len(text), NEW c \in Channels
    PROVE  /\ DefinitionsBefore(c, at + 1) # {} <=> DefinitionsBefore(c, at) # {} \/ CalculatedLines(c) # {}
           /\ CalculatedLines(c) = {} => DefinitionsBefore(c, at + 1) = DefinitionsBefore(c, at)
           /\ CalculatedLines(c) # {} =>
                 LET p == <<at, Max(CalculatedLines(c))>> IN
                 p \in DefinitionsBefore(c, at + 1) /\ IsLast(p, DefinitionsBefore(c, at + 1))
<1>1. /\ CalculatedLines(c) \in SUBSET (1..Len(text))
      /\ \A p \in DefinitionsOf(sections, c) : p[1] = at => p[2] \in CalculatedLines(c)
      /\ \A j \in CalculatedLines(c) : <<at, j>> \in DefinitionsOf(sections, c)
  BY SectionDefinitions
<1>2. at \in Nat /\ Len(text) \in Nat /\ sections \in Inputs
  BY InputFacts DEF ReadInv
<1>3. \A p \in DefinitionsOf(sections, c) : p[1] \in Nat /\ p[2] \in Nat
  BY <1>2, DefinitionPositions
<1>4. \A p \in DefinitionsBefore(c, at + 1) : p \in DefinitionsOf(sections, c) /\ (p[1] = at \/ p \in DefinitionsBefore(c, at))
  BY <1>2, <1>3 DEF DefinitionsBefore
<1>5. DefinitionsBefore(c, at) \subseteq DefinitionsBefore(c, at + 1)
  BY <1>2, <1>3 DEF DefinitionsBefore
<1>6. ASSUME NEW j \in CalculatedLines(c) PROVE <<at, j>> \in DefinitionsBefore(c, at + 1)
  <2>1. <<at, j>>[1] = at
    OBVIOUS
  <2> QED BY <1>1, <1>2, <2>1 DEF DefinitionsBefore
<1>7. CalculatedLines(c) = {} => DefinitionsBefore(c, at + 1) = DefinitionsBefore(c, at)
  BY <1>1, <1>4, <1>5
<1>8. ASSUME CalculatedLines(c) # {}
      PROVE  LET p == <<at, Max(CalculatedLines(c))>> IN
             p \in DefinitionsBefore(c, at + 1) /\ IsLast(p, DefinitionsBefore(c, at + 1))
  <2>1. PICK m : m = Max(CalculatedLines(c))
    OBVIOUS
  <2>2. m \in CalculatedLines(c) /\ \A k \in CalculatedLines(c) : k <= m
    BY <1>1, <1>2, <1>8, <2>1, MaxExists
  <2>3. ASSUME NEW q \in DefinitionsBefore(c, at + 1)
        PROVE  q[1] < at \/ (q[1] = at /\ q[2] <= m)
    <3>1. q[1] = at => q[2] <= m
      BY <1>1, <1>4, <2>2
    <3> QED BY <3>1, <1>4 DEF DefinitionsBefore
  <2>4. <<at, m>>[1] = at /\ <<at, m>>[2] = m
    OBVIOUS
  <2>5. IsLast(<<at, m>>, DefinitionsBefore(c, at + 1))
    BY <2>3, <2>4 DEF IsLast
  <2> QED BY <2>1, <2>2, <2>5, <1>6
<1> QED BY <1>4, <1>5, <1>6, <1>7, <1>8

\* The end of a section leaves the last definitions of all sections so far.
LEMMA SectionEndInv ==
    ASSUME ReadInv, SectionEnd
    PROVE  CalculatedInv'
<1>1. at <= Len(sections) /\ line > Len(text) /\ at' = at + 1 /\ sections' = sections
  BY DEF SectionEnd
<1> DEFINE defined == {c \in Channels : CalculatedLines(c) # {}}
<1>2. calculated' = [c \in DOMAIN calculated \cup defined |->
                        IF c \in defined
                        THEN Parsed(text[Max(CalculatedLines(c))].definition.expression)
                        ELSE calculated[c]]
  BY DEF SectionEnd
<1>3. text = sections[at] /\ CalculatedInv
  BY <1>1 DEF ReadInv
<1>4. \A c : DefinitionsBefore(c, at)' = DefinitionsBefore(c, at + 1)
  BY <1>1 DEF DefinitionsBefore
<1>5. DOMAIN calculated' = {c \in Channels : DefinitionsBefore(c, at + 1) # {}}
  <2>1. DOMAIN calculated' = DOMAIN calculated \cup defined
    BY <1>2
  <2>2. \A c \in Channels : c \in DOMAIN calculated <=> DefinitionsBefore(c, at) # {}
    BY <1>3 DEF CalculatedInv
  <2>3. DOMAIN calculated \subseteq Channels
    BY <1>3 DEF CalculatedInv
  <2> QED BY <2>1, <2>2, <2>3, <1>1, SectionCounts
<1>6. ASSUME NEW c \in DOMAIN calculated'
      PROVE  \E p \in DefinitionsBefore(c, at + 1) :
                /\ IsLast(p, DefinitionsBefore(c, at + 1))
                /\ calculated'[c] = Parsed(DefinitionAt(sections, p).expression)
  <2>0. c \in Channels /\ c \in DOMAIN calculated \cup defined
    BY <1>2, <1>5
  <2>1. CASE CalculatedLines(c) # {}
    <3>1. PICK m : m = Max(CalculatedLines(c))
      OBVIOUS
    <3>2. calculated'[c] = Parsed(text[m].definition.expression)
      BY <1>2, <2>0, <2>1, <3>1
    <3>3. <<at, m>> \in DefinitionsBefore(c, at + 1) /\ IsLast(<<at, m>>, DefinitionsBefore(c, at + 1))
      BY <1>1, <2>0, <2>1, <3>1, SectionCounts
    <3>4. DefinitionAt(sections, <<at, m>>) = text[m].definition
      BY <1>3 DEF DefinitionAt
    <3> QED BY <3>2, <3>3, <3>4
  <2>2. CASE CalculatedLines(c) = {}
    <3>1. c \notin defined /\ c \in DOMAIN calculated
      BY <2>0, <2>2
    <3>2. calculated'[c] = calculated[c]
      BY <1>2, <2>0, <3>1
    <3>3. DefinitionsBefore(c, at + 1) = DefinitionsBefore(c, at)
      BY <1>1, <2>0, <2>2, SectionCounts
    <3> QED BY <3>1, <3>2, <3>3, <1>3 DEF CalculatedInv
  <2> QED BY <2>1, <2>2
<1>7. calculated' = [c \in DOMAIN calculated' |-> calculated'[c]]
  BY <1>2
<1> QED BY <1>1, <1>4, <1>5, <1>6, <1>7 DEF CalculatedInv, DefinitionAt

\* Stuttering keeps CalculatedInv.
LEMMA CalculatedUnchanged ==
    ASSUME CalculatedInv, UNCHANGED <<calculated, sections, at>>
    PROVE  CalculatedInv'
<1>1. \A c : DefinitionsBefore(c, at)' = DefinitionsBefore(c, at)
  BY DEF DefinitionsBefore
<1>2. calculated' = calculated /\ sections' = sections /\ at' = at
  OBVIOUS
<1> QED BY <1>1, <1>2 DEF CalculatedInv, DefinitionAt

\* Later steps keep ReadInv.
LEMMA ReadUnchanged ==
    ASSUME ReadInv,
           UNCHANGED <<preprocessorVars, definitionVars, sections, at>>
    PROVE  ReadInv'
<1> USE DEF preprocessorVars, definitionVars
<1>1. StackInv' /\ OutputInv'
  BY DEF ReadInv, StackInv, StackType, OutputInv, Describes
<1>2. CalculatedInv'
  BY CalculatedUnchanged DEF ReadInv
<1> QED BY <1>1, <1>2 DEF ReadInv

\* ReadInv holds at first.
LEMMA ReadInit ==
    ASSUME Init PROVE ReadInv
<1>1. sections \in Inputs /\ at = 1 /\ text = sections[1] /\ scalars = ScalarsOf(sections)
  BY DEF Init, Begin
<1>2. StackInv /\ OutputInv
  BY BeginInv DEF Init, Begin
<1>3. text \in Seq(Lines) /\ line <= Len(text) + 1 /\ at \in 1..(Len(sections) + 1)
  BY <1>1, InputFacts DEF Init, Begin
<1>4. \A c : DefinitionsBefore(c, at) = {}
  BY <1>1, DefinitionPositions DEF DefinitionsBefore
<1>5. CalculatedInv
  BY <1>4 DEF CalculatedInv, Init, Nothing
<1> QED BY <1>1, <1>2, <1>3, <1>5 DEF ReadInv

\* Every step keeps ReadInv.
LEMMA ReadNext ==
    ASSUME ReadInv, [Next]_vars PROVE ReadInv'
<1>1. CASE PreprocessLine
  <2>1. /\ SelectLine
        /\ UNCHANGED <<definitionVars, sections, at, text>>
    BY <1>1 DEF PreprocessLine, frontVars, SelectLine
  <2>2. StackInv' /\ OutputInv'
    BY <2>1, SelectLineInv DEF ReadInv
  <2>3. line' <= Len(text') + 1
    BY <2>1 DEF ReadInv, SelectLine, StackInv, StackType
  <2>4. CalculatedInv'
    BY <2>1, CalculatedUnchanged DEF ReadInv, definitionVars
  <2> QED BY <2>1, <2>2, <2>3, <2>4 DEF ReadInv, definitionVars
<1>2. CASE SectionEnd
  <2>1. CalculatedInv'
    BY <1>2, SectionEndInv
  <2>2. /\ at <= Len(sections) /\ at' = at + 1
        /\ sections' = sections /\ scalars' = scalars
        /\ IF at < Len(sections) THEN BeginNext(sections[at + 1]) ELSE UNCHANGED preprocessorVars
    BY <1>2 DEF SectionEnd
  <2>3. CASE at < Len(sections)
    <3>1. text' = sections[at + 1] /\ line' = 1 /\ stack' = <<>> /\ active' = TRUE /\ output' = {}
      BY <2>2, <2>3 DEF BeginNext
    <3>2. StackInv' /\ OutputInv'
      BY <3>1, BeginNextInv
    <3>3. text' \in Seq(Lines) /\ line' <= Len(text') + 1 /\ at' \in 1..(Len(sections) + 1)
      BY <2>2, <2>3, <3>1, InputFacts DEF ReadInv
    <3> QED BY <2>1, <2>2, <3>1, <3>2, <3>3 DEF ReadInv
  <2>4. CASE ~(at < Len(sections))
    <3>1. UNCHANGED preprocessorVars
      BY <2>2, <2>4
    <3>2. StackInv' /\ OutputInv'
      BY <3>1 DEF ReadInv, StackInv, StackType, OutputInv, Describes, preprocessorVars
    <3>3. at' \in 1..(Len(sections) + 1) /\ ~(at' <= Len(sections))
      BY <2>2, <2>4, InputFacts DEF ReadInv
    <3> QED BY <2>1, <2>2, <3>1, <3>2, <3>3 DEF ReadInv, preprocessorVars
  <2> QED BY <2>3, <2>4
<1>3. CASE SkipEntry
  BY <1>3, ReadUnchanged DEF SkipEntry
<1>4. CASE BeginEntry
  BY <1>4, ReadUnchanged DEF BeginEntry
<1>5. CASE ResolveEntry
  BY <1>5, ReadUnchanged DEF ResolveEntry, Resolve, frontVars
<1>6. CASE EndEntry
  BY <1>6, ReadUnchanged DEF EndEntry
<1>7. CASE UNCHANGED vars
  BY <1>7, ReadUnchanged DEF vars, frontVars
<1> QED BY <1>1, <1>2, <1>3, <1>4, <1>5, <1>6, <1>7 DEF Next, Finished

\* When all is read, ReadInv is the property.
LEMMA ReadMeans == ASSUME ReadInv PROVE LastSelectedDefinitionCounts
<1> SUFFICES ASSUME ReadInv, AllRead PROVE LastSelectedDefinitionCounts
  BY DEF LastSelectedDefinitionCounts
<1> DEFINE formulas == FormulasOf(sections)
<1>1. sections \in Inputs /\ Len(sections) \in Nat /\ at > Len(sections) /\ at \in Nat
  BY InputFacts DEF ReadInv, AllRead
<1>2. \A c : DefinitionsBefore(c, at) = DefinitionsOf(sections, c)
  BY <1>1, DefinitionPositions DEF DefinitionsBefore
<1>3. DOMAIN calculated = DOMAIN formulas
  BY <1>2 DEF ReadInv, CalculatedInv, FormulasOf
<1>4. ASSUME NEW c \in DOMAIN calculated PROVE calculated[c] = Parsed(formulas[c])
  <2>1. PICK p \in DefinitionsOf(sections, c) :
            /\ IsLast(p, DefinitionsOf(sections, c))
            /\ calculated[c] = Parsed(DefinitionAt(sections, p).expression)
    BY <1>2, <1>4 DEF ReadInv, CalculatedInv
  <2>2. DefinitionsOf(sections, c) \in SUBSET Positions(sections) /\ sections \in Seq(Seq(Lines))
    BY <1>1, InputFacts, DefinitionPositions
  <2>3. p = LastOf(DefinitionsOf(sections, c))
    BY <2>1, <2>2, LastUnique
  <2>4. formulas[c] = DefinitionAt(sections, p).expression
    BY <1>3, <2>3 DEF FormulasOf
  <2> QED BY <2>1, <2>4
<1>5. ASSUME NEW c \in Channels, NEW p \in LinesOf(sections, c),
             Simple[DefinitionAt(sections, p).expression]
      PROVE  p \in DefinitionsOf(sections, c)
  <2>1. p \in Positions(sections) /\ HoldsKind(sections[p[1]][p[2]], "calculated")
    BY <1>5 DEF LinesOf
  <2>2. DefinitionAt(sections, p).expression \in Expressions
    BY <2>1, <1>1, InputFacts, PositionFacts, LineFields DEF HoldsKind, DefinitionAt
  <2> QED BY <2>2, <1>5, ParsedFacts DEF DefinitionsOf
<1>6. calculated = [c \in DOMAIN formulas |-> Parsed(formulas[c])]
  BY <1>3, <1>4 DEF ReadInv, CalculatedInv
<1> QED BY <1>5, <1>6 DEF LastSelectedDefinitionCounts

\* Of the calculated channels exactly those count that the conditionals select.
THEOREM LastSelectedDefinition == Spec => []LastSelectedDefinitionCounts
<1>1. Init => ReadInv
  BY ReadInit
<1>2. ReadInv /\ [Next]_vars => ReadInv'
  BY ReadNext
<1>3. ReadInv => LastSelectedDefinitionCounts
  BY ReadMeans
<1> QED BY <1>1, <1>2, <1>3, PTL DEF Spec

------------------------------------------------------------------------------
(* Resolution: the calls in progress *)

Asked == FieldMap[entry].channel

\* The channels that are calculated from another one.
Derived == DOMAIN calculated \ DOMAIN scalars

\* The channels q[1] to q[n] that have been called in each other for the entry
\* begun last, each calculated from the next; the calls in progress are the
\* first of them.
Walk(q, n) ==
    /\ n \in Nat \ {0}
    /\ q \in [1..n -> Channels]
    /\ q[1] = Asked
    /\ \A i \in 1..(n - 1) : q[i] \in Derived /\ q[i + 1] = calculated[q[i]].source
    /\ \A i, j \in 1..(n - 1) : q[i] = q[j] => i = j
    /\ Len(path) < n
    /\ \A i \in 1..Len(path) : path[i] = q[i]
    /\ channel = q[Len(path) + 1]
    /\ resolved = Pending => Len(path) = n - 1 /\ seen = {q[i] : i \in 1..(n - 1)}

\* A channel without definition, or with one that yields no value.
Barren(c) ==
    \/ c \in DOMAIN scalars /\ ~scalars[c].usable
    \/ c \notin DOMAIN scalars \cup DOMAIN calculated
    \/ c \in Derived /\ IsTable(c) /\ ReadTable(calculated[c].file) = <<>>

\* Channels that have no value, as each is barren or calculated from another one
\* of them.
Closed(C) ==
    /\ C \subseteq Channels
    /\ \A c \in C : Barren(c) \/ (c \in Derived /\ calculated[c].source \in C)
Doomed(c) == \E C : c \in C /\ Closed(C)

\* What the last call returned for its channel.
Outcome(q, n) ==
    /\ resolved = None => Doomed(channel) \/ TwoTables(Asked)
    /\ resolved # None =>
          /\ q[n] \in DOMAIN scalars
          /\ resolved.scalar = q[n]
          /\ resolved.file # NoFile =>
                \E j \in (Len(path) + 1)..(n - 1) :
                    IsTable(q[j]) /\ resolved.file = calculated[q[j]].file

Due(c) == Doomed(c) \/ TwoTables(c)

ResolutionType ==
    /\ entry \in 0..Len(FieldMap)
    /\ channel \in Channels \cup {NoChannel}
    /\ path \in Seq(Channels)
    /\ channel = NoChannel => path = <<>>
    /\ channel # NoChannel => AllRead /\ entry \in 1..Len(FieldMap) /\ Asked \in Channels

ResolutionInv ==
    /\ ResolutionType
    /\ channel # NoChannel =>
          \E n, q : Walk(q, n) /\ (resolved # Pending => Outcome(q, n))
    /\ warnings # {} => AllRead
    /\ \A e \in warnings : Due(FieldMap[e].channel)

\* Entries ask for channels.
LEMMA FieldMapFacts ==
    /\ Len(FieldMap) \in Nat
    /\ \A e \in 1..Len(FieldMap) : FieldMap[e].channel \in Channels \cup {NoChannel}
<1> DEFINE T == [field : STRING, channel : Channels \cup {NoChannel}]
<1>0. \A f \in T : f.channel \in Channels \cup {NoChannel}
  OBVIOUS
<1>1. FieldMap \in Seq(T)
  BY FieldMapAssumption
<1> HIDE DEF T
<1>2. ASSUME NEW e \in 1..Len(FieldMap) PROVE FieldMap[e].channel \in Channels \cup {NoChannel}
  <2>1. FieldMap[e] \in T
    BY <1>1
  <2> QED BY <2>1, <1>0
<1>3. Len(FieldMap) \in Nat
  BY <1>1
<1> QED BY <1>2, <1>3

\* What the dictionaries hold.
LEMMA DefinitionFacts ==
    ASSUME ReadInv
    PROVE  /\ DOMAIN calculated \subseteq Channels
           /\ \A c \in DOMAIN calculated :
                 /\ calculated[c].source \in Channels
                 /\ calculated[c].scale \in Fraction
                 /\ calculated[c].translate \in Fraction
           /\ DOMAIN scalars \subseteq Channels
<1>1. ASSUME NEW c \in DOMAIN calculated
      PROVE  \E e \in Expressions : calculated[c] = Parsed(e) /\ Parsed(e) # None
  <2>1. PICK p \in DefinitionsOf(sections, c) : calculated[c] = Parsed(DefinitionAt(sections, p).expression)
    BY DEF ReadInv, CalculatedInv, DefinitionsBefore
  <2>2. HoldsKind(sections[p[1]][p[2]], "calculated") /\ Parsed(DefinitionAt(sections, p).expression) # None
    BY DEF DefinitionsOf, LinesOf
  <2>3. sections[p[1]][p[2]] \in Lines
    BY InputFacts, DefinitionPositions, PositionFacts DEF ReadInv
  <2>4. DefinitionAt(sections, p).expression \in Expressions
    BY <2>2, <2>3, LineFields DEF HoldsKind, DefinitionAt
  <2> QED BY <2>1, <2>2, <2>4
<1>2. DOMAIN calculated \subseteq Channels
  BY DEF ReadInv, CalculatedInv
<1>3. DOMAIN scalars \subseteq Channels
  BY ScalarsType DEF ReadInv
<1> QED BY <1>1, <1>2, <1>3, ParsedFacts

\* A channel calculated from a doomed one is doomed.
LEMMA DoomedUp ==
    ASSUME ReadInv, NEW c \in Derived, Doomed(calculated[c].source)
    PROVE  Doomed(c)
<1>1. PICK C : calculated[c].source \in C /\ Closed(C)
  BY DEF Doomed
<1>2. c \in Channels
  BY DefinitionFacts DEF Derived
<1>3. Closed(C \cup {c})
  BY <1>1, <1>2 DEF Closed
<1> QED BY <1>3 DEF Doomed

\* A barren channel is doomed.
LEMMA BarrenIsDoomed ==
    ASSUME NEW c \in Channels, Barren(c)
    PROVE  Doomed(c)
<1>1. Closed({c})
  BY DEF Closed
<1> QED BY <1>1 DEF Doomed

\* If any channel of the walk is doomed, the first one is.
LEMMA WalkTop ==
    ASSUME ReadInv, NEW n, NEW q, Walk(q, n), NEW m \in 1..n, Doomed(q[m])
    PROVE  Doomed(q[1])
<1> DEFINE S == {k \in Nat : k < m => Doomed(q[m - k])}
<1>0. n \in Nat /\ m \in Nat
  BY DEF Walk
<1>1. 0 \in S
  BY <1>0
<1>2. ASSUME NEW k \in S PROVE k + 1 \in S
  <2> SUFFICES ASSUME k + 1 < m PROVE Doomed(q[m - (k + 1)])
    BY <1>0
  <2>1. PICK j : j = m - (k + 1)
    OBVIOUS
  <2>2. j \in 1..(n - 1) /\ j + 1 = m - k /\ k < m
    BY <1>0, <2>1
  <2>3. q[j] \in Derived /\ calculated[q[j]].source = q[j + 1]
    BY <2>2 DEF Walk
  <2>4. Doomed(q[j + 1])
    BY <2>2
  <2> QED BY <2>1, <2>3, <2>4, DoomedUp
<1>3. S = Nat
  <2>1. S \in SUBSET Nat
    OBVIOUS
  <2> HIDE DEF S
  <2> QED BY <1>1, <1>2, <2>1, Induct
<1>4. m - 1 \in S
  BY <1>0, <1>3
<1> QED BY <1>0, <1>4

\* Without repetition, there are at most as many channels as there are.
LEMMA WalkLength ==
    ASSUME ReadInv, NEW n, NEW q, Walk(q, n)
    PROVE  n - 1 <= Cardinality(Channels)
<1>1. n \in Nat \ {0} /\ n - 1 \in Nat
  BY DEF Walk
<1>2. IsFiniteSet(1..(n - 1)) /\ Cardinality(1..(n - 1)) = n - 1
  BY <1>1, FS_Interval
<1> DEFINE f == [i \in 1..(n - 1) |-> q[i]]
<1>3. f \in Injection(1..(n - 1), Channels)
  <2>1. f \in [1..(n - 1) -> Channels]
    BY <1>1 DEF Walk
  <2>2. \A i, j \in 1..(n - 1) : f[i] = f[j] => i = j
    BY DEF Walk
  <2> QED BY <2>1, <2>2 DEF Injection, IsInjective
<1> QED BY <1>2, <1>3, ChannelsAssumption, FS_Injection

\* The channels of a walk down to one that is calculated are a chain.
LEMMA WalkChain ==
    ASSUME ReadInv, NEW n, NEW q, Walk(q, n), n > 1
    PROVE  LET p == [i \in 1..(n - 1) |-> q[i]] IN
           p \in Chains(Asked) /\ DOMAIN p = 1..(n - 1)
<1> DEFINE p == [i \in 1..(n - 1) |-> q[i]]
<1>1. n \in Nat \ {0} /\ n - 1 \in Nat \ {0}
  BY DEF Walk
<1>2. Cardinality(Channels) \in Nat /\ n - 1 \in 1..Cardinality(Channels)
  BY <1>1, ChannelsAssumption, FS_CardinalityType, WalkLength
<1>3. p \in [1..(n - 1) -> DOMAIN calculated \ DOMAIN scalars]
  BY DEF Walk, Derived
<1>4. Len(p) = n - 1
  BY <1>1
<1>5. p[1] = Asked
  BY <1>1 DEF Walk
<1>6. ASSUME NEW i \in 2..Len(p) PROVE p[i] = calculated[p[i - 1]].source
  <2>1. PICK k : k = i - 1
    OBVIOUS
  <2>2. k \in 1..(n - 1) /\ i = k + 1 /\ k + 1 \in 1..(n - 1)
    BY <1>1, <1>4, <2>1
  <2> QED BY <2>1, <2>2 DEF Walk
<1> HIDE DEF p
<1>7. p \in Chains(Asked)
  BY <1>2, <1>3, <1>5, <1>6 DEF Chains
<1> QED BY <1>3, <1>7 DEF p

\* Two tables on the walk are two tables below the channel asked for.
LEMMA WalkTables ==
    ASSUME ReadInv, NEW n, NEW q, Walk(q, n),
           NEW i \in 1..(n - 1), NEW j \in 1..(i - 1), IsTable(q[i]), IsTable(q[j])
    PROVE  TwoTables(Asked)
<1> DEFINE p == [k \in 1..(n - 1) |-> q[k]]
<1>1. n \in Nat \ {0} /\ n > 1 /\ j \in 1..(n - 1)
  BY DEF Walk
<1>2. p \in Chains(Asked) /\ DOMAIN p = 1..(n - 1)
  BY <1>1, WalkChain
<1>3. p[i] = q[i] /\ p[j] = q[j]
  BY <1>1
<1> QED BY <1>1, <1>2, <1>3 DEF TwoTables

\* ResolutionInv holds at first.
LEMMA ResolutionInit == ASSUME Init PROVE ResolutionInv
  BY FieldMapFacts DEF Init, ResolutionInv, ResolutionType

\* Definitions and walk are as they were.
LEMMA DefinitionsKept ==
    ASSUME UNCHANGED definitionVars
    PROVE  /\ Derived' = Derived
           /\ \A c : IsTable(c)' = IsTable(c)
           /\ \A c : Barren(c)' = Barren(c)
           /\ \A c : Doomed(c)' = Doomed(c)
           /\ \A c : Chains(c)' = Chains(c)
           /\ \A c : TwoTables(c)' = TwoTables(c)
           /\ \A c : Due(c)' = Due(c)
<1> USE DEF definitionVars
<1>1. Derived' = Derived /\ \A c : IsTable(c)' = IsTable(c)
  BY DEF Derived, IsTable
<1>2. \A c : Barren(c)' = Barren(c)
  BY <1>1 DEF Barren
<1>3. \A C : Closed(C)' = Closed(C)
  BY <1>1, <1>2 DEF Closed
<1>4. \A c : Doomed(c)' = Doomed(c)
  BY <1>3 DEF Doomed
<1>5. \A c : Chains(c)' = Chains(c)
  BY DEF Chains
<1>6. \A c : TwoTables(c)' = TwoTables(c)
  BY <1>1, <1>5 DEF TwoTables
<1>7. \A c : Due(c)' = Due(c)
  BY <1>4, <1>6 DEF Due
<1> QED BY <1>1, <1>2, <1>4, <1>5, <1>6, <1>7

\* Other steps keep ResolutionInv.
LEMMA ResolutionUnchanged ==
    ASSUME ResolutionInv,
           UNCHANGED <<definitionVars, resolutionVars, entry, warnings>>,
           AllRead => AllRead'
    PROVE  ResolutionInv'
<1> USE DEF resolutionVars
<1>1. ResolutionType'
  BY DEF ResolutionInv, ResolutionType, Asked
<1>2. \A e \in warnings' : Due(FieldMap[e].channel)'
  BY DefinitionsKept DEF ResolutionInv
<1>3. warnings' # {} => AllRead'
  BY DEF ResolutionInv
<1>4. ASSUME channel' # NoChannel
      PROVE  \E n, q : Walk(q, n)' /\ (resolved' # Pending => Outcome(q, n)')
  <2>1. PICK n, q : Walk(q, n) /\ (resolved # Pending => Outcome(q, n))
    BY <1>4 DEF ResolutionInv
  <2>2. Walk(q, n)'
    BY <2>1, DefinitionsKept DEF Walk, Asked, definitionVars
  <2>3. Outcome(q, n) => Outcome(q, n)'
    BY DefinitionsKept DEF Outcome, Asked, definitionVars
  <2> QED BY <2>1, <2>2, <2>3
<1> QED BY <1>1, <1>2, <1>3, <1>4 DEF ResolutionInv

\* A new entry begins a walk of its channel.
LEMMA BeginEntryWalk ==
    ASSUME ResolutionInv, BeginEntry
    PROVE  ResolutionInv'
<1>1. /\ channel' = FieldMap[entry'].channel /\ seen' = {} /\ path' = <<>> /\ resolved' = Pending
      /\ entry' = entry + 1 /\ entry < Len(FieldMap) /\ FieldMap[entry + 1].channel # NoChannel
      /\ AllRead /\ AllRead' /\ warnings' = warnings /\ UNCHANGED definitionVars
  BY DEF BeginEntry, BeginResolution, Idle, AllRead
<1>2. entry' \in 1..Len(FieldMap) /\ channel' \in Channels /\ Asked' = channel'
  BY <1>1, FieldMapFacts DEF ResolutionInv, ResolutionType, Asked
<1>3. PICK c : c = channel'
  OBVIOUS
<1> DEFINE q == [i \in 1..1 |-> c]
<1>4. Walk(q, 1)'
  <2>1. 1..(1 - 1) = {} /\ Len(path') = 0
    BY <1>1
  <2>2. q \in [1..1 -> Channels] /\ q[1] = Asked'
    BY <1>2, <1>3
  <2>3. seen' = {q[i] : i \in 1..(1 - 1)}
    BY <1>1, <2>1
  <2>4. channel' = q[Len(path') + 1]
    BY <1>3, <2>1
  <2> HIDE DEF q
  <2> QED BY <1>1, <2>1, <2>2, <2>3, <2>4 DEF Walk
<1>5. ResolutionType'
  BY <1>1, <1>2, FieldMapFacts DEF ResolutionType
<1>6. \A e \in warnings' : Due(FieldMap[e].channel)'
  BY <1>1, DefinitionsKept DEF ResolutionInv
<1> QED BY <1>1, <1>4, <1>5, <1>6 DEF ResolutionInv

\* The walk ends at a scalar.
LEMMA FoundScalarWalk ==
    ASSUME NEW n, NEW q, Walk(q, n), FoundScalar, UNCHANGED <<definitionVars, entry>>
    PROVE  Walk(q, n)' /\ Outcome(q, n)' /\ resolved' # Pending
<1>1. /\ resolved = Pending /\ channel \in DOMAIN scalars
      /\ resolved' = [scalar |-> channel, scale |-> Whole(1), translate |-> Whole(0), file |-> NoFile]
      /\ channel' = channel /\ path' = path
  BY DEF FoundScalar
<1>2. resolved' # Pending /\ resolved' # None
  BY <1>1 DEF Pending, None
<1>3. Len(path) + 1 = n /\ n \in Nat
  BY <1>1 DEF Walk
<1>4. Walk(q, n)'
  BY <1>1, <1>2, DefinitionsKept DEF Walk, Asked, definitionVars
<1>5. Outcome(q, n)'
  BY <1>1, <1>2, <1>3 DEF Outcome, Walk, definitionVars
<1> QED BY <1>2, <1>4, <1>5

\* A call makes the walk longer.
LEMMA DescendWalk ==
    ASSUME ReadInv, ResolutionType, NEW n, NEW q, Walk(q, n), Descend, UNCHANGED <<definitionVars, entry>>
    PROVE  \E r : Walk(r, n + 1)' /\ resolved' = Pending
<1>1. /\ resolved = Pending /\ channel \notin seen /\ channel \in Derived
      /\ seen' = seen \cup {channel} /\ path' = Append(path, channel)
      /\ channel' = calculated[channel].source /\ resolved' = Pending
  BY DEF Descend, Derived
<1>2. n \in Nat \ {0} /\ Len(path) = n - 1 /\ channel = q[n] /\ seen = {q[i] : i \in 1..(n - 1)}
  BY <1>1 DEF Walk
<1>3. PICK c : c = channel'
  OBVIOUS
<1>4. c \in Channels
  BY <1>1, <1>3, DefinitionFacts DEF Derived
<1> DEFINE r == [i \in 1..(n + 1) |-> IF i <= n THEN q[i] ELSE c]
<1>5. /\ r \in [1..(n + 1) -> Channels]
      /\ \A i \in 1..n : r[i] = q[i]
      /\ r[n + 1] = c
  <2>1. q \in [1..n -> Channels]
    BY DEF Walk
  <2> QED BY <1>2, <1>4, <2>1
<1> HIDE DEF r
<1>6. /\ (n + 1) - 1 = n /\ n + 1 \in Nat \ {0} /\ 1 \in 1..n /\ n \in 1..n
      /\ \A i \in 1..n : i = n \/ (i \in 1..(n - 1) /\ i + 1 \in 1..n)
  BY <1>2
<1>7. r[1] = Asked'
  BY <1>5, <1>6 DEF Walk, Asked
<1>8. ASSUME NEW i \in 1..n PROVE r[i] \in Derived' /\ r[i + 1] = calculated'[r[i]].source
  <2>1. Derived' = Derived /\ calculated' = calculated
    BY DefinitionsKept DEF definitionVars
  <2>2. CASE i = n
    BY <1>1, <1>2, <1>3, <1>5, <2>1, <2>2
  <2>3. CASE i \in 1..(n - 1) /\ i + 1 \in 1..n
    BY <1>5, <2>1, <2>3 DEF Walk
  <2> QED BY <1>6, <2>2, <2>3
<1>9. \A i \in 1..(n - 1) : q[i] # q[n]
  BY <1>1, <1>2
<1>10. ASSUME NEW i \in 1..n, NEW j \in 1..n, r[i] = r[j] PROVE i = j
  <2>1. q[i] = q[j]
    BY <1>5, <1>10
  <2>2. CASE i \in 1..(n - 1) /\ j \in 1..(n - 1)
    BY <2>1, <2>2 DEF Walk
  <2> QED BY <1>6, <1>9, <2>1, <2>2
<1>11. Len(path') = n /\ \A i \in 1..n : path'[i] = r[i]
  <2>1. path \in Seq(Channels) /\ channel \in Channels
    BY <1>1, DefinitionFacts DEF ResolutionType, Derived
  <2>2. Len(path') = n /\ path'[n] = channel /\ \A i \in 1..(n - 1) : path'[i] = path[i]
    BY <1>1, <1>2, <2>1
  <2>3. \A i \in 1..(n - 1) : path[i] = q[i]
    BY <1>2 DEF Walk
  <2> QED BY <1>2, <1>5, <1>6, <2>2, <2>3
<1>12. seen' = {r[i] : i \in 1..n}
  <2>1. seen' = {q[i] : i \in 1..(n - 1)} \cup {q[n]}
    BY <1>1, <1>2
  <2>2. {q[i] : i \in 1..(n - 1)} \cup {q[n]} = {q[i] : i \in 1..n}
    BY <1>6
  <2>3. {q[i] : i \in 1..n} = {r[i] : i \in 1..n}
    BY <1>5
  <2> QED BY <2>1, <2>2, <2>3
<1>13. channel' = r[Len(path') + 1]
  BY <1>3, <1>5, <1>11
<1>14. PICK m : m = n + 1
  OBVIOUS
<1>15. m \in Nat \ {0} /\ m - 1 = n /\ 1..(m - 1) = 1..n /\ n < m
  BY <1>2, <1>14
<1>16. r \in [1..m -> Channels]
  BY <1>5, <1>14
<1>17. seen' = {r[i] : i \in 1..(m - 1)}
  BY <1>12, <1>15
<1>18. Walk(r, m)'
  BY <1>1, <1>7, <1>8, <1>10, <1>11, <1>13, <1>15, <1>16, <1>17 DEF Walk
<1> QED BY <1>1, <1>14, <1>18

\* A channel that is undefined or on the walk already dooms it.
LEMMA FailWalk ==
    ASSUME ReadInv, ResolutionType, NEW n, NEW q, Walk(q, n), Fail, channel # NoChannel,
           UNCHANGED <<definitionVars, entry>>
    PROVE  Walk(q, n)' /\ Outcome(q, n)' /\ resolved' # Pending
<1>1. /\ resolved = Pending /\ resolved' = None /\ channel' = channel /\ path' = path
      /\ channel \in seen \/ channel \notin DOMAIN scalars \cup DOMAIN calculated
  BY DEF Fail
<1>2. resolved' # Pending
  BY <1>1 DEF Pending, None
<1>3. Walk(q, n)'
  BY <1>1, <1>2, DefinitionsKept DEF Walk, Asked, definitionVars
<1>4. Doomed(channel)
  <2>1. CASE channel \in seen
    <3> DEFINE C == {q[i] : i \in 1..(n - 1)}
    <3>1. n \in Nat \ {0} /\ seen = C /\ channel = q[n]
      BY <1>1 DEF Walk
    <3>2. ASSUME NEW c \in C PROVE c \in Channels /\ c \in Derived /\ calculated[c].source \in C
      <4>1. PICK i \in 1..(n - 1) : c = q[i]
        OBVIOUS
      <4>2. q[i] \in Derived /\ calculated[q[i]].source = q[i + 1] /\ q[i] \in Channels
        BY <3>1 DEF Walk
      <4>3. i + 1 = n \/ i + 1 \in 1..(n - 1)
        BY <3>1
      <4>4. q[i + 1] \in C
        BY <4>3, <3>1, <2>1
      <4> QED BY <4>1, <4>2, <4>4
    <3> HIDE DEF C
    <3>3. Closed(C)
      BY <3>2 DEF Closed
    <3> QED BY <2>1, <3>1, <3>3 DEF Doomed
  <2>2. CASE channel \notin DOMAIN scalars \cup DOMAIN calculated
    BY <2>2, BarrenIsDoomed DEF Barren, ResolutionType
  <2> QED BY <1>1, <2>1, <2>2
<1>5. Doomed(channel)' = Doomed(channel)
  BY <1>1, DefinitionsKept
<1>6. Outcome(q, n)'
  BY <1>1, <1>4, <1>5 DEF Outcome
<1> QED BY <1>2, <1>3, <1>6

\* A return composes the outcome with one channel more.
LEMMA ReturnWalk ==
    ASSUME ReadInv, ResolutionType, NEW n, NEW q, Walk(q, n), Outcome(q, n), Return,
           UNCHANGED <<definitionVars, entry>>
    PROVE  Walk(q, n)' /\ Outcome(q, n)' /\ resolved' # Pending
<1>1. /\ resolved # Pending /\ path # <<>>
      /\ channel' = Last(path) /\ path' = Front(path)
      /\ resolved' = Composed(resolved, calculated[Last(path)])
  BY DEF Return
<1>2. path \in Seq(Channels)
  BY DEF ResolutionType
<1>3. PICK k : k = Len(path)
  OBVIOUS
<1>4. /\ k \in Nat \ {0} /\ channel' = path[k] /\ Len(path') = k - 1
      /\ \A i \in 1..(k - 1) : path'[i] = path[i]
  BY <1>1, <1>2, <1>3, FrontFacts DEF Last, Front
<1>5. n \in Nat \ {0} /\ k < n /\ (\A i \in 1..k : path[i] = q[i]) /\ channel = q[k + 1]
  BY <1>3 DEF Walk
<1>6. /\ channel' = q[(k - 1) + 1] /\ channel' = q[k] /\ k \in 1..(n - 1) /\ k - 1 < n
      /\ \A i \in 1..(k - 1) : path'[i] = q[i]
  BY <1>4, <1>5
<1>7. q[k] \in Derived /\ calculated[q[k]].source = q[k + 1]
  BY <1>6 DEF Walk
<1>8. resolved' = Composed(resolved, calculated[q[k]])
  BY <1>1, <1>4, <1>6
<1>9. resolved' # Pending
  BY <1>8 DEF Composed, Pending, None
<1>10. Walk(q, n)'
  BY <1>4, <1>6, <1>9, DefinitionsKept DEF Walk, Asked, definitionVars
<1>11. ASSUME resolved' = None PROVE Doomed(channel') \/ TwoTables(Asked)
  <2>1. CASE resolved = None
    <3>1. Doomed(channel) => Doomed(channel')
      BY <1>5, <1>6, <1>7, DoomedUp
    <3> QED BY <2>1, <3>1 DEF Outcome
  <2>2. CASE resolved # None
    <3>1. calculated[q[k]].file # NoFile /\ resolved.file # NoFile
      BY <1>8, <1>11, <2>2 DEF Composed, None
    <3>2. PICK j \in (k + 1)..(n - 1) : IsTable(q[j])
      BY <3>1, <2>2, <1>3 DEF Outcome
    <3>3. j \in 1..(n - 1) /\ k \in 1..(j - 1) /\ IsTable(q[k])
      BY <1>5, <1>6, <3>1, <3>2 DEF IsTable
    <3> QED BY <3>2, <3>3, WalkTables
  <2> QED BY <2>1, <2>2
<1>12. ASSUME resolved' # None
       PROVE  /\ q[n] \in DOMAIN scalars
              /\ resolved'.scalar = q[n]
              /\ resolved'.file # NoFile =>
                    \E j \in k..(n - 1) : IsTable(q[j]) /\ resolved'.file = calculated[q[j]].file
  <2>1. resolved # None
    BY <1>8, <1>12 DEF Composed
  <2>2. /\ resolved'.scalar = resolved.scalar
        /\ resolved'.file = IF calculated[q[k]].file # NoFile THEN calculated[q[k]].file ELSE resolved.file
    BY <1>8, <1>12, <2>1 DEF Composed
  <2>3. q[n] \in DOMAIN scalars /\ resolved.scalar = q[n]
    BY <2>1 DEF Outcome
  <2>4. CASE calculated[q[k]].file # NoFile
    <3>1. k \in k..(n - 1)
      BY <1>6
    <3> QED BY <2>2, <2>3, <2>4, <3>1 DEF IsTable
  <2>5. CASE calculated[q[k]].file = NoFile
    <3>1. \A j \in (k + 1)..(n - 1) : j \in k..(n - 1)
      BY <1>4
    <3>2. resolved.file # NoFile =>
            \E j \in (k + 1)..(n - 1) : IsTable(q[j]) /\ resolved.file = calculated[q[j]].file
      BY <2>1, <1>3 DEF Outcome
    <3> QED BY <2>2, <2>3, <2>5, <3>1, <3>2
  <2> QED BY <2>4, <2>5
<1>13. Outcome(q, n)'
  <2>1. (Len(path') + 1)..(n - 1) = k..(n - 1)
    BY <1>4
  <2>2. scalars' = scalars /\ calculated' = calculated /\ entry' = entry /\ (\A c : IsTable(c)' = IsTable(c))
    BY DefinitionsKept DEF definitionVars
  <2>3. TwoTables(Asked)' = TwoTables(Asked)
    BY DefinitionsKept DEF Asked
  <2>4. Doomed(channel)' = Doomed(channel')
    BY DefinitionsKept
  <2> QED BY <1>11, <1>12, <2>1, <2>2, <2>3, <2>4 DEF Outcome
<1> QED BY <1>9, <1>10, <1>13

------------------------------------------------------------------------------
(* Resolution: the invariant *)

\* A call or return keeps the types.
LEMMA ResolveTypes ==
    ASSUME ReadInv, ResolutionType, Busy, Resolve, UNCHANGED <<entry, at, sections>>
    PROVE  ResolutionType' /\ channel' # NoChannel
<1>1. AllRead' /\ Asked' = Asked /\ channel \in Channels /\ path \in Seq(Channels)
  BY DEF AllRead, Asked, ResolutionType, Busy
<1>2. channel' \in Channels /\ path' \in Seq(Channels)
  <2>1. CASE FoundScalar \/ Fail
    BY <1>1, <2>1 DEF FoundScalar, Fail
  <2>2. CASE Descend
    BY <1>1, <2>2, DefinitionFacts DEF Descend
  <2>3. CASE Return
    BY <1>1, <2>3, FrontFacts DEF Return, Last, Front
  <2> QED BY <2>1, <2>2, <2>3 DEF Resolve
<1> QED BY <1>1, <1>2, ChannelsAssumption DEF ResolutionType, Busy

\* ResolveEntry keeps ResolutionInv.
LEMMA ResolveEntryInv ==
    ASSUME ReadInv, ResolutionInv, ResolveEntry
    PROVE  ResolutionInv'
<1>1. /\ Busy /\ Resolve /\ channel # NoChannel
      /\ UNCHANGED <<definitionVars, entry, at, sections, warnings>>
  BY DEF ResolveEntry, Resolve, Busy, frontVars
<1>2. ResolutionType /\ ResolutionType' /\ channel' # NoChannel
  BY <1>1, ResolveTypes DEF ResolutionInv
<1>3. PICK n, q : Walk(q, n) /\ (resolved # Pending => Outcome(q, n))
  BY <1>1 DEF ResolutionInv
<1>4. \E m, r : Walk(r, m)' /\ (resolved' # Pending => Outcome(r, m)')
  <2>1. CASE FoundScalar
    BY <1>1, <1>3, <2>1, FoundScalarWalk
  <2>2. CASE Descend
    BY <1>1, <1>2, <1>3, <2>2, DescendWalk
  <2>3. CASE Fail
    BY <1>1, <1>2, <1>3, <2>3, FailWalk
  <2>4. CASE Return
    <3>1. Outcome(q, n)
      BY <1>3, <2>4 DEF Return
    <3> QED BY <1>1, <1>2, <1>3, <2>4, <3>1, ReturnWalk
  <2> QED BY <1>1, <2>1, <2>2, <2>3, <2>4 DEF Resolve
<1>5. \A e \in warnings' : Due(FieldMap[e].channel)'
  BY <1>1, DefinitionsKept DEF ResolutionInv
<1>6. warnings' # {} => AllRead'
  BY <1>1 DEF ResolutionInv, AllRead
<1> QED BY <1>2, <1>4, <1>5, <1>6 DEF ResolutionInv

\* A field is given up when there is a reason for it.
LEMMA EndEntryDue ==
    ASSUME ReadInv, ResolutionInv, Busy, Resolved, FieldConfig(FieldMap[entry].field) = None
    PROVE  Due(Asked)
<1>1. PICK n, q : Walk(q, n) /\ Outcome(q, n)
  BY DEF ResolutionInv, Busy, Resolved
<1>2. Len(path) = 0 /\ channel = q[1] /\ q[1] = Asked /\ n \in Nat \ {0} /\ 1 \in 1..n /\ n \in 1..n
  BY <1>1 DEF Resolved, Walk
<1>3. CASE resolved = None
  BY <1>1, <1>2, <1>3 DEF Outcome, Due
<1>4. CASE resolved # None
  <2>1. q[n] \in DOMAIN scalars /\ resolved.scalar = q[n] /\ q[n] \in Channels
    BY <1>1, <1>2, <1>4 DEF Outcome, Walk
  <2>2. \/ ~scalars[q[n]].usable
        \/ resolved.file # NoFile /\ ReadTable(resolved.file) = <<>>
    BY <1>4, <2>1 DEF FieldConfig, None
  <2>3. CASE ~scalars[q[n]].usable
    <3>1. Doomed(q[n])
      BY <2>1, <2>3, BarrenIsDoomed DEF Barren
    <3> QED BY <3>1, <1>1, <1>2, WalkTop DEF Due
  <2>4. CASE resolved.file # NoFile /\ ReadTable(resolved.file) = <<>>
    <3>1. PICK j \in 1..(n - 1) : IsTable(q[j]) /\ resolved.file = calculated[q[j]].file
      BY <1>1, <1>2, <1>4, <2>4 DEF Outcome
    <3>2. j \in 1..n /\ q[j] \in Derived /\ q[j] \in Channels
      BY <1>1, <1>2 DEF Walk
    <3>3. Doomed(q[j])
      BY <2>4, <3>1, <3>2, BarrenIsDoomed DEF Barren
    <3> QED BY <3>2, <3>3, <1>1, <1>2, WalkTop DEF Due
  <2> QED BY <2>2, <2>3, <2>4
<1> QED BY <1>3, <1>4

\* EndEntry keeps ResolutionInv: a warning is due.
LEMMA EndEntryInv ==
    ASSUME ReadInv, ResolutionInv, EndEntry
    PROVE  ResolutionInv'
<1>1. /\ Busy /\ Resolved /\ channel' = NoChannel
      /\ UNCHANGED <<definitionVars, path, entry, at, sections>>
      /\ \/ warnings' = warnings
         \/ FieldConfig(FieldMap[entry].field) = None /\ warnings' = warnings \cup {entry}
  BY DEF EndEntry
<1>2. ResolutionType'
  BY <1>1 DEF ResolutionInv, ResolutionType, Resolved
<1>3. AllRead'
  BY <1>1 DEF Busy, AllRead
<1>4. ASSUME NEW e \in warnings' PROVE Due(FieldMap[e].channel)
  <2>1. CASE e \in warnings
    BY <2>1 DEF ResolutionInv
  <2>2. CASE e \notin warnings
    <3>1. FieldConfig(FieldMap[entry].field) = None /\ e = entry
      BY <1>1, <1>4, <2>2
    <3> QED BY <1>1, <3>1, EndEntryDue DEF Asked
  <2> QED BY <2>1, <2>2
<1>5. \A e \in warnings' : Due(FieldMap[e].channel)'
  BY <1>1, <1>4, DefinitionsKept
<1> QED BY <1>1, <1>2, <1>3, <1>5 DEF ResolutionInv

\* Every step keeps ResolutionInv.
LEMMA ResolutionNext ==
    ASSUME ReadInv, ResolutionInv, [Next]_vars
    PROVE  ResolutionInv'
<1>1. CASE PreprocessLine
  BY <1>1, ResolutionUnchanged DEF PreprocessLine, frontVars, AllRead
<1>2. CASE SectionEnd
  <2>1. ~AllRead /\ Len(sections) \in Nat
    BY <1>2, InputFacts DEF SectionEnd, AllRead, ReadInv
  <2>2. channel = NoChannel /\ warnings = {}
    BY <2>1 DEF ResolutionInv, ResolutionType
  <2>3. UNCHANGED <<resolutionVars, entry, warnings>>
    BY <1>2 DEF SectionEnd
  <2> QED BY <2>2, <2>3 DEF ResolutionInv, ResolutionType, resolutionVars
<1>3. CASE SkipEntry
  <2>1. /\ channel = NoChannel /\ channel' = NoChannel /\ path' = path /\ warnings' = warnings
        /\ entry' = entry + 1 /\ entry < Len(FieldMap) /\ AllRead /\ AllRead'
        /\ UNCHANGED definitionVars
    BY <1>3 DEF SkipEntry, resolutionVars, Idle, AllRead
  <2>2. \A e \in warnings' : Due(FieldMap[e].channel)'
    BY <2>1, DefinitionsKept DEF ResolutionInv
  <2> QED BY <2>1, <2>2, FieldMapFacts DEF ResolutionInv, ResolutionType
<1>4. CASE BeginEntry
  BY <1>4, BeginEntryWalk
<1>5. CASE ResolveEntry
  BY <1>5, ResolveEntryInv
<1>6. CASE EndEntry
  BY <1>6, EndEntryInv
<1>7. CASE UNCHANGED vars
  BY <1>7, ResolutionUnchanged DEF vars, frontVars, AllRead
<1> QED BY <1>1, <1>2, <1>3, <1>4, <1>5, <1>6, <1>7 DEF Next, Finished

\* The invariant of reading and resolving, for all inputs and field maps.
THEOREM FrontEndInductive == Spec => [](ReadInv /\ ResolutionInv)
<1>1. Init => ReadInv /\ ResolutionInv
  BY ReadInit, ResolutionInit
<1>2. ReadInv /\ ResolutionInv /\ [Next]_vars => (ReadInv /\ ResolutionInv)'
  BY ReadNext, ResolutionNext
<1> QED BY <1>1, <1>2, PTL DEF Spec

\* Definitions that refer to each other end the recursion of
\* _resolve_tunerstudio_channel: no channel is resolved inside its own
\* resolution.
THEOREM ResolutionEnds == Spec => []NoChannelTwice
<1>1. ResolutionInv => NoChannelTwice
  <2> SUFFICES ASSUME ResolutionInv, NEW i \in DOMAIN path, NEW j \in DOMAIN path, path[i] = path[j]
               PROVE  i = j
    BY DEF NoChannelTwice
  <2>1. path \in Seq(Channels) /\ DOMAIN path = 1..Len(path) /\ Len(path) \in Nat
    BY DEF ResolutionInv, ResolutionType
  <2>2. path # <<>>
    BY <2>1
  <2>3. PICK n, q : Walk(q, n)
    BY <2>2 DEF ResolutionInv, ResolutionType
  <2>4. n \in Nat /\ i \in 1..(n - 1) /\ j \in 1..(n - 1) /\ q[i] = q[j]
    BY <2>1, <2>3 DEF Walk
  <2> QED BY <2>3, <2>4 DEF Walk
<1> QED BY <1>1, FrontEndInductive, PTL

------------------------------------------------------------------------------
(* Values *)

\* int() gives integers.
LEMMA TruncatedType == ASSUME NEW v \in Fraction PROVE Truncated(v) \in Int
<1>1. v[1] \in Int /\ v[2] \in Nat \ {0}
  BY DEF Fraction
<1>2. v[1] \div v[2] \in Int /\ (-v[1]) \div v[2] \in Int
  BY <1>1
<1> QED BY <1>1, <1>2 DEF Truncated

\* Tables hold numbers.
LEMMA TableEntryType ==
    ASSUME NEW t \in Seq(Int), t # <<>>, NEW v \in Fraction
    PROVE  TableEntry(t, v) \in Fraction
<1>1. Truncated(v) \in Int /\ Len(t) \in Nat \ {0}
  BY TruncatedType
<1>2. PICK i : i = IF Truncated(v) < 0 THEN 1 ELSE IF Truncated(v) >= Len(t) THEN Len(t) ELSE Truncated(v) + 1
  OBVIOUS
<1>3. i \in 1..Len(t)
  BY <1>1, <1>2
<1>4. t[i] \in Int
  BY <1>3
<1>5. TableEntry(t, v) = Whole(t[i])
  BY <1>2 DEF TableEntry
<1> QED BY <1>4, <1>5, WholeType

\* Min is the least element.
LEMMA MinExists ==
    ASSUME NEW n \in Nat, NEW S \in SUBSET (1..n), S # {}
    PROVE  Min(S) \in S /\ \A k \in S : Min(S) <= k
<1> DEFINE Q(T) == T # {} => \E x \in T : \A y \in T : x <= y
<1> DEFINE U == {m \in Nat : \A T \in SUBSET (1..m) : Q(T)}
<1>1. 0 \in U
  <2>1. 1..0 = {}
    OBVIOUS
  <2> QED BY <2>1
<1>2. ASSUME NEW m \in U PROVE m + 1 \in U
  <2>1. ASSUME NEW T \in SUBSET (1..(m + 1)) PROVE Q(T)
    <3>3. SUFFICES ASSUME T # {} PROVE \E x \in T : \A y \in T : x <= y
      OBVIOUS
    <3>1. CASE T = {m + 1}
      BY <3>1
    <3>2. CASE T # {m + 1}
      <4>1. PICK x \in T \ {m + 1} : \A y \in T \ {m + 1} : x <= y
        <5>1. T \ {m + 1} \in SUBSET (1..m)
          OBVIOUS
        <5>2. Q(T \ {m + 1})
          BY <5>1
        <5> QED BY <3>2, <3>3, <5>2
      <4>2. \A y \in T : x <= y
        BY <4>1
      <4> QED BY <4>1, <4>2
    <3> QED BY <3>1, <3>2
  <2> HIDE DEF Q
  <2> QED BY <2>1
<1>3. U = Nat
  <2>1. U \in SUBSET Nat
    OBVIOUS
  <2> HIDE DEF U
  <2> QED BY <1>1, <1>2, <2>1, Induct
<1>4. Q(S)
  <2>1. n \in U
    BY <1>3
  <2> HIDE DEF Q
  <2> QED BY <2>1
<1>5. PICK x \in S : \A y \in S : x <= y
  BY <1>4
<1>6. Min(S) \in S /\ \A y \in S : Min(S) <= y
  BY <1>5 DEF Min
<1> QED BY <1>6

\* What is read is a table, or empty.
LEMMA ReadTableType == ASSUME NEW f PROVE ReadTable(f) \in Seq(Int)
<1> DEFINE having == {d \in DOMAIN Directories : f \in DOMAIN Directories[d]}
<1>1. CASE having = {}
  BY <1>1 DEF ReadTable
<1>2. CASE having # {}
  <2>1. DOMAIN Directories = 1..Len(Directories) /\ Len(Directories) \in Nat
    BY DirectoriesAssumption
  <2>2. having \in SUBSET (1..Len(Directories))
    BY <2>1
  <2>3. PICK m : m = Min(having)
    OBVIOUS
  <2>4. m \in having
    BY <1>2, <2>1, <2>2, <2>3, MinExists
  <2>5. ReadTable(f) = Directories[m][f]
    BY <1>2, <2>3 DEF ReadTable
  <2> QED BY <2>4, <2>5, DirectoriesAssumption
<1> QED BY <1>1, <1>2

\* The parts of a reading.
LEMMA ReadingFacts ==
    ASSUME NEW r \in Readings, NEW c \in Channels
    PROVE  /\ r.raw \in Int
           /\ r.definitions[c] \in Definitions \cup {Undefined}
  BY DEF Readings

\* The kinds of definitions.
LEMMA DefinitionKinds ==
    ASSUME NEW d \in Definitions \cup {Undefined}
    PROVE  /\ d.kind = "scalar" => d.scale \in Fraction /\ d.translate \in Fraction
           /\ d.kind = "calculated" => d.expression \in Expressions
           /\ d.kind \in {"scalar", "calculated", "none"}
  BY DEF Definitions, Undefined

\* Values are fractions.
LEMMA ValueType ==
    ASSUME NEW d \in Definitions \cup {Undefined}, NEW raw \in Int, NEW values \in Valuations
    PROVE  Value(d, raw, values) \in SUBSET Fraction
<1>1. CASE d.kind = "scalar"
  <2>1. Plus(Times(Whole(raw), d.scale), d.translate) \in Fraction
    BY <1>1, DefinitionKinds, WholeType, TimesType, PlusType
  <2> QED BY <1>1, <2>1 DEF Value
<1>2. CASE d.kind = "calculated"
  <2>1. d.expression \in Expressions
    BY <1>2, DefinitionKinds
  <2>2. CASE d.expression.op # "table"
    BY <1>2, <2>1, <2>2, ValueStep DEF Value
  <2>3. CASE d.expression.op = "table"
    <3>1. d.expression.name \in Channels
      BY <2>1, <2>3, ExpressionsAssumption
    <3>2. \A v \in values[d.expression.name] : v \in Fraction
      BY <3>1 DEF Valuations
    <3>3. \A t \in {ReadTable(d.expression.file)} \ {<<>>} : t \in Seq(Int) /\ t # <<>>
      BY ReadTableType
    <3>4. Value(d, raw, values) =
              {TableEntry(t, v) : t \in {ReadTable(d.expression.file)} \ {<<>>}, v \in values[d.expression.name]}
      BY <1>2, <2>3 DEF Value
    <3> QED BY <3>2, <3>3, <3>4, TableEntryType
  <2> QED BY <2>2, <2>3
<1>3. CASE d.kind = "none"
  BY <1>3 DEF Value
<1> QED BY <1>1, <1>2, <1>3, DefinitionKinds

\* The recursive definition of Known holds.
LEMMA KnownStep ==
    /\ Rounds \in Nat
    /\ Known \in [0..Rounds -> [Readings -> Valuations]]
    /\ \A n \in 0..Rounds : \A r \in Readings :
          Known[n][r] = IF n = 0 THEN NoValues
                        ELSE [c \in Channels |-> Value(r.definitions[c], r.raw, Known[n - 1][r])]
<1> DEFINE E == 0..Rounds
<1> DEFINE T == [Readings -> Valuations]
<1> DEFINE rank == [n \in E |-> n]
<1> DEFINE V(n, f, r) ==
        IF n = 0 THEN NoValues ELSE [c \in Channels |-> Value(r.definitions[c], r.raw, f[n - 1][r])]
<1> DEFINE Body(n, f) == [r \in Readings |-> V(n, f, r)]
<1> DEFINE step == [x \in E \X [E -> T] |-> Body(x[1], x[2])]
<1>0. Rounds \in Nat
  BY ChannelsAssumption, FS_CardinalityType DEF Rounds
<1>00. NoValues \in Valuations
  BY DEF NoValues, Valuations
<1>01. ASSUME NEW f, NEW n \in E, NEW r \in Readings, n # 0 => f[n - 1][r] \in Valuations
       PROVE  V(n, f, r) \in Valuations
  <2>1. CASE n = 0
    BY <2>1, <1>00
  <2>2. CASE n # 0
    <3>1. \A c \in Channels : Value(r.definitions[c], r.raw, f[n - 1][r]) \in SUBSET Fraction
      BY <2>2, <1>01, ReadingFacts, ValueType
    <3> QED BY <2>2, <3>1 DEF Valuations
  <2> QED BY <2>1, <2>2
<1>1. ASSUME NEW n \in E, NEW f \in [E -> T] PROVE Body(n, f) \in T
  <2>1. n # 0 => n - 1 \in E
    BY <1>0
  <2>2. \A r \in Readings : n # 0 => f[n - 1][r] \in Valuations
    BY <2>1
  <2> HIDE DEF V
  <2> QED BY <2>2, <1>01
<1>2. step \in [E \X [E -> T] -> T]
  <2> HIDE DEF Body
  <2> QED BY <1>1
<1>3. ASSUME NEW n \in E, NEW f \in [E -> T], NEW g \in [E -> T],
             \A p \in E : rank[p] < rank[n] => f[p] = g[p]
      PROVE step[<<n, f>>] = step[<<n, g>>]
  <2>1. n # 0 => f[n - 1] = g[n - 1]
    BY <1>0, <1>3
  <2>2. Body(n, f) = Body(n, g)
    BY <2>1
  <2> HIDE DEF Body
  <2> QED BY <2>2
<1>4. PICK f \in [E -> T] : \A n \in E : f[n] = step[<<n, f>>]
  <2>0. T # {}
    <3>1. [r \in Readings |-> NoValues] \in T
      BY <1>00
    <3> QED BY <3>1
  <2>1. IsRank(E, rank)
    BY <1>0 DEF IsRank
  <2> HIDE DEF step, T, E
  <2>2. IsStep(E, rank, T, step)
    BY <1>2, <1>3, <2>0 DEF IsStep
  <2> HIDE DEF rank
  <2>3. Solution(E, T, step)
    BY <2>1, <2>2, Recursion
  <2> QED BY <2>3 DEF Solution
<1>5. f = [n \in E |-> Body(n, f)]
  <2>1. \A n \in E : step[<<n, f>>] = Body(n, f)
    <3> HIDE DEF Body
    <3> QED OBVIOUS
  <2> HIDE DEF step, Body
  <2> QED BY <1>4, <2>1
<1>6. Known = [n \in E |-> Body(n, Known)]
  BY <1>5 DEF Known
<1> DEFINE S == {n \in Nat : n \in E => Known[n] \in T}
<1>7. S = Nat
  <2>1. Known[0] = Body(0, Known) /\ 0 \in E
    BY <1>0, <1>6
  <2>2. 0 \in S
    BY <2>1, <1>00
  <2>3. ASSUME NEW n \in S PROVE n + 1 \in S
    <3> SUFFICES ASSUME n + 1 \in E PROVE Known[n + 1] \in T
      OBVIOUS
    <3>1. n \in E /\ (n + 1) - 1 = n
      BY <1>0
    <3>2. Known[n] \in T
      BY <3>1
    <3>3. \A r \in Readings : V(n + 1, Known, r) \in Valuations
      <4> HIDE DEF V
      <4> QED BY <1>01, <3>1, <3>2
    <3>4. Known[n + 1] = Body(n + 1, Known)
      <4> HIDE DEF Body
      <4> QED BY <1>6
    <3> HIDE DEF V
    <3> QED BY <3>3, <3>4
  <2>4. S \in SUBSET Nat
    OBVIOUS
  <2> HIDE DEF S
  <2> QED BY <2>2, <2>3, <2>4, Induct
<1>8. \A n \in E : Known[n] \in T
  <2>1. \A n \in E : n \in Nat
    BY <1>0
  <2> HIDE DEF T
  <2> QED BY <1>7, <2>1
<1>9. Known \in [E -> T]
  <2> HIDE DEF Body, T
  <2> QED BY <1>6, <1>8
<1>10. \A n \in E : Known[n] = Body(n, Known)
  <2> HIDE DEF Body
  <2> QED BY <1>6
<1>11. ASSUME NEW n \in E, NEW r \in Readings PROVE Known[n][r] = V(n, Known, r)
  <2> HIDE DEF V
  <2> QED BY <1>10
<1> QED BY <1>0, <1>9, <1>11

------------------------------------------------------------------------------
(* What has no value, and the warnings *)

Formulas == FormulasOf(sections)
Meant == Equations(scalars, Formulas)
Reading(raw) == [definitions |-> Meant, raw |-> raw]

\* What each channel is defined as, and that the code has the parsed form of it.
LEMMA MeantFacts ==
    ASSUME ReadInv, AllRead
    PROVE  /\ \A c \in DOMAIN scalars : Meant[c] = scalars[c] /\ scalars[c].kind = "scalar"
           /\ \A c \in Derived :
                 /\ c \in Channels
                 /\ c \in DOMAIN Formulas
                 /\ Meant[c] = [kind |-> "calculated", name |-> c, expression |-> Formulas[c]]
                 /\ Formulas[c] \in Expressions
                 /\ calculated[c] = Parsed(Formulas[c])
                 /\ Parsed(Formulas[c]) # None
           /\ \A c \in Channels : c \notin DOMAIN scalars \cup DOMAIN calculated => Meant[c] = Undefined
           /\ \A raw \in Int : Reading(raw) \in Readings
<1>1. calculated = [c \in DOMAIN Formulas |-> Parsed(Formulas[c])]
  BY ReadMeans DEF LastSelectedDefinitionCounts, Formulas
<1>2. sections \in Inputs /\ sections \in Seq(Seq(Lines))
  BY InputFacts DEF ReadInv
<1>3. ASSUME NEW c \in DOMAIN Formulas
      PROVE  Formulas[c] \in Expressions /\ Parsed(Formulas[c]) # None /\ c \in Channels
  <2> DEFINE S == DefinitionsOf(sections, c)
  <2>1. S # {} /\ Formulas[c] = DefinitionAt(sections, LastOf(S)).expression /\ c \in Channels
    BY DEF Formulas, FormulasOf
  <2>2. S \in SUBSET Positions(sections)
    BY <1>2, DefinitionPositions
  <2>3. PICK p \in S : p = LastOf(S)
    BY <1>2, <2>1, <2>2, LastExists
  <2>4. HoldsKind(sections[p[1]][p[2]], "calculated") /\ Parsed(DefinitionAt(sections, p).expression) # None
    BY DEF DefinitionsOf, LinesOf
  <2>5. sections[p[1]][p[2]] \in Lines
    BY <1>2, <2>2, PositionFacts
  <2>6. DefinitionAt(sections, p).expression \in Expressions
    BY <2>4, <2>5, LineFields DEF HoldsKind, DefinitionAt
  <2> QED BY <2>1, <2>3, <2>4, <2>6
<1>4. DOMAIN scalars \subseteq Channels /\ \A c \in DOMAIN scalars : scalars[c] \in Definitions /\ scalars[c].kind = "scalar"
  BY <1>2, ScalarsType DEF ReadInv
<1>5. \A c \in DOMAIN scalars : Meant[c] = scalars[c]
  BY <1>4 DEF Meant, Equations
<1>6. \A c \in DOMAIN Formulas : c \in Channels
  BY <1>3
<1>7. \A c \in Derived : c \in DOMAIN Formulas /\ c \notin DOMAIN scalars
  BY <1>1 DEF Derived
<1>8. \A c \in Derived : Meant[c] = [kind |-> "calculated", name |-> c, expression |-> Formulas[c]]
  BY <1>6, <1>7 DEF Meant, Equations
<1>9. \A c \in Channels : c \notin DOMAIN scalars \cup DOMAIN calculated => Meant[c] = Undefined
  BY <1>1 DEF Meant, Equations
<1>10. Meant \in [Channels -> Definitions \cup {Undefined}]
  <2>0. \A c \in Channels : \A e \in Expressions :
            [kind |-> "calculated", name |-> c, expression |-> e] \in Definitions
    BY DEF Definitions
  <2>1. \A c \in Derived : Meant[c] \in Definitions
    BY <1>3, <1>7, <1>8, <2>0
  <2>2. \A c \in Channels : Meant[c] \in Definitions \cup {Undefined}
    BY <1>4, <1>5, <1>9, <2>1 DEF Derived
  <2>3. Meant = [c \in Channels |-> Meant[c]]
    BY DEF Meant, Equations
  <2> HIDE DEF Meant
  <2> QED BY <2>2, <2>3
<1>11. \A raw \in Int : Reading(raw) \in Readings
  BY <1>10 DEF Reading, Readings
<1>12. \A c \in Derived : calculated[c] = Parsed(Formulas[c])
  BY <1>1, <1>7
<1> HIDE DEF Formulas
<1> QED BY <1>3, <1>4, <1>5, <1>7, <1>8, <1>9, <1>11, <1>12

\* The values of one round come from those of the round before.
LEMMA KnownFacts ==
    ASSUME ReadInv, AllRead, NEW raw \in Int, NEW n \in 0..Rounds
    PROVE  /\ Known[n][Reading(raw)] \in Valuations
           /\ n = 0 => \A c \in Channels : Known[n][Reading(raw)][c] = {}
           /\ n # 0 => /\ n - 1 \in 0..Rounds
                       /\ \A c \in Channels :
                             Known[n][Reading(raw)][c] = Value(Meant[c], raw, Known[n - 1][Reading(raw)])
<1>1. Reading(raw) \in Readings
  BY MeantFacts
<1>2. Reading(raw).definitions = Meant /\ Reading(raw).raw = raw
  BY DEF Reading
<1>3. Rounds \in Nat /\ Known[n][Reading(raw)] \in Valuations
  BY <1>1, KnownStep
<1>4. n # 0 => n - 1 \in 0..Rounds
  BY <1>3
<1>5. n = 0 => \A c \in Channels : Known[n][Reading(raw)][c] = {}
  BY <1>1, KnownStep DEF NoValues
<1>6. n # 0 => Known[n][Reading(raw)] =
               [c \in Channels |-> Value(Meant[c], raw, Known[n - 1][Reading(raw)])]
  BY <1>1, <1>2, KnownStep
<1> QED BY <1>3, <1>4, <1>5, <1>6

\* A calculated channel has no value when the channel it is calculated from has
\* none.
LEMMA NoSourceNoValue ==
    ASSUME ReadInv, AllRead, NEW raw \in Int, NEW values \in Valuations, NEW c \in Derived,
           values[calculated[c].source] = {}
    PROVE  Value(Meant[c], raw, values) = {}
<1> DEFINE e == Formulas[c]
<1>1. /\ Meant[c] = [kind |-> "calculated", name |-> c, expression |-> e]
      /\ e \in Expressions /\ calculated[c] = Parsed(e) /\ Parsed(e) # None
  BY MeantFacts
<1> HIDE DEF e
<1>2. Parsed(e).source \in Channels
  BY <1>1, ParsedFacts
<1>3. CASE e.op = "table"
  <2>1. values[e.name] = {}
    BY <1>1, <1>3, ParsedFacts
  <2> QED BY <1>1, <1>3, <2>1 DEF Value
<1>4. CASE e.op # "table"
  <2>1. Linear[e] \in Sums /\ Parsed(e).source \in DOMAIN Linear[e].coefficients
    BY <1>1, <1>4, ParsedFacts
  <2>2. Parsed(e).source \in Names[e]
    BY <1>1, <2>1, LinearNames, FormElim
  <2>3. ValueOf(e, values) = {}
    BY <1>1, <1>2, <2>2, ValueStrict
  <2> QED BY <1>1, <1>4, <2>3 DEF Value
<1> QED BY <1>3, <1>4

\* A barren channel has no value.
LEMMA BarrenNoValue ==
    ASSUME ReadInv, AllRead, NEW raw \in Int, NEW values \in Valuations, NEW c \in Channels, Barren(c)
    PROVE  Value(Meant[c], raw, values) = {}
<1>1. CASE c \in DOMAIN scalars /\ ~scalars[c].usable
  BY <1>1, MeantFacts DEF Value
<1>2. CASE c \notin DOMAIN scalars \cup DOMAIN calculated
  BY <1>2, MeantFacts DEF Value, Undefined
<1>3. CASE c \in Derived /\ IsTable(c) /\ ReadTable(calculated[c].file) = <<>>
  <2> DEFINE e == Formulas[c]
  <2>1. /\ Meant[c] = [kind |-> "calculated", name |-> c, expression |-> e]
        /\ e \in Expressions /\ calculated[c] = Parsed(e) /\ Parsed(e) # None
    BY <1>3, MeantFacts
  <2> HIDE DEF e
  <2>2. e.op = "table" /\ calculated[c].file = e.file
    BY <1>3, <2>1, ParsedFacts DEF IsTable
  <2> QED BY <1>3, <2>1, <2>2 DEF Value
<1> QED BY <1>1, <1>2, <1>3 DEF Barren

\* A doomed channel has no value, whatever the ECU sends.
LEMMA DoomedNoValue ==
    ASSUME ReadInv, AllRead, NEW raw \in Int, NEW d, Doomed(d)
    PROVE  Meaning(Meant, raw)[d] = {}
<1>1. PICK C : d \in C /\ Closed(C)
  BY DEF Doomed
<1> DEFINE S == {n \in Nat : n <= Rounds => \A c \in C : Known[n][Reading(raw)][c] = {}}
<1>2. C \subseteq Channels
  BY <1>1 DEF Closed
<1>3. Rounds \in Nat
  BY KnownStep
<1>4. 0 \in S
  BY <1>2, <1>3, KnownFacts
<1>5. ASSUME NEW n \in S PROVE n + 1 \in S
  <2> SUFFICES ASSUME n + 1 <= Rounds, NEW c \in C PROVE Known[n + 1][Reading(raw)][c] = {}
    OBVIOUS
  <2>1. n \in 0..Rounds /\ n + 1 \in 0..Rounds /\ n + 1 # 0 /\ (n + 1) - 1 = n
    BY <1>3
  <2> DEFINE values == Known[n][Reading(raw)]
  <2>2. values \in Valuations /\ Known[n + 1][Reading(raw)][c] = Value(Meant[c], raw, values)
    BY <1>2, <2>1, KnownFacts
  <2>3. CASE Barren(c)
    BY <1>2, <2>2, <2>3, BarrenNoValue
  <2>4. CASE c \in Derived /\ calculated[c].source \in C
    <3>1. values[calculated[c].source] = {}
      BY <2>1, <2>4
    <3> HIDE DEF values
    <3> QED BY <2>2, <2>4, <3>1, NoSourceNoValue
  <2> QED BY <1>1, <2>3, <2>4 DEF Closed
<1>6. S = Nat
  <2>1. S \in SUBSET Nat
    OBVIOUS
  <2> HIDE DEF S
  <2> QED BY <1>4, <1>5, <2>1, Induct
<1>7. Rounds \in S
  <2> HIDE DEF S
  <2> QED BY <1>3, <1>6
<1> QED BY <1>1, <1>3, <1>7 DEF Meaning, Reading

\* A field is given up only when its channel has no value or two tables would
\* have to be composed, for every input and field map, and whatever was resolved
\* for the fields before it.
THEOREM WarningsDue == Spec => []WarningsAreDue
<1>1. ReadInv /\ ResolutionInv => WarningsAreDue
  <2> SUFFICES ASSUME ReadInv, ResolutionInv, NEW e \in warnings,
                      ~TwoTables(FieldMap[e].channel), NEW raw \in Raws
               PROVE  Meaning(Meant, raw)[FieldMap[e].channel] = {}
    BY DEF WarningsAreDue, Meant, Formulas
  <2>1. AllRead /\ Doomed(FieldMap[e].channel)
    BY DEF ResolutionInv, Due
  <2>2. raw \in Int
    BY RawsAssumption
  <2> QED BY <2>1, <2>2, DoomedNoValue
<1> QED BY <1>1, FrontEndInductive, PTL

------------------------------------------------------------------------------
(* Arithmetic of fractions *)

\* A factor other than 0 cancels.
LEMMA Cancel ==
    ASSUME NEW a \in Int, NEW b \in Int, NEW c \in Int, c # 0, a * c = b * c
    PROVE  a = b
<1>1. (a - b) * c = 0
  OBVIOUS
<1>2. a - b = 0
  BY <1>1
<1> QED BY <1>2

\* The parts of a fraction.
LEMMA Parts1 ==
    ASSUME NEW p \in Fraction
    PROVE  p[1] \in Int /\ p[2] \in Int /\ p[2] > 0 /\ p[2] # 0 /\ p = <<p[1], p[2]>>
  BY DEF Fraction

\* Same is reflexive,
LEMMA SameRefl == ASSUME NEW p PROVE Same(p, p)
  BY DEF Same

\* symmetric,
LEMMA SameSym == ASSUME NEW p, NEW q, Same(p, q) PROVE Same(q, p)
  BY DEF Same

\* and transitive.
LEMMA SameTrans ==
    ASSUME NEW p \in Fraction, NEW q \in Fraction, NEW r \in Fraction, Same(p, q), Same(q, r)
    PROVE  Same(p, r)
<1>1. PICK a, b, c, d, e, f \in Int : p[1] = a /\ p[2] = b /\ q[1] = c /\ q[2] = d /\ r[1] = e /\ r[2] = f
  BY Parts1
<1>2. d # 0 /\ a * d = c * b /\ c * f = e * d
  BY <1>1, Parts1 DEF Same
<1>3. (a * f) * d = (e * b) * d
  <2>1. (a * f) * d = (a * d) * f
    OBVIOUS
  <2>2. (a * d) * f = (c * b) * f
    BY <1>2
  <2>3. (c * b) * f = (c * f) * b
    OBVIOUS
  <2>4. (c * f) * b = (e * d) * b
    BY <1>2
  <2>5. (e * d) * b = (e * b) * d
    OBVIOUS
  <2> QED BY <2>1, <2>2, <2>3, <2>4, <2>5
<1>4. a * f \in Int /\ e * b \in Int
  OBVIOUS
<1>5. a * f = e * b
  BY <1>2, <1>3, <1>4, Cancel
<1> QED BY <1>1, <1>5 DEF Same

\* Same fractions have the same sums,
LEMMA PlusSame ==
    ASSUME NEW p \in Fraction, NEW q \in Fraction, NEW r \in Fraction, NEW s \in Fraction,
           Same(p, r), Same(q, s)
    PROVE  Same(Plus(p, q), Plus(r, s))
<1>1. PICK a, b, c, d, e, f, g, h \in Int :
          p[1] = a /\ p[2] = b /\ q[1] = c /\ q[2] = d /\ r[1] = e /\ r[2] = f /\ s[1] = g /\ s[2] = h
  BY Parts1
<1>2. a * f = e * b /\ c * h = g * d
  BY <1>1 DEF Same
<1>3. (a * d + c * b) * (f * h) = (a * f) * (d * h) + (c * h) * (b * f)
  OBVIOUS
<1>4. (e * h + g * f) * (b * d) = (e * b) * (d * h) + (g * d) * (b * f)
  OBVIOUS
<1>5. (a * d + c * b) * (f * h) = (e * h + g * f) * (b * d)
  BY <1>2, <1>3, <1>4
<1> QED BY <1>1, <1>5 DEF Same, Plus

\* products,
LEMMA TimesSame ==
    ASSUME NEW p \in Fraction, NEW q \in Fraction, NEW r \in Fraction, NEW s \in Fraction,
           Same(p, r), Same(q, s)
    PROVE  Same(Times(p, q), Times(r, s))
<1>1. PICK a, b, c, d, e, f, g, h \in Int :
          p[1] = a /\ p[2] = b /\ q[1] = c /\ q[2] = d /\ r[1] = e /\ r[2] = f /\ s[1] = g /\ s[2] = h
  BY Parts1
<1>2. a * f = e * b /\ c * h = g * d
  BY <1>1 DEF Same
<1>3. (a * c) * (f * h) = (a * f) * (c * h)
  OBVIOUS
<1>4. (e * g) * (b * d) = (e * b) * (g * d)
  OBVIOUS
<1>5. (a * c) * (f * h) = (e * g) * (b * d)
  BY <1>2, <1>3, <1>4
<1> QED BY <1>1, <1>5 DEF Same, Times

\* and inverses.
LEMMA InvertedSame ==
    ASSUME NEW p \in Fraction, NEW q \in Fraction, Same(p, q), ~IsZero(p)
    PROVE  ~IsZero(q) /\ Same(Inverted(p), Inverted(q))
<1>1. PICK a, b, c, d \in Int : p[1] = a /\ p[2] = b /\ q[1] = c /\ q[2] = d
  BY Parts1
<1>2. a * d = c * b /\ b > 0 /\ d > 0 /\ a # 0
  BY <1>1, Parts1 DEF Same, IsZero
<1>3. c # 0 /\ (a < 0 <=> c < 0)
  <2>1. a > 0 => a * d > 0
    BY <1>2
  <2>2. a < 0 => a * d < 0
    BY <1>2
  <2>3. c > 0 => c * b > 0
    BY <1>2
  <2>4. c < 0 => c * b < 0
    BY <1>2
  <2>5. c = 0 => c * b = 0
    BY <1>2
  <2> QED BY <1>2, <2>1, <2>2, <2>3, <2>4, <2>5
<1>4. b * c = d * a /\ (-b) * (-c) = (-d) * (-a)
  BY <1>2
<1> QED BY <1>1, <1>3, <1>4 DEF Inverted, Same, IsZero

\* Sums commute and associate.
LEMMA PlusSwap ==
    ASSUME NEW p \in Fraction, NEW q \in Fraction, NEW r \in Fraction, NEW s \in Fraction
    PROVE  /\ Plus(Plus(p, q), Plus(r, s)) = Plus(Plus(p, r), Plus(q, s))
           /\ Plus(p, q) = Plus(q, p)
           /\ Plus(Plus(p, q), r) = Plus(p, Plus(q, r))
<1>1. PICK a, b, c, d, e, f, g, h \in Int :
          p[1] = a /\ p[2] = b /\ q[1] = c /\ q[2] = d /\ r[1] = e /\ r[2] = f /\ s[1] = g /\ s[2] = h
  BY Parts1
<1>2. /\ (a * d + c * b) * (f * h) + (e * h + g * f) * (b * d)
            = (a * f + e * b) * (d * h) + (c * h + g * d) * (b * f)
      /\ (b * d) * (f * h) = (b * f) * (d * h)
      /\ (a * d + c * b) * f + e * (b * d) = a * (d * f) + (c * f + e * d) * b
      /\ (b * d) * f = b * (d * f)
  OBVIOUS
<1> QED BY <1>1, <1>2 DEF Plus

\* So do products.
LEMMA TimesSwap ==
    ASSUME NEW p \in Fraction, NEW q \in Fraction, NEW r \in Fraction
    PROVE  /\ Times(Times(p, q), r) = Times(Times(p, r), q)
           /\ Times(Times(p, q), r) = Times(p, Times(q, r))
           /\ Times(p, q) = Times(q, p)
<1>1. PICK a, b, c, d, e, f \in Int :
          p[1] = a /\ p[2] = b /\ q[1] = c /\ q[2] = d /\ r[1] = e /\ r[2] = f
  BY Parts1
<1>2. /\ (a * c) * e = (a * e) * c /\ (b * d) * f = (b * f) * d
      /\ (a * c) * e = a * (c * e) /\ (b * d) * f = b * (d * f)
  OBVIOUS
<1> QED BY <1>1, <1>2 DEF Times

\* Products distribute over sums.
LEMMA Distributes ==
    ASSUME NEW p \in Fraction, NEW q \in Fraction, NEW r \in Fraction
    PROVE  Same(Times(Plus(p, q), r), Plus(Times(p, r), Times(q, r)))
<1>1. PICK a, b, c, d, e, f \in Int :
          p[1] = a /\ p[2] = b /\ q[1] = c /\ q[2] = d /\ r[1] = e /\ r[2] = f
  BY Parts1
<1>2. ((a * d + c * b) * e) * ((b * f) * (d * f)) = ((a * e) * (d * f) + (c * e) * (b * f)) * ((b * d) * f)
  OBVIOUS
<1> QED BY <1>1, <1>2 DEF Same, Times, Plus

\* 0 and 1.
LEMMA Units ==
    ASSUME NEW p \in Fraction
    PROVE  /\ Times(p, Whole(1)) = p /\ Times(Whole(1), p) = p
           /\ Plus(p, Whole(0)) = p /\ Plus(Whole(0), p) = p
           /\ \A q \in Fraction : IsZero(q) => /\ Same(Times(p, q), Whole(0))
                                               /\ Same(Times(q, p), Whole(0))
                                               /\ Same(q, Whole(0))
<1>1. p = <<p[1], p[2]>> /\ p[1] \in Int /\ p[2] \in Int
  BY Parts1
<1>2. p[1] * 1 = p[1] /\ 1 * p[1] = p[1] /\ p[2] * 1 = p[2] /\ 1 * p[2] = p[2]
  BY <1>1
<1>3. Times(p, Whole(1)) = p /\ Times(Whole(1), p) = p
  BY <1>1, <1>2 DEF Times, Whole
<1>4. ASSUME NEW q \in Fraction, IsZero(q)
      PROVE Same(Times(p, q), Whole(0)) /\ Same(Times(q, p), Whole(0)) /\ Same(q, Whole(0))
  <2>1. q[1] = 0 /\ q[2] \in Int
    BY <1>4, Parts1 DEF IsZero
  <2>2. (p[1] * 0) * 1 = 0 * (p[2] * q[2]) /\ (0 * p[1]) * 1 = 0 * (q[2] * p[2]) /\ 0 * 1 = 0 * q[2]
    BY <1>1, <2>1
  <2> QED BY <2>1, <2>2 DEF Same, Times, Whole
<1> QED BY <1>3, <1>4, PlusNothing

------------------------------------------------------------------------------
(* The value of a sum *)

\* The channels, numbered.
Enumerates(g) ==
    /\ g \in [1..Cardinality(Channels) -> Channels]
    /\ \A i, j \in 1..Cardinality(Channels) : g[i] = g[j] => i = j
    /\ \A c \in Channels : \E i \in 1..Cardinality(Channels) : g[i] = c

\* The channels can be numbered.
LEMMA EnumerationExists ==
    /\ Cardinality(Channels) \in Nat
    /\ \E g : Enumerates(g)
<1>1. Cardinality(Channels) \in Nat /\ ExistsBijection(1..Cardinality(Channels), Channels)
  BY ChannelsAssumption, FS_CardinalityType
<1>2. PICK g : g \in Bijection(1..Cardinality(Channels), Channels)
  BY <1>1 DEF ExistsBijection
<1>3. Enumerates(g)
  BY <1>2 DEF Enumerates, Bijection, Injection, Surjection, IsInjective
<1> QED BY <1>1, <1>3

\* The coefficient of c in f, and what c adds to it.
Coefficient(f, c) == IF c \in DOMAIN f.coefficients THEN f.coefficients[c] ELSE Whole(0)
Term(f, u, c) == Times(Coefficient(f, c), u[c])

\* The partial sums of f when the channels have the values u.
Adds(g, f, u, S) ==
    /\ S \in [0..Cardinality(Channels) -> Fraction]
    /\ Same(S[0], f.constant)
    /\ \A i \in 1..Cardinality(Channels) : Same(S[i], Plus(S[i - 1], Term(f, u, g[i])))

\* With these values f is w.
Evaluates(g, f, u, w) ==
    w \in Fraction /\ \E S : Adds(g, f, u, S) /\ Same(S[Cardinality(Channels)], w)

\* Terms are fractions.
LEMMA TermType ==
    ASSUME NEW f \in Sums, NEW u \in [Channels -> Fraction], NEW c \in Channels
    PROVE  Coefficient(f, c) \in Fraction /\ Term(f, u, c) \in Fraction
<1>1. Coefficient(f, c) \in Fraction
  <2>1. f.coefficients \in [DOMAIN f.coefficients -> Fraction]
    BY FormElim
  <2>2. Whole(0) \in Fraction
    BY WholeType
  <2> QED BY <2>1, <2>2 DEF Coefficient
<1> QED BY <1>1, TimesType DEF Term

\* The terms of a numbered sum.
LEMMA TermFacts ==
    ASSUME NEW f \in Sums, NEW u \in [Channels -> Fraction], NEW g, Enumerates(g),
           NEW i \in 1..Cardinality(Channels)
    PROVE  /\ g[i] \in Channels
           /\ Term(f, u, g[i]) \in Fraction
           /\ i \in 0..Cardinality(Channels)
           /\ i - 1 \in 0..Cardinality(Channels)
<1>1. Cardinality(Channels) \in Nat
  BY EnumerationExists
<1>2. g[i] \in Channels
  BY DEF Enumerates
<1> QED BY <1>1, <1>2, TermType

\* The value of a sum may be written differently.
LEMMA EvaluatesSame ==
    ASSUME NEW g, NEW f, NEW u, NEW v, Evaluates(g, f, u, v), NEW w \in Fraction, Same(v, w)
    PROVE  Evaluates(g, f, u, w)
<1>1. PICK S : Adds(g, f, u, S) /\ Same(S[Cardinality(Channels)], v)
  BY DEF Evaluates
<1>2. S[Cardinality(Channels)] \in Fraction /\ v \in Fraction
  BY <1>1, EnumerationExists DEF Adds, Evaluates
<1>3. Same(S[Cardinality(Channels)], w)
  BY <1>1, <1>2, SameTrans
<1> QED BY <1>1, <1>3 DEF Evaluates

\* A sum has one value.
LEMMA EvaluatesOnce ==
    ASSUME NEW g, Enumerates(g), NEW f \in Sums, NEW u \in [Channels -> Fraction],
           NEW v, Evaluates(g, f, u, v), NEW w, Evaluates(g, f, u, w)
    PROVE  Same(v, w)
<1> DEFINE N == Cardinality(Channels)
<1>0. N \in Nat
  BY EnumerationExists
<1>1. PICK S : Adds(g, f, u, S) /\ Same(S[N], v)
  BY DEF Evaluates
<1>2. PICK T : Adds(g, f, u, T) /\ Same(T[N], w)
  BY DEF Evaluates
<1> DEFINE U == {n \in Nat : n <= N => Same(S[n], T[n])}
<1>3. f.constant \in Fraction /\ (\A n \in 0..N : S[n] \in Fraction /\ T[n] \in Fraction)
  BY <1>1, <1>2, FormElim DEF Adds
<1>4. 0 \in U
  <2>1. 0 \in 0..N
    BY <1>0
  <2>2. Same(S[0], f.constant) /\ Same(T[0], f.constant) /\ S[0] \in Fraction /\ T[0] \in Fraction
    BY <1>1, <1>2, <1>3, <2>1 DEF Adds
  <2>3. Same(f.constant, T[0])
    BY <2>2, SameSym
  <2>4. Same(S[0], T[0])
    BY <1>3, <2>2, <2>3, SameTrans
  <2> QED BY <2>4
<1>5. ASSUME NEW n \in U PROVE n + 1 \in U
  <2> SUFFICES ASSUME n + 1 <= N PROVE Same(S[n + 1], T[n + 1])
    OBVIOUS
  <2>1. PICK m : m = n + 1
    OBVIOUS
  <2>2. m \in 1..N /\ m - 1 = n /\ n \in 0..N /\ m \in 0..N /\ Same(S[n], T[n])
    BY <1>0, <2>1
  <2> DEFINE t == Term(f, u, g[m])
  <2>3. t \in Fraction
    BY <2>2, TermFacts
  <2>4. Same(S[m], Plus(S[n], t)) /\ Same(T[m], Plus(T[n], t))
    BY <1>1, <1>2, <2>2 DEF Adds
  <2> HIDE DEF t
  <2>5. S[m] \in Fraction /\ T[m] \in Fraction /\ S[n] \in Fraction /\ T[n] \in Fraction
    BY <1>3, <2>2
  <2>6. Plus(S[n], t) \in Fraction /\ Plus(T[n], t) \in Fraction
    BY <2>3, <2>5, PlusType
  <2>7. Same(Plus(S[n], t), Plus(T[n], t))
    BY <2>2, <2>3, <2>5, SameRefl, PlusSame
  <2>8. Same(Plus(T[n], t), T[m])
    BY <2>4, SameSym
  <2>9. Same(S[m], Plus(T[n], t))
    BY <2>4, <2>5, <2>6, <2>7, SameTrans
  <2>10. Same(S[m], T[m])
    BY <2>5, <2>6, <2>8, <2>9, SameTrans
  <2> QED BY <2>1, <2>10
<1>6. U = Nat
  <2>1. U \in SUBSET Nat
    OBVIOUS
  <2> HIDE DEF U
  <2> QED BY <1>4, <1>5, <2>1, Induct
<1>7. Same(S[N], T[N])
  <2>1. N \in U
    <3> HIDE DEF U
    <3> QED BY <1>0, <1>6
  <2> QED BY <2>1, <1>0
<1>8. S[N] \in Fraction /\ T[N] \in Fraction /\ v \in Fraction /\ w \in Fraction
  BY <1>0, <1>3 DEF Evaluates
<1>9. Same(v, S[N])
  BY <1>1, SameSym
<1>10. Same(v, T[N])
  BY <1>7, <1>8, <1>9, SameTrans
<1> QED BY <1>2, <1>8, <1>10, SameTrans

\* Adding what is 0 changes nothing.
LEMMA PlusZero ==
    ASSUME NEW p \in Fraction, NEW t \in Fraction, Same(t, Whole(0))
    PROVE  Same(p, Plus(p, t))
<1>1. Whole(0) \in Fraction
  BY WholeType
<1>2. Same(Plus(p, t), Plus(p, Whole(0)))
  BY <1>1, SameRefl, PlusSame
<1>3. Plus(p, Whole(0)) = p
  BY Units
<1> QED BY <1>2, <1>3, SameSym

\* A term with coefficient 0 is 0.
LEMMA TermZero ==
    ASSUME NEW f \in Sums, NEW u \in [Channels -> Fraction], NEW c \in Channels,
           IsZero(Coefficient(f, c))
    PROVE  Same(Term(f, u, c), Whole(0))
<1>1. Coefficient(f, c) \in Fraction /\ u[c] \in Fraction
  BY TermType
<1> QED BY <1>1, Units DEF Term

\* A channel that is not in the sum has coefficient 0.
LEMMA NoCoefficient ==
    ASSUME NEW f, NEW c, c \notin DOMAIN f.coefficients
    PROVE  IsZero(Coefficient(f, c))
  BY DEF Coefficient, IsZero, Whole

\* A sum without channels is its constant.
LEMMA SumOfConstant ==
    ASSUME NEW g, Enumerates(g), NEW u \in [Channels -> Fraction],
           NEW f \in Sums, DOMAIN f.coefficients = {}
    PROVE  Evaluates(g, f, u, f.constant)
<1> DEFINE N == Cardinality(Channels)
           S == [i \in 0..N |-> f.constant]
<1>1. N \in Nat /\ f.constant \in Fraction
  BY EnumerationExists, FormElim
<1>2. ASSUME NEW i \in 1..N PROVE Same(S[i], Plus(S[i - 1], Term(f, u, g[i])))
  <2>1. g[i] \in Channels /\ Term(f, u, g[i]) \in Fraction /\ i \in 0..N /\ i - 1 \in 0..N
    BY TermFacts
  <2>2. Same(Term(f, u, g[i]), Whole(0))
    BY <2>1, NoCoefficient, TermZero
  <2>3. S[i] = f.constant /\ S[i - 1] = f.constant
    BY <2>1
  <2> QED BY <1>1, <2>1, <2>2, <2>3, PlusZero
<1>3. S \in [0..N -> Fraction] /\ S[0] = f.constant /\ S[N] = f.constant
  BY <1>1
<1> HIDE DEF S
<1>4. Adds(g, f, u, S)
  BY <1>2, <1>3, SameRefl DEF Adds
<1> QED BY <1>1, <1>3, <1>4, SameRefl DEF Evaluates

\* A sum of one channel is that channel times its coefficient, plus the constant.
LEMMA SumOfOne ==
    ASSUME NEW g, Enumerates(g), NEW u \in [Channels -> Fraction],
           NEW f \in Sums, NEW s \in Channels, DOMAIN f.coefficients = {s}
    PROVE  Evaluates(g, f, u, Plus(Times(f.coefficients[s], u[s]), f.constant))
<1> DEFINE N == Cardinality(Channels)
           t == Times(f.coefficients[s], u[s])
<1>1. N \in Nat /\ f.constant \in Fraction
  BY EnumerationExists, FormElim
<1>2. PICK j \in 1..N : g[j] = s
  BY DEF Enumerates
<1>3. t = Term(f, u, s) /\ t \in Fraction
  BY TermType DEF Term, Coefficient
<1>4. Plus(f.constant, t) \in Fraction /\ Plus(f.constant, t) = Plus(t, f.constant)
  BY <1>1, <1>3, PlusType, PlusSwap
<1> HIDE DEF t
<1> DEFINE S == [i \in 0..N |-> IF i < j THEN f.constant ELSE Plus(f.constant, t)]
<1>5. S \in [0..N -> Fraction] /\ S[0] = f.constant /\ S[N] = Plus(f.constant, t)
  BY <1>1, <1>2, <1>4
<1>6. ASSUME NEW i \in 1..N PROVE Same(S[i], Plus(S[i - 1], Term(f, u, g[i])))
  <2>1. g[i] \in Channels /\ Term(f, u, g[i]) \in Fraction /\ i \in 0..N /\ i - 1 \in 0..N
    BY TermFacts
  <2>2. S[i] \in Fraction /\ S[i - 1] \in Fraction
    BY <2>1, <1>5
  <2>3. CASE i = j
    <3>1. S[i] = Plus(f.constant, t) /\ S[i - 1] = f.constant
      BY <2>1, <2>3, <1>2
    <3> QED BY <1>2, <1>3, <2>3, <3>1, SameRefl
  <2>4. CASE i # j
    <3>1. S[i] = S[i - 1]
      BY <2>1, <2>4, <1>2
    <3>2. g[i] # s
      BY <1>2, <2>4 DEF Enumerates
    <3>3. Same(Term(f, u, g[i]), Whole(0))
      BY <2>1, <3>2, NoCoefficient, TermZero
    <3> HIDE DEF S
    <3> QED BY <2>1, <2>2, <3>1, <3>3, PlusZero
  <2> QED BY <2>3, <2>4
<1> HIDE DEF S
<1>7. Adds(g, f, u, S)
  BY <1>5, <1>6, SameRefl DEF Adds
<1>8. Evaluates(g, f, u, Plus(t, f.constant))
  BY <1>4, <1>5, <1>7, SameRefl DEF Evaluates
<1> QED BY <1>8 DEF t

\* A term of the product.
LEMMA TermTimes ==
    ASSUME NEW f \in Sums, NEW u \in [Channels -> Fraction], NEW q \in Fraction, NEW c \in Channels
    PROVE  Same(Times(Term(f, u, c), q), Term(MultiplyConstant(f, q), u, c))
<1> DEFINE h == MultiplyConstant(f, q)
<1>1. u[c] \in Fraction /\ Coefficient(f, c) \in Fraction /\ Term(f, u, c) \in Fraction
  BY TermType
<1>2. h \in Sums /\ DOMAIN h.coefficients = DOMAIN f.coefficients
  BY SumMultiply, MultiplyDomain
<1>3. CASE c \in DOMAIN f.coefficients
  <2>1. Coefficient(h, c) = Times(Coefficient(f, c), q)
    BY <1>2, <1>3 DEF Coefficient, MultiplyConstant, LinearValue
  <2> HIDE DEF h
  <2>2. Times(Term(f, u, c), q) = Term(h, u, c)
    BY <1>1, <2>1, TimesSwap DEF Term
  <2> QED BY <2>2, SameRefl DEF h
<1>4. CASE c \notin DOMAIN f.coefficients
  <2> HIDE DEF h
  <2>1. Same(Term(h, u, c), Whole(0))
    BY <1>2, <1>4, NoCoefficient, TermZero
  <2>2. IsZero(Coefficient(f, c))
    BY <1>4, NoCoefficient
  <2>3. IsZero(Term(f, u, c))
    BY <2>2, <1>1 DEF Term, Times, IsZero, Fraction
  <2>4. Same(Times(Term(f, u, c), q), Whole(0))
    BY <1>1, <2>3, Units
  <2>5. Times(Term(f, u, c), q) \in Fraction /\ Term(h, u, c) \in Fraction /\ Whole(0) \in Fraction
    BY <1>1, <1>2, TermType, TimesType, WholeType
  <2>6. Same(Times(Term(f, u, c), q), Term(h, u, c))
    BY <2>1, <2>4, <2>5, SameSym, SameTrans
  <2> QED BY <2>6 DEF h
<1> QED BY <1>3, <1>4

\* MultiplyConstant multiplies the value.
LEMMA SumTimes ==
    ASSUME NEW g, Enumerates(g), NEW u \in [Channels -> Fraction],
           NEW f \in Sums, NEW w, Evaluates(g, f, u, w), NEW q \in Fraction
    PROVE  Evaluates(g, MultiplyConstant(f, q), u, Times(w, q))
<1> DEFINE N == Cardinality(Channels)
           h == MultiplyConstant(f, q)
<1>1. N \in Nat /\ f.constant \in Fraction
  BY EnumerationExists, FormElim
<1>2. h \in Sums /\ h.constant = Times(f.constant, q)
  BY SumMultiply DEF MultiplyConstant, LinearValue
<1>3. PICK S : Adds(g, f, u, S) /\ Same(S[N], w)
  BY DEF Evaluates
<1>4. w \in Fraction /\ Times(w, q) \in Fraction
  BY TimesType DEF Evaluates
<1>5. \A i \in 0..N : S[i] \in Fraction
  BY <1>3 DEF Adds
<1> DEFINE T == [i \in 0..N |-> Times(S[i], q)]
<1>6. T \in [0..N -> Fraction]
  BY <1>5, TimesType
<1>7. Same(T[0], h.constant)
  <2>1. 0 \in 0..N /\ T[0] = Times(S[0], q)
    BY <1>1
  <2>2. S[0] \in Fraction /\ Same(S[0], f.constant)
    BY <2>1, <1>5, <1>3 DEF Adds
  <2> QED BY <1>1, <1>2, <2>1, <2>2, SameRefl, TimesSame
<1>8. Same(T[N], Times(w, q))
  <2>1. N \in 0..N /\ T[N] = Times(S[N], q)
    BY <1>1
  <2> QED BY <1>3, <1>4, <1>5, <2>1, SameRefl, TimesSame
<1>9. ASSUME NEW i \in 1..N PROVE Same(T[i], Plus(T[i - 1], Term(h, u, g[i])))
  <2> PICK k : k = i - 1
    OBVIOUS
  <2> DEFINE t == Term(f, u, g[i])
  <2>1. g[i] \in Channels /\ t \in Fraction /\ i \in 0..N /\ k \in 0..N
    BY TermFacts
  <2>2. S[i] \in Fraction /\ S[k] \in Fraction /\ Same(S[i], Plus(S[k], t))
    BY <1>3, <1>5, <2>1 DEF Adds
  <2>3. T[i] = Times(S[i], q) /\ T[k] = Times(S[k], q)
    BY <2>1
  <2>4. Term(h, u, g[i]) \in Fraction /\ Same(Times(t, q), Term(h, u, g[i]))
    BY <1>2, <2>1, TermType, TermTimes
  <2> HIDE DEF t, h, T
  <2> DEFINE z == Term(h, u, g[i])
  <2>5. z \in Fraction /\ Same(Times(t, q), z)
    BY <2>4
  <2> HIDE DEF z
  <2>6. Plus(S[k], t) \in Fraction /\ Times(S[i], q) \in Fraction /\ Times(S[k], q) \in Fraction
        /\ Times(t, q) \in Fraction
    BY <2>1, <2>2, PlusType, TimesType
  <2>7. Times(Plus(S[k], t), q) \in Fraction /\ Plus(Times(S[k], q), Times(t, q)) \in Fraction
        /\ Plus(Times(S[k], q), z) \in Fraction
    BY <2>5, <2>6, PlusType, TimesType
  <2>8. Same(Times(S[i], q), Times(Plus(S[k], t), q))
    BY <2>2, <2>6, SameRefl, TimesSame
  <2>9. Same(Times(Plus(S[k], t), q), Plus(Times(S[k], q), Times(t, q)))
    BY <2>1, <2>2, Distributes
  <2>10. Same(Plus(Times(S[k], q), Times(t, q)), Plus(Times(S[k], q), z))
    BY <2>5, <2>6, SameRefl, PlusSame
  <2>11. Same(Times(S[i], q), Plus(Times(S[k], q), Times(t, q)))
    BY <2>6, <2>7, <2>8, <2>9, SameTrans
  <2>12. Same(Times(S[i], q), Plus(Times(S[k], q), z))
    BY <2>6, <2>7, <2>10, <2>11, SameTrans
  <2> QED BY <2>3, <2>12 DEF z
<1> HIDE DEF T, h
<1>10. Adds(g, h, u, T)
  BY <1>6, <1>7, <1>9 DEF Adds
<1>11. Evaluates(g, h, u, Times(w, q))
  BY <1>4, <1>8, <1>10 DEF Evaluates
<1> QED BY <1>11 DEF h

\* A term of the sum of two, deleted coefficients included.
LEMMA TermPlus ==
    ASSUME NEW f \in Sums, NEW h \in Sums, NEW u \in [Channels -> Fraction], NEW c \in Channels
    PROVE  Same(Plus(Term(f, u, c), Term(h, u, c)), Term(Add(f, h), u, c))
<1> DEFINE a == Coefficient(f, c)
           b == Coefficient(h, c)
           k == Coefficient(Add(f, h), c)
<1>1. a \in Fraction /\ b \in Fraction /\ k \in Fraction /\ u[c] \in Fraction
  BY TermType, SumAdd
<1>2. Same(Plus(a, b), k)
  <2> DEFINE In(x, d) == IF d \in DOMAIN x.coefficients THEN x.coefficients[d] ELSE Whole(0)
             sum == [d \in DOMAIN f.coefficients \cup DOMAIN h.coefficients |-> Plus(In(f, d), In(h, d))]
             kept == {d \in DOMAIN sum : d \in DOMAIN h.coefficients => ~IsZero(sum[d])}
  <2>1. Add(f, h).coefficients = Restrict(sum, kept)
    BY DEF Add, LinearValue
  <2>2. DOMAIN Add(f, h).coefficients = kept /\ \A d \in kept : Add(f, h).coefficients[d] = sum[d]
    BY <2>1 DEF Restrict
  <2>3. In(f, c) = a /\ In(h, c) = b
    BY DEF Coefficient
  <2>4. CASE c \in kept
    <3>1. k = Plus(a, b)
      BY <2>2, <2>3, <2>4 DEF Coefficient
    <3> QED BY <3>1, SameRefl
  <2>5. CASE c \in DOMAIN sum /\ c \notin kept
    <3>1. k = Whole(0)
      BY <2>2, <2>5 DEF Coefficient
    <3>2. IsZero(Plus(a, b))
      BY <2>3, <2>5
    <3>3. Plus(a, b) \in Fraction
      BY <1>1, PlusType
    <3> HIDE DEF a, b, k
    <3> QED BY <3>1, <3>2, <3>3, Units, WholeType
  <2>6. CASE c \notin DOMAIN sum
    <3>1. a = Whole(0) /\ b = Whole(0) /\ k = Whole(0)
      BY <2>2, <2>6 DEF Coefficient
    <3> HIDE DEF a, b, k
    <3>2. Plus(a, b) = k
      BY <3>1, WholeType, Units
    <3> QED BY <3>2, SameRefl
  <2> QED BY <2>4, <2>5, <2>6
<1>3. Term(f, u, c) = Times(a, u[c]) /\ Term(h, u, c) = Times(b, u[c]) /\ Term(Add(f, h), u, c) = Times(k, u[c])
  BY DEF Term
<1> HIDE DEF a, b, k
<1> PICK x \in Fraction : x = u[c]
  BY <1>1
<1>4. /\ Plus(a, b) \in Fraction /\ Times(a, x) \in Fraction /\ Times(b, x) \in Fraction
      /\ Times(k, x) \in Fraction
  BY <1>1, PlusType, TimesType
<1>5. Times(Plus(a, b), x) \in Fraction /\ Plus(Times(a, x), Times(b, x)) \in Fraction
  BY <1>4, PlusType, TimesType
<1>6. Same(Times(Plus(a, b), x), Plus(Times(a, x), Times(b, x)))
  BY <1>1, Distributes
<1>7. Same(Times(Plus(a, b), x), Times(k, x))
  BY <1>1, <1>2, <1>4, SameRefl, TimesSame
<1>8. Same(Plus(Times(a, x), Times(b, x)), Times(k, x))
  BY <1>4, <1>5, <1>6, <1>7, SameSym, SameTrans
<1> QED BY <1>3, <1>8

\* Add adds the values.
LEMMA SumPlus ==
    ASSUME NEW g, Enumerates(g), NEW u \in [Channels -> Fraction],
           NEW f \in Sums, NEW v, Evaluates(g, f, u, v),
           NEW h \in Sums, NEW w, Evaluates(g, h, u, w)
    PROVE  Evaluates(g, Add(f, h), u, Plus(v, w))
<1> DEFINE N == Cardinality(Channels)
           m == Add(f, h)
<1>1. N \in Nat /\ f.constant \in Fraction /\ h.constant \in Fraction
  BY EnumerationExists, FormElim
<1>2. m \in Sums /\ m.constant = Plus(f.constant, h.constant)
  BY SumAdd DEF Add, LinearValue
<1>3. PICK S : Adds(g, f, u, S) /\ Same(S[N], v)
  BY DEF Evaluates
<1>4. PICK T : Adds(g, h, u, T) /\ Same(T[N], w)
  BY DEF Evaluates
<1>5. v \in Fraction /\ w \in Fraction /\ Plus(v, w) \in Fraction
  BY PlusType DEF Evaluates
<1>6. \A i \in 0..N : S[i] \in Fraction /\ T[i] \in Fraction
  BY <1>3, <1>4 DEF Adds
<1> DEFINE U == [i \in 0..N |-> Plus(S[i], T[i])]
<1>7. U \in [0..N -> Fraction]
  BY <1>6, PlusType
<1>8. Same(U[0], m.constant)
  <2>1. 0 \in 0..N /\ U[0] = Plus(S[0], T[0])
    BY <1>1
  <2>2. S[0] \in Fraction /\ Same(S[0], f.constant) /\ T[0] \in Fraction /\ Same(T[0], h.constant)
    BY <2>1, <1>6, <1>3, <1>4 DEF Adds
  <2> QED BY <1>1, <1>2, <2>1, <2>2, PlusSame
<1>9. Same(U[N], Plus(v, w))
  <2>1. N \in 0..N /\ U[N] = Plus(S[N], T[N])
    BY <1>1
  <2> QED BY <1>3, <1>4, <1>5, <1>6, <2>1, PlusSame
<1>10. ASSUME NEW i \in 1..N PROVE Same(U[i], Plus(U[i - 1], Term(m, u, g[i])))
  <2> PICK k : k = i - 1
    OBVIOUS
  <2>1. g[i] \in Channels /\ i \in 0..N /\ k \in 0..N
    BY TermFacts
  <2> PICK r \in Fraction : r = Term(f, u, g[i])
    BY TermFacts
  <2> PICK s \in Fraction : s = Term(h, u, g[i])
    BY TermFacts
  <2> PICK t \in Fraction : t = Term(m, u, g[i])
    BY <1>2, <2>1, TermType
  <2>2. S[i] \in Fraction /\ S[k] \in Fraction /\ Same(S[i], Plus(S[k], r))
    BY <1>3, <1>6, <2>1 DEF Adds
  <2>3. T[i] \in Fraction /\ T[k] \in Fraction /\ Same(T[i], Plus(T[k], s))
    BY <1>4, <1>6, <2>1 DEF Adds
  <2>4. U[i] = Plus(S[i], T[i]) /\ U[k] = Plus(S[k], T[k])
    BY <2>1
  <2>5. Same(Plus(r, s), t)
    BY <2>1, TermPlus
  <2> HIDE DEF m, U
  <2>6. /\ Plus(S[k], r) \in Fraction /\ Plus(T[k], s) \in Fraction /\ Plus(S[i], T[i]) \in Fraction
        /\ Plus(S[k], T[k]) \in Fraction /\ Plus(r, s) \in Fraction
    BY <2>2, <2>3, PlusType
  <2>7. /\ Plus(Plus(S[k], r), Plus(T[k], s)) \in Fraction
        /\ Plus(Plus(S[k], T[k]), Plus(r, s)) \in Fraction
        /\ Plus(Plus(S[k], T[k]), t) \in Fraction
    BY <2>6, PlusType
  <2>8. Same(Plus(S[i], T[i]), Plus(Plus(S[k], r), Plus(T[k], s)))
    BY <2>2, <2>3, <2>6, PlusSame
  <2>9. Plus(Plus(S[k], r), Plus(T[k], s)) = Plus(Plus(S[k], T[k]), Plus(r, s))
    BY <2>2, <2>3, PlusSwap
  <2>10. Same(Plus(Plus(S[k], T[k]), Plus(r, s)), Plus(Plus(S[k], T[k]), t))
    BY <2>5, <2>6, SameRefl, PlusSame
  <2>11. Same(Plus(S[i], T[i]), Plus(Plus(S[k], T[k]), t))
    BY <2>6, <2>7, <2>8, <2>9, <2>10, SameTrans
  <2> QED BY <2>4, <2>11
<1> HIDE DEF U, m
<1>11. Adds(g, m, u, U)
  BY <1>7, <1>8, <1>10 DEF Adds
<1>12. Evaluates(g, m, u, Plus(v, w))
  BY <1>5, <1>9, <1>11 DEF Evaluates
<1> QED BY <1>12 DEF m

------------------------------------------------------------------------------
(* Expressions: what is read has their value *)

\* A linear expression has a value when its channels have, and what _linear_from_ast
\* makes of it has the same.
LEMMA LinearEvaluates ==
    ASSUME NEW g, Enumerates(g), NEW values \in Valuations, NEW u \in [Channels -> Fraction]
    PROVE  \A e \in Expressions :
              Linear[e].linear /\ (\A d \in Names[e] : values[d] = {u[d]}) =>
                  \E w \in Fraction : ValueOf(e, values) = {w} /\ Evaluates(g, Linear[e], u, w)
<1> DEFINE P(e) == \E w \in Fraction : ValueOf(e, values) = {w} /\ Evaluates(g, Linear[e], u, w)
           Known1(e) == \A d \in Names[e] : values[d] = {u[d]}
<1> DEFINE S == {e \in Expressions : Linear[e].linear /\ Known1(e) => P(e)}
<1>1. ASSUME NEW e \in Expressions, Parts(e) \subseteq S, Linear[e].linear, Known1(e)
      PROVE  P(e)
  <2>0. Linear[e] \in Sums
    BY <1>1, LinearStep, FormLinear
  <2>2. CASE e.op = "name"
    <3>1. Linear[e] = LinearValue([c \in {e.name} |-> Whole(1)], Whole(0))
      BY <2>2, LinearStep DEF Operators
    <3>2. ValueOf(e, values) = {u[e.name]} /\ e.name \in Channels /\ u[e.name] \in Fraction
      <4>1. e.name \in Channels /\ Names[e] = {e.name} /\ ValueOf(e, values) = values[e.name]
        BY <2>2, NamesStep, ValueStep, ExpressionsAssumption DEF Operators
      <4> QED BY <4>1, <1>1
    <3>3. /\ DOMAIN Linear[e].coefficients = {e.name}
          /\ Linear[e].coefficients[e.name] = Whole(1)
          /\ Linear[e].constant = Whole(0)
      BY <3>1 DEF LinearValue
    <3>4. Evaluates(g, Linear[e], u, Plus(Times(Whole(1), u[e.name]), Whole(0)))
      BY <2>0, <3>2, <3>3, SumOfOne
    <3>5. Plus(Times(Whole(1), u[e.name]), Whole(0)) = u[e.name]
      BY <3>2, Units
    <3> QED BY <3>2, <3>4, <3>5
  <2>3. CASE e.op = "number"
    <3>1. Linear[e] = LinearValue([c \in {} |-> Whole(0)], Whole(e.value))
      BY <2>3, LinearStep DEF Operators
    <3>2. Whole(e.value) \in Fraction
      BY <2>3, ExpressionsAssumption, WholeType
    <3>3. DOMAIN Linear[e].coefficients = {} /\ Linear[e].constant = Whole(e.value)
      BY <3>1 DEF LinearValue
    <3>4. Evaluates(g, Linear[e], u, Whole(e.value))
      BY <2>0, <3>3, SumOfConstant
    <3>5. ValueOf(e, values) = {Whole(e.value)}
      BY <2>3, ValueStep
    <3> QED BY <3>2, <3>4, <3>5
  <2>4. CASE e.op = "neg"
    <3>1. e.arg \in S /\ Names[e] = Names[e.arg] /\ e.arg \in Expressions
      BY <1>1, <2>4, NamesStep DEF Parts, Operators
    <3>2. Linear[e.arg].linear /\ Linear[e] = MultiplyConstant(Linear[e.arg], Whole(-1))
      BY <1>1, <2>4, LinearStep, FormOther DEF Operators
    <3>3. ValueOf(e, values) = SetNegated(ValueOf(e.arg, values))
      BY <2>4, ValueStep
    <3>4. Known1(e.arg)
      BY <1>1, <3>1
    <3>5. PICK q \in Fraction : ValueOf(e.arg, values) = {q} /\ Evaluates(g, Linear[e.arg], u, q)
      BY <3>1, <3>2, <3>4
    <3>6. ValueOf(e, values) = {Times(q, Whole(-1))}
      BY <3>3, <3>5, TimesFacts, WholeType DEF SetNegated
    <3>7. Linear[e.arg] \in Sums
      BY <3>1, <3>2, LinearStep, FormLinear
    <3>8. Evaluates(g, Linear[e], u, Times(q, Whole(-1))) /\ Times(q, Whole(-1)) \in Fraction
      BY <3>2, <3>5, <3>7, SumTimes, WholeType, TimesType
    <3> QED BY <3>6, <3>8
  <2>5. CASE e.op \in Operators
    <3> DEFINE X == ValueOf(e.left, values)
               Y == ValueOf(e.right, values)
               v == Linear[e.left]
               w == Linear[e.right]
    <3>1. /\ e.left \in S /\ e.right \in S /\ Names[e] = Names[e.left] \cup Names[e.right]
          /\ e.left \in Expressions /\ e.right \in Expressions
      BY <1>1, <2>5, NamesStep DEF Parts, Operators
    <3>2. v.linear /\ w.linear /\ Linear[e] = Combined(e.op, v, w)
      BY <1>1, <2>5, LinearStep, FormOther DEF Operators
    <3>3. Known1(e.left) /\ Known1(e.right)
      BY <1>1, <3>1
    <3>4. PICK p \in Fraction : X = {p} /\ Evaluates(g, v, u, p)
      BY <3>1, <3>2, <3>3
    <3>5. PICK q \in Fraction : Y = {q} /\ Evaluates(g, w, u, q)
      BY <3>1, <3>2, <3>3
    <3>6. v \in Sums /\ w \in Sums
      BY <3>1, <3>2, LinearStep, FormLinear
    <3>7. ValueOf(e, values) = CASE e.op = "add" -> SetPlus(X, Y) [] e.op = "sub" -> SetPlus(X, SetNegated(Y))
                                 [] e.op = "mul" -> SetTimes(X, Y) [] e.op = "div" -> SetTimes(X, SetInverted(Y))
      BY <2>5, ValueStep DEF Operators
    <3>8. Whole(-1) \in Fraction
      BY WholeType
    <3>9. v.constant \in Fraction /\ w.constant \in Fraction
      BY <3>6, FormElim
    <3>10. Constants(v) => Evaluates(g, v, u, v.constant) /\ Same(p, v.constant)
      BY <3>4, <3>6, SumOfConstant, EvaluatesOnce DEF Constants
    <3>11. Constants(w) => Evaluates(g, w, u, w.constant) /\ Same(q, w.constant)
      BY <3>5, <3>6, SumOfConstant, EvaluatesOnce DEF Constants
    <3> HIDE DEF X, Y, v, w
    <3>12. CASE e.op = "add"
      <4>1. Linear[e] = Add(v, w) /\ ValueOf(e, values) = {Plus(p, q)}
        BY <3>2, <3>4, <3>5, <3>7, <3>12 DEF Combined, SetPlus
      <4> QED BY <4>1, <3>4, <3>5, <3>6, SumPlus, PlusType
    <3>13. CASE e.op = "sub"
      <4>1. Linear[e] = Add(v, MultiplyConstant(w, Whole(-1)))
            /\ ValueOf(e, values) = {Plus(p, Negated(q))}
        BY <3>2, <3>4, <3>5, <3>7, <3>13 DEF Combined, SetPlus, SetNegated
      <4>2. Evaluates(g, MultiplyConstant(w, Whole(-1)), u, Negated(q)) /\ Negated(q) \in Fraction
        BY <3>5, <3>6, <3>8, SumTimes, TimesFacts, NegatedType
      <4>3. MultiplyConstant(w, Whole(-1)) \in Sums
        BY <3>6, <3>8, SumMultiply
      <4> QED BY <4>1, <4>2, <4>3, <3>4, <3>6, SumPlus, PlusType
    <3>14. CASE e.op = "mul"
      <4>1. ValueOf(e, values) = {Times(p, q)} /\ Times(p, q) \in Fraction /\ Times(p, q) = Times(q, p)
        BY <3>4, <3>5, <3>7, <3>14, TimesType, TimesSwap DEF SetTimes
      <4>2. CASE Constants(v)
        <5>1. Linear[e] = MultiplyConstant(w, v.constant)
          BY <3>2, <3>14, <4>2 DEF Combined
        <5>2. Evaluates(g, Linear[e], u, Times(q, v.constant))
          BY <5>1, <3>5, <3>6, <3>9, SumTimes
        <5>3. Same(Times(q, v.constant), Times(q, p))
          BY <3>9, <3>10, <4>2, SameRefl, SameSym, TimesSame
        <5>4. Evaluates(g, Linear[e], u, Times(p, q))
          BY <4>1, <5>2, <5>3, EvaluatesSame
        <5> QED BY <4>1, <5>4
      <4>3. CASE ~Constants(v)
        <5>1. Constants(w) /\ Linear[e] = MultiplyConstant(v, w.constant)
          BY <1>1, <3>2, <3>14, <4>3, FormOther DEF Combined
        <5>2. Evaluates(g, Linear[e], u, Times(p, w.constant))
          BY <5>1, <3>4, <3>6, <3>9, SumTimes
        <5>3. Same(Times(p, w.constant), Times(p, q))
          BY <3>9, <3>11, <5>1, SameRefl, SameSym, TimesSame
        <5>4. Evaluates(g, Linear[e], u, Times(p, q))
          BY <4>1, <5>2, <5>3, EvaluatesSame
        <5> QED BY <4>1, <5>4
      <4> QED BY <4>2, <4>3
    <3>15. CASE e.op = "div"
      <4>1. Constants(w) /\ ~IsZero(w.constant) /\ Linear[e] = MultiplyConstant(v, Inverted(w.constant))
        BY <1>1, <3>2, <3>15, FormOther DEF Combined
      <4>2. Same(w.constant, q)
        BY <3>11, <4>1, SameSym
      <4>3. ~IsZero(q) /\ Same(Inverted(w.constant), Inverted(q))
        BY <3>9, <4>1, <4>2, InvertedSame
      <4>4. Inverted(w.constant) \in Fraction /\ Inverted(q) \in Fraction
        BY <3>9, <4>1, <4>3, InvertedType
      <4>5. ValueOf(e, values) = {Times(p, Inverted(q))}
        <5>1. SetInverted(Y) = {Inverted(q)}
          BY <3>5, <4>3 DEF SetInverted
        <5> QED BY <5>1, <3>4, <3>7, <3>15 DEF SetTimes
      <4>6. Evaluates(g, Linear[e], u, Times(p, Inverted(w.constant)))
        BY <4>1, <4>4, <3>4, <3>6, SumTimes
      <4>7. Same(Times(p, Inverted(w.constant)), Times(p, Inverted(q))) /\ Times(p, Inverted(q)) \in Fraction
        BY <4>3, <4>4, SameRefl, TimesSame, TimesType
      <4>8. Evaluates(g, Linear[e], u, Times(p, Inverted(q)))
        BY <4>6, <4>7, EvaluatesSame
      <4> QED BY <4>5, <4>7, <4>8
    <3> QED BY <2>5, <3>12, <3>13, <3>14, <3>15 DEF Operators
  <2>6. CASE e.op \notin Operators \cup {"name", "number", "neg"}
    BY <1>1, <2>6, LinearStep, FormOther DEF Operators
  <2> QED BY <2>2, <2>3, <2>4, <2>5, <2>6
<1>2. S = Expressions
  <2>1. \A e \in Expressions : Parts(e) \subseteq S => e \in S
    BY <1>1
  <2> HIDE DEF S, P, Known1
  <2> QED BY <2>1, ExpressionInduction DEF S
<1> QED BY <1>2

\* At most one value.
Single(X) == \A a, b \in X : a = b

\* Operations on single values give single values.
LEMMA SingleOperands ==
    ASSUME NEW X, NEW Y, Single(X), Single(Y)
    PROVE  /\ Single(SetPlus(X, Y))
           /\ Single(SetTimes(X, Y))
           /\ Single(SetNegated(X))
           /\ Single(SetPlus(X, SetNegated(Y)))
           /\ Single(SetTimes(X, SetInverted(Y)))
<1>1. \A A, B : Single(A) /\ Single(B) => Single(SetPlus(A, B)) /\ Single(SetTimes(A, B))
  BY DEF Single, SetPlus, SetTimes
<1>2. \A A : Single(A) => Single(SetNegated(A)) /\ Single(SetInverted(A))
  BY DEF Single, SetNegated, SetInverted
<1> QED BY <1>1, <1>2

\* An expression has at most one value if channels have.
LEMMA SingleValue ==
    ASSUME NEW values \in Valuations, \A c \in Channels : Single(values[c])
    PROVE  \A e \in Expressions : Single(ValueOf(e, values))
<1> DEFINE S == {e \in Expressions : Single(ValueOf(e, values))}
<1>1. ASSUME NEW e \in Expressions, Parts(e) \subseteq S
      PROVE  Single(ValueOf(e, values))
  <2>2. CASE e.op = "name"
    <3>1. e.name \in Channels /\ ValueOf(e, values) = values[e.name]
      BY <2>2, ValueStep, ExpressionsAssumption
    <3> QED BY <3>1
  <2>3. CASE e.op = "number"
    <3>1. ValueOf(e, values) = {Whole(e.value)}
      BY <2>3, ValueStep
    <3> QED BY <3>1 DEF Single
  <2>4. CASE e.op = "neg"
    <3>1. e.arg \in S /\ ValueOf(e, values) = SetNegated(ValueOf(e.arg, values))
      BY <1>1, <2>4, ValueStep DEF Parts, Operators
    <3> QED BY <3>1, SingleOperands
  <2>5. CASE e.op \in Operators
    <3>1. e.left \in S /\ e.right \in S
      BY <1>1, <2>5 DEF Parts, Operators
    <3> PICK X : X = ValueOf(e.left, values)
      OBVIOUS
    <3> PICK Y : Y = ValueOf(e.right, values)
      OBVIOUS
    <3>2. ValueOf(e, values) \in {SetPlus(X, Y), SetTimes(X, Y), SetPlus(X, SetNegated(Y)), SetTimes(X, SetInverted(Y))}
      BY <2>5, ValueStep DEF Operators
    <3>3. Single(X) /\ Single(Y)
      BY <3>1
    <3> QED BY <3>2, <3>3, SingleOperands
  <2>6. CASE e.op \notin Operators \cup {"name", "number", "neg"}
    <3>1. ValueOf(e, values) = {}
      BY <2>6, ValueStep DEF Operators
    <3> QED BY <3>1 DEF Single
  <2> QED BY <2>2, <2>3, <2>4, <2>5, <2>6
<1>2. S = Expressions
  <2>1. \A e \in Expressions : Parts(e) \subseteq S => e \in S
    BY <1>1
  <2> HIDE DEF S
  <2> QED BY <2>1, ExpressionInduction DEF S
<1> QED BY <1>2

\* The value of a formula is the source's, scaled and shifted as parsed; and there is
\* one if no other channel is mentioned.
LEMMA FormulaValue ==
    ASSUME NEW values \in Valuations, \A c \in Channels : Single(values[c]),
           NEW e \in Expressions, e.op # "table", Parsed(e) # None
    PROVE  /\ \A v \in ValueOf(e, values) : \E x \in values[Parsed(e).source] :
                 x \in Fraction /\ v \in Fraction
                 /\ Same(v, Plus(Times(x, Parsed(e).scale), Parsed(e).translate))
           /\ Names[e] = {Parsed(e).source} /\ values[Parsed(e).source] # {} =>
                 ValueOf(e, values) # {}
<1> PICK s : s = Parsed(e).source
  OBVIOUS
<1>1. /\ s \in Channels
      /\ Linear[e] \in Sums
      /\ DOMAIN Linear[e].coefficients = {s}
      /\ Parsed(e).scale = Linear[e].coefficients[s]
      /\ Parsed(e).translate = Linear[e].constant
      /\ Parsed(e).scale \in Fraction
      /\ Parsed(e).translate \in Fraction
  BY ParsedFacts
<1>2. Linear[e].linear
  BY <1>1, FormElim
<1>3. s \in Names[e] /\ Names[e] \subseteq Channels
  BY <1>1, <1>2, LinearNames, NamesStep
<1> DEFINE u == [c \in Channels |-> IF values[c] # {} THEN CHOOSE x \in values[c] : TRUE ELSE Whole(0)]
<1>4. u \in [Channels -> Fraction]
  <2>1. \A c \in Channels : values[c] \subseteq Fraction
    BY DEF Valuations
  <2> QED BY <2>1, WholeType
<1>5. \A c \in Channels : values[c] # {} => values[c] = {u[c]}
  BY DEF Single
<1> HIDE DEF u
<1>6. PICK g : Enumerates(g)
  BY EnumerationExists
<1>7. ASSUME \A d \in Names[e] : values[d] # {}
      PROVE  \E w \in Fraction : /\ ValueOf(e, values) = {w}
                                 /\ Same(w, Plus(Times(u[s], Parsed(e).scale), Parsed(e).translate))
  <2>1. \A d \in Names[e] : values[d] = {u[d]}
    BY <1>3, <1>5, <1>7
  <2>2. PICK w \in Fraction : ValueOf(e, values) = {w} /\ Evaluates(g, Linear[e], u, w)
    BY <1>2, <1>4, <1>6, <2>1, LinearEvaluates
  <2>3. Evaluates(g, Linear[e], u, Plus(Times(Linear[e].coefficients[s], u[s]), Linear[e].constant))
    BY <1>1, <1>4, <1>6, SumOfOne
  <2>4. Same(w, Plus(Times(Linear[e].coefficients[s], u[s]), Linear[e].constant))
    BY <1>1, <1>4, <1>6, <2>2, <2>3, EvaluatesOnce
  <2>5. Times(Linear[e].coefficients[s], u[s]) = Times(u[s], Parsed(e).scale)
    BY <1>1, <1>4, TimesSwap
  <2> QED BY <1>1, <2>2, <2>4, <2>5
<1>8. ASSUME NEW v \in ValueOf(e, values)
      PROVE  \E x \in values[s] :
                 x \in Fraction /\ v \in Fraction
                 /\ Same(v, Plus(Times(x, Parsed(e).scale), Parsed(e).translate))
  <2>1. \A d \in Names[e] : values[d] # {}
    BY <1>3, ValueStrict
  <2>2. PICK w \in Fraction : /\ ValueOf(e, values) = {w}
                              /\ Same(w, Plus(Times(u[s], Parsed(e).scale), Parsed(e).translate))
    BY <1>7, <2>1
  <2>3. u[s] \in values[s] /\ u[s] \in Fraction
    BY <1>1, <1>3, <1>4, <1>5, <2>1
  <2>4. v = w
    BY <2>2
  <2> QED BY <2>2, <2>3, <2>4
<1>9. ASSUME Names[e] = {s}, values[s] # {}
      PROVE  ValueOf(e, values) # {}
  BY <1>7, <1>9
<1> QED BY <1>8, <1>9

------------------------------------------------------------------------------
(* Conversions of equal numbers *)

\* Division rounds down.
LEMMA DivFacts ==
    ASSUME NEW a \in Int, NEW b \in Nat \ {0}
    PROVE  /\ a \div b \in Int
           /\ (a \div b) * b <= a
           /\ a < ((a \div b) + 1) * b
  OBVIOUS

\* Quotients can be compared by products.
LEMMA DivUnique ==
    ASSUME NEW b \in Nat \ {0}, NEW x \in Int, NEW y \in Int, x * b < (y + 1) * b
    PROVE  x <= y
<1> SUFFICES ASSUME x > y PROVE FALSE
  OBVIOUS
<1>1. PICK z \in Nat : x = (y + 1) + z
  <2>1. x - (y + 1) \in Nat /\ x = (y + 1) + (x - (y + 1))
    OBVIOUS
  <2> QED BY <2>1
<1>2. x * b = (y + 1) * b + z * b
  BY <1>1
<1>3. z * b >= 0
  OBVIOUS
<1> QED BY <1>2, <1>3

\* A positive factor keeps the order.
LEMMA TimesOrder ==
    ASSUME NEW a \in Int, NEW b \in Int, NEW n \in Nat \ {0}
    PROVE  /\ a <= b => a * n <= b * n
           /\ a < b => a * n < b * n
           /\ a >= 0 <=> a * n >= 0
           /\ a < 0 <=> a * n < 0
<1>1. ASSUME a <= b PROVE a * n <= b * n
  <2>1. PICK z \in Nat : b = a + z
    <3>1. b - a \in Nat /\ b = a + (b - a)
      BY <1>1
    <3> QED BY <3>1
  <2>2. b * n = a * n + z * n /\ z * n >= 0
    BY <2>1
  <2> QED BY <2>2
<1>2. ASSUME a < b PROVE a * n < b * n
  <2>1. PICK z \in Nat : b = a + 1 + z
    <3>1. b - a - 1 \in Nat /\ b = a + 1 + (b - a - 1)
      BY <1>2
    <3> QED BY <3>1
  <2>2. b * n = a * n + n + z * n /\ z * n >= 0
    BY <2>1
  <2> QED BY <2>2
<1>3. a >= 0 => a * n >= 0
  OBVIOUS
<1>4. a < 0 => a * n < 0
  OBVIOUS
<1>5. a * n \in Int
  OBVIOUS
<1> QED BY <1>1, <1>2, <1>3, <1>4, <1>5

\* Equal fractions round down to the same, one way
LEMMA DivBelow ==
    ASSUME NEW a \in Int, NEW b \in Nat \ {0}, NEW c \in Int, NEW d \in Nat \ {0}, a * d = c * b
    PROVE  a \div b <= c \div d
<1> PICK x \in Int : x = a \div b
  BY DivFacts
<1> PICK y \in Int : y = c \div d
  BY DivFacts
<1>1. x * b <= a /\ c < (y + 1) * d
  BY DivFacts
<1> PICK n \in Nat \ {0} : n = b * d
  OBVIOUS
<1> PICK z \in Int : z = y + 1
  OBVIOUS
<1>2. (x * b) * d <= a * d
  BY <1>1, TimesOrder
<1>3. c * b < (z * d) * b
  <2>1. z * d \in Int /\ c < z * d
    BY <1>1
  <2> QED BY <2>1, TimesOrder
<1>4. x * n = (x * b) * d /\ z * n = (z * d) * b
  OBVIOUS
<1>5. x * n < z * n
  <2>1. x * n \in Int /\ z * n \in Int /\ a * d \in Int
    OBVIOUS
  <2> QED BY <1>2, <1>3, <1>4, <2>1
<1> QED BY <1>5, DivUnique

\* and the other.
LEMMA DivSame ==
    ASSUME NEW a \in Int, NEW b \in Nat \ {0}, NEW c \in Int, NEW d \in Nat \ {0}, a * d = c * b
    PROVE  a \div b = c \div d
<1>1. a \div b <= c \div d /\ c \div d <= a \div b
  BY DivBelow
<1>2. a \div b \in Int /\ c \div d \in Int
  BY DivFacts
<1> QED BY <1>1, <1>2

\* Equal fractions have the same sign,
LEMMA SignSame ==
    ASSUME NEW p \in Fraction, NEW q \in Fraction, Same(p, q)
    PROVE  p[1] >= 0 <=> q[1] >= 0
<1> PICK a, c \in Int, b, d \in Nat \ {0} : p[1] = a /\ p[2] = b /\ q[1] = c /\ q[2] = d
  BY DEF Fraction
<1>1. a * d = c * b
  BY DEF Same
<1>2. (a >= 0 <=> a * d >= 0) /\ (c >= 0 <=> c * b >= 0)
  BY TimesOrder
<1> QED BY <1>1, <1>2

\* quotient,
LEMMA QuotientSame ==
    ASSUME NEW p \in Fraction, NEW q \in Fraction, Same(p, q)
    PROVE  p[1] \div p[2] = q[1] \div q[2]
<1>1. \A a, c \in Int : \A b, d \in Nat \ {0} : a * d = c * b => a \div b = c \div d
  BY DivSame
<1>2. p[1] \in Int /\ q[1] \in Int /\ p[2] \in Nat \ {0} /\ q[2] \in Nat \ {0}
  BY DEF Fraction
<1>3. p[1] * q[2] = q[1] * p[2]
  BY DEF Same
<1> QED BY <1>1, <1>2, <1>3

\* int(),
LEMMA TruncatedSame ==
    ASSUME NEW p \in Fraction, NEW q \in Fraction, Same(p, q)
    PROVE  Truncated(p) = Truncated(q)
<1>1. p[1] >= 0 <=> q[1] >= 0
  BY SignSame
<1>2. p[1] \div p[2] = q[1] \div q[2]
  BY QuotientSame
<1>3. (-p[1]) \div p[2] = (-q[1]) \div q[2]
  <2>1. Negated(p) \in Fraction /\ Negated(q) \in Fraction
    BY NegatedType
  <2>2. Same(Negated(p), Negated(q))
    <3>1. p[1] \in Int /\ q[1] \in Int /\ p[2] \in Int /\ q[2] \in Int /\ p[1] * q[2] = q[1] * p[2]
      BY DEF Same, Fraction
    <3>2. (-p[1]) * q[2] = -(p[1] * q[2]) /\ (-q[1]) * p[2] = -(q[1] * p[2])
      BY <3>1
    <3> QED BY <3>1, <3>2 DEF Negated, Same
  <2>3. Negated(p)[1] \div Negated(p)[2] = Negated(q)[1] \div Negated(q)[2]
    BY <2>1, <2>2, QuotientSame
  <2> QED BY <2>3 DEF Negated
<1> QED BY <1>1, <1>2, <1>3 DEF Truncated

\* round()
LEMMA RoundedSame ==
    ASSUME NEW p \in Fraction, NEW q \in Fraction, Same(p, q)
    PROVE  Rounded(p) = Rounded(q)
<1> DEFINE r == <<2 * p[1] + p[2], 2 * p[2]>>
           s == <<2 * q[1] + q[2], 2 * q[2]>>
<1>1. r \in Fraction /\ s \in Fraction
  BY DEF Fraction
<1>2. Same(r, s)
  <2> PICK a, b, c, d \in Int : p[1] = a /\ p[2] = b /\ q[1] = c /\ q[2] = d
    BY DEF Fraction
  <2>1. a * d = c * b
    BY DEF Same
  <2>2. (2 * a + b) * (2 * d) = 4 * (a * d) + 2 * (b * d) /\ (2 * c + d) * (2 * b) = 4 * (c * b) + 2 * (b * d)
    OBVIOUS
  <2>3. (2 * a + b) * (2 * d) = (2 * c + d) * (2 * b)
    BY <2>1, <2>2
  <2> QED BY <2>3 DEF Same
<1>3. r[1] \div r[2] = s[1] \div s[2]
  <2> HIDE DEF r, s
  <2> QED BY <1>1, <1>2, QuotientSame
<1> QED BY <1>3 DEF Rounded

\* and side of one half.
LEMMA HalfSame ==
    ASSUME NEW p \in Fraction, NEW q \in Fraction, Same(p, q)
    PROVE  2 * p[1] >= p[2] <=> 2 * q[1] >= q[2]
<1> PICK a, c \in Int, b, d \in Nat \ {0} : p[1] = a /\ p[2] = b /\ q[1] = c /\ q[2] = d
  BY DEF Fraction
<1>1. a * d = c * b
  BY DEF Same
<1> PICK x \in Int : x = 2 * a - b
  <2>1. 2 * a - b \in Int
    OBVIOUS
  <2> QED BY <2>1, Zenon
<1> PICK y \in Int : y = 2 * c - d
  <2>1. 2 * c - d \in Int
    OBVIOUS
  <2> QED BY <2>1, Zenon
<1>2. x * d = 2 * (a * d) - b * d /\ y * b = 2 * (c * b) - b * d
  OBVIOUS
<1>3. x * d = y * b
  BY <1>1, <1>2
<1>4. (x >= 0 <=> x * d >= 0) /\ (y >= 0 <=> y * b >= 0)
  BY TimesOrder
<1>5. x >= 0 <=> y >= 0
  BY <1>3, <1>4
<1>6. (x >= 0 <=> 2 * a >= b) /\ (y >= 0 <=> 2 * c >= d)
  OBVIOUS
<1> QED BY <1>5, <1>6

\* Transforms of equal numbers are equal.
LEMMA TransformedSame ==
    ASSUME NEW t, NEW p \in Fraction, NEW q \in Fraction, Same(p, q)
    PROVE  Same(Transformed(t, p), Transformed(t, q))
<1>1. CASE t = "bool"
  <2>1. Transformed(t, p) = Transformed(t, q)
    BY <1>1, HalfSame DEF Transformed
  <2> QED BY <2>1, SameRefl
<1>2. CASE t \in {"gear", "turn"}
  <2>1. Transformed(t, p) = Transformed(t, q)
    BY <1>2, RoundedSame DEF Transformed
  <2> QED BY <2>1, SameRefl
<1>3. CASE t \notin {"bool", "gear", "turn"}
  <2>1. Transformed(t, p) = p /\ Transformed(t, q) = q
    BY <1>3 DEF Transformed
  <2> QED BY <2>1
<1> QED BY <1>1, <1>2, <1>3

\* Equal indices select the same entry.
LEMMA TableEntrySame ==
    ASSUME NEW t, NEW p \in Fraction, NEW q \in Fraction, Same(p, q)
    PROVE  TableEntry(t, p) = TableEntry(t, q)
<1>1. Truncated(p) = Truncated(q)
  BY TruncatedSame
<1> QED BY <1>1 DEF TableEntry

------------------------------------------------------------------------------
(* Decoding: what a call returned is right *)

\* What the ECU means by a raw value of the scalar, and what the formula and the
\* table of r make of it.
Reads(r, raw) ==
    Plus(Times(Whole(raw), scalars[r.scalar].scale), scalars[r.scalar].translate)
Linearly(r, raw) == Plus(Times(Reads(r, raw), r.scale), r.translate)
Target(r, raw) ==
    IF r.file = NoFile THEN Linearly(r, raw) ELSE TableEntry(ReadTable(r.file), Linearly(r, raw))

\* There is nothing to look up in.
NoTable(r) == r.file # NoFile /\ ReadTable(r.file) = <<>>

\* What r says of c is right: c has no other value, and has one from round k on.
Right(r, c, k) ==
    /\ r.scale \in Fraction
    /\ r.translate \in Fraction
    /\ \/ FormulaOverTable(Asked)
       \/ NoTable(r)
       \/ \A raw \in Int : \A m \in 0..Rounds : \A v \in Known[m][Reading(raw)][c] :
              Same(v, Target(r, raw))
    /\ \/ MentionsCancelled(Formulas, Asked)
       \/ ~scalars[r.scalar].usable
       \/ NoTable(r)
       \/ \A raw \in Int : \A m \in 0..Rounds : m >= k => Known[m][Reading(raw)][c] # {}

\* A formula of a formula is one formula.
LEMMA ComposedSame ==
    ASSUME NEW x \in Fraction, NEW a \in Fraction, NEW b \in Fraction, NEW s \in Fraction, NEW t \in Fraction
    PROVE  /\ Plus(Times(x, a), b) \in Fraction
           /\ Same(Plus(Times(Plus(Times(x, a), b), s), t),
                   Plus(Times(x, Times(a, s)), Plus(Times(b, s), t)))
<1> PICK y \in Fraction : y = Times(x, a)
  BY TimesType
<1> PICK z \in Fraction : z = Times(b, s)
  BY TimesType
<1>1. Times(y, s) = Times(x, Times(a, s)) /\ Times(y, s) \in Fraction
  BY TimesSwap, TimesType
<1>2. Plus(y, b) \in Fraction /\ Times(Plus(y, b), s) \in Fraction /\ Plus(Times(y, s), z) \in Fraction
  BY <1>1, PlusType, TimesType
<1>3. Same(Times(Plus(y, b), s), Plus(Times(y, s), z))
  BY Distributes
<1>4. Same(Plus(Times(Plus(y, b), s), t), Plus(Plus(Times(y, s), z), t))
  BY <1>2, <1>3, SameRefl, PlusSame
<1>5. Plus(Plus(Times(y, s), z), t) = Plus(Times(y, s), Plus(z, t))
  BY <1>1, PlusSwap
<1> QED BY <1>1, <1>2, <1>4, <1>5

\* What scalars and formulas yield are fractions.
LEMMA ReadsType ==
    ASSUME ReadInv, NEW r, r.scalar \in DOMAIN scalars, NEW raw \in Int
    PROVE  /\ scalars[r.scalar].scale \in Fraction
           /\ scalars[r.scalar].translate \in Fraction
           /\ scalars[r.scalar].usable \in BOOLEAN
           /\ Reads(r, raw) \in Fraction
           /\ r.scale \in Fraction /\ r.translate \in Fraction => Linearly(r, raw) \in Fraction
<1>1. /\ scalars[r.scalar].scale \in Fraction
      /\ scalars[r.scalar].translate \in Fraction
      /\ scalars[r.scalar].usable \in BOOLEAN
  BY ScalarsType DEF ReadInv
<1>2. Reads(r, raw) \in Fraction
  BY <1>1, WholeType, TimesType, PlusType DEF Reads
<1>3. r.scale \in Fraction /\ r.translate \in Fraction => Linearly(r, raw) \in Fraction
  BY <1>2, TimesType, PlusType DEF Linearly
<1> QED BY <1>1, <1>2, <1>3

\* One round keeps values single.
LEMMA SingleRound ==
    ASSUME ReadInv, AllRead, NEW raw \in Int, NEW values \in Valuations,
           \A c \in Channels : Single(values[c]), NEW c \in Channels
    PROVE  Single(Value(Meant[c], raw, values))
<1>1. CASE c \in DOMAIN scalars
  <2>1. Meant[c].kind = "scalar"
    BY <1>1, MeantFacts
  <2> QED BY <2>1 DEF Value, Single
<1>2. CASE c \in Derived
  <2> DEFINE e == Formulas[c]
  <2>1. Meant[c] = [kind |-> "calculated", name |-> c, expression |-> e] /\ e \in Expressions
    BY <1>2, MeantFacts
  <2> HIDE DEF e
  <2>2. CASE e.op = "table"
    <3>1. Value(Meant[c], raw, values) =
             {TableEntry(t, v) : t \in {ReadTable(e.file)} \ {<<>>}, v \in values[e.name]}
      BY <2>1, <2>2 DEF Value
    <3>2. Single(values[e.name])
      BY <2>1, <2>2, ExpressionsAssumption
    <3> QED BY <3>1, <3>2 DEF Single
  <2>3. CASE e.op # "table"
    <3>1. Value(Meant[c], raw, values) = ValueOf(e, values)
      BY <2>1, <2>3 DEF Value
    <3> QED BY <2>1, <3>1, SingleValue
  <2> QED BY <2>2, <2>3
<1>3. CASE c \notin DOMAIN scalars \cup DOMAIN calculated
  <2>1. Meant[c] = Undefined
    BY <1>3, MeantFacts
  <2>2. Value(Meant[c], raw, values) = {}
    BY <2>1 DEF Value, Undefined
  <2> QED BY <2>2 DEF Single
<1> QED BY <1>1, <1>2, <1>3 DEF Derived

\* A channel has at most one value.
LEMMA KnownSingle ==
    ASSUME ReadInv, AllRead, NEW raw \in Int
    PROVE  \A n \in 0..Rounds : \A c \in Channels : Single(Known[n][Reading(raw)][c])
<1> DEFINE S == {n \in Nat : n <= Rounds => \A c \in Channels : Single(Known[n][Reading(raw)][c])}
<1>1. Rounds \in Nat
  BY KnownStep
<1>2. 0 \in S
  <2>1. 0 \in 0..Rounds
    BY <1>1
  <2>2. \A c \in Channels : Known[0][Reading(raw)][c] = {}
    BY <2>1, KnownFacts
  <2> QED BY <2>2 DEF Single
<1>3. ASSUME NEW n \in S PROVE n + 1 \in S
  <2> SUFFICES ASSUME n + 1 <= Rounds, NEW c \in Channels PROVE Single(Known[n + 1][Reading(raw)][c])
    OBVIOUS
  <2>1. n \in 0..Rounds /\ n + 1 \in 0..Rounds /\ n + 1 # 0 /\ (n + 1) - 1 = n
    BY <1>1
  <2> DEFINE values == Known[n][Reading(raw)]
  <2>2. values \in Valuations /\ Known[n + 1][Reading(raw)][c] = Value(Meant[c], raw, values)
    BY <2>1, KnownFacts
  <2>3. \A d \in Channels : Single(values[d])
    BY <2>1
  <2> HIDE DEF values
  <2> QED BY <2>2, <2>3, SingleRound
<1>4. S = Nat
  <2>1. S \in SUBSET Nat
    OBVIOUS
  <2> HIDE DEF S
  <2> QED BY <1>2, <1>3, <2>1, Induct
<1> QED BY <1>1, <1>4

\* A scalar decodes as it is defined.
LEMMA RightFound ==
    ASSUME ReadInv, AllRead, NEW c \in DOMAIN scalars, NEW r,
           r = [scalar |-> c, scale |-> Whole(1), translate |-> Whole(0), file |-> NoFile]
    PROVE  Right(r, c, 1)
<1>1. r.scale = Whole(1) /\ r.translate = Whole(0) /\ r.scalar = c /\ r.file = NoFile
  OBVIOUS
<1>2. r.scale \in Fraction /\ r.translate \in Fraction
  BY <1>1, WholeType
<1>3. Meant[c] = scalars[c] /\ scalars[c].kind = "scalar" /\ c \in Channels
  BY MeantFacts, DefinitionFacts
<1>4. ASSUME NEW raw \in Int, NEW values
      PROVE  Value(Meant[c], raw, values) = IF scalars[c].usable THEN {Reads(r, raw)} ELSE {}
  BY <1>1, <1>3 DEF Value, Reads
<1>5. ASSUME NEW raw \in Int PROVE Target(r, raw) = Reads(r, raw)
  <2>1. Reads(r, raw) \in Fraction
    BY <1>1, ReadsType
  <2> QED BY <1>1, <2>1, Units DEF Target, Linearly
<1>6. ASSUME NEW raw \in Int, NEW m \in 0..Rounds, NEW v \in Known[m][Reading(raw)][c]
      PROVE  Same(v, Target(r, raw))
  <2>1. m # 0 /\ Known[m][Reading(raw)][c] = Value(Meant[c], raw, Known[m - 1][Reading(raw)])
    BY <1>3, KnownFacts
  <2> PICK values : values = Known[m - 1][Reading(raw)]
    OBVIOUS
  <2>2. v \in Value(Meant[c], raw, values)
    BY <2>1
  <2>3. Value(Meant[c], raw, values) \subseteq {Reads(r, raw)}
    BY <1>4
  <2>4. v = Target(r, raw)
    BY <2>2, <2>3, <1>5
  <2> QED BY <2>4, SameRefl
<1>7. ASSUME NEW raw \in Int, NEW m \in 0..Rounds, m >= 1, scalars[c].usable
      PROVE  Known[m][Reading(raw)][c] # {}
  <2>1. m # 0 /\ Known[m][Reading(raw)][c] = Value(Meant[c], raw, Known[m - 1][Reading(raw)])
    BY <1>3, <1>7, KnownFacts
  <2> PICK values : values = Known[m - 1][Reading(raw)]
    OBVIOUS
  <2>2. Value(Meant[c], raw, values) = {Reads(r, raw)}
    BY <1>4, <1>7
  <2> QED BY <2>1, <2>2
<1> QED BY <1>1, <1>2, <1>6, <1>7 DEF Right

\* A formula before a table on the walk is one over a table below the channel asked for.
LEMMA WalkFormulas ==
    ASSUME ReadInv, NEW n, NEW q, Walk(q, n), NEW i \in 1..(n - 1), NEW j \in 1..(i - 1),
           IsTable(q[i]), ~IsTable(q[j]), ~Identity(calculated[q[j]])
    PROVE  FormulaOverTable(Asked)
<1> DEFINE p == [k \in 1..(n - 1) |-> q[k]]
<1>1. n \in Nat \ {0} /\ n > 1 /\ j \in 1..(n - 1)
  BY DEF Walk
<1>2. p \in Chains(Asked) /\ DOMAIN p = 1..(n - 1)
  BY <1>1, WalkChain
<1>3. p[i] = q[i] /\ p[j] = q[j]
  BY <1>1
<1> HIDE DEF p
<1> QED BY <1>1, <1>2, <1>3 DEF FormulaOverTable

\* So is a formula with a channel that cancels out.
LEMMA WalkCancelled ==
    ASSUME ReadInv, NEW n, NEW q, Walk(q, n), NEW i \in 1..(n - 1),
           ~IsTable(q[i]), Names[Formulas[q[i]]] # {calculated[q[i]].source}
    PROVE  MentionsCancelled(Formulas, Asked)
<1> DEFINE p == [k \in 1..(n - 1) |-> q[k]]
<1>1. n \in Nat \ {0} /\ n > 1
  BY DEF Walk
<1>2. p \in Chains(Asked) /\ DOMAIN p = 1..(n - 1)
  BY <1>1, WalkChain
<1>3. p[i] = q[i]
  OBVIOUS
<1> HIDE DEF p
<1> QED BY <1>2, <1>3 DEF MentionsCancelled

\* The values of a channel with a formula come from its source.
LEMMA ValuesOfFormula ==
    ASSUME ReadInv, AllRead, NEW c \in Derived, ~IsTable(c), NEW raw \in Int, NEW m \in 0..Rounds
    PROVE  LET o == calculated[c]
               values == Known[m - 1][Reading(raw)]
           IN /\ \A v \in Known[m][Reading(raw)][c] :
                    /\ m - 1 \in 0..Rounds
                    /\ \E x \in values[o.source] :
                          x \in Fraction /\ v \in Fraction
                          /\ Same(v, Plus(Times(x, o.scale), o.translate))
              /\ m # 0 /\ Names[Formulas[c]] = {o.source} /\ values[o.source] # {} =>
                    Known[m][Reading(raw)][c] # {}
<1> DEFINE e == Formulas[c]
           values == Known[m - 1][Reading(raw)]
<1>1. /\ c \in Channels /\ e \in Expressions
      /\ Meant[c] = [kind |-> "calculated", name |-> c, expression |-> e]
      /\ calculated[c] = Parsed(e) /\ Parsed(e) # None
  BY MeantFacts
<1>2. e.op # "table"
  BY <1>1, ParsedFacts DEF IsTable
<1>3. m = 0 => Known[m][Reading(raw)][c] = {}
  BY <1>1, KnownFacts
<1>4. ASSUME m # 0
      PROVE  /\ m - 1 \in 0..Rounds
             /\ values \in Valuations
             /\ \A d \in Channels : Single(values[d])
             /\ Known[m][Reading(raw)][c] = ValueOf(e, values)
  <2>1. m - 1 \in 0..Rounds /\ Known[m][Reading(raw)][c] = Value(Meant[c], raw, values)
    BY <1>1, <1>4, KnownFacts
  <2>2. values \in Valuations
    BY <2>1, KnownFacts
  <2>3. \A d \in Channels : Single(values[d])
    BY <2>1, KnownSingle
  <2> HIDE DEF values, e
  <2>4. Value(Meant[c], raw, values) = ValueOf(e, values)
    BY <1>1, <1>2 DEF Value
  <2> QED BY <2>1, <2>2, <2>3, <2>4
<1> HIDE DEF e, values
<1>5. ASSUME m # 0
      PROVE  /\ \A v \in ValueOf(e, values) : \E x \in values[Parsed(e).source] :
                   x \in Fraction /\ v \in Fraction
                   /\ Same(v, Plus(Times(x, Parsed(e).scale), Parsed(e).translate))
             /\ Names[e] = {Parsed(e).source} /\ values[Parsed(e).source] # {} =>
                   ValueOf(e, values) # {}
  BY <1>1, <1>2, <1>4, <1>5, FormulaValue
<1> QED BY <1>1, <1>3, <1>4, <1>5 DEF e, values

\* So do those of a channel with a table.
LEMMA ValuesOfTable ==
    ASSUME ReadInv, AllRead, NEW c \in Derived, IsTable(c), NEW raw \in Int, NEW m \in 0..Rounds
    PROVE  LET o == calculated[c]
               values == Known[m - 1][Reading(raw)]
           IN /\ \A v \in Known[m][Reading(raw)][c] :
                    /\ m - 1 \in 0..Rounds
                    /\ \E x \in values[o.source] : x \in Fraction /\ v = TableEntry(ReadTable(o.file), x)
              /\ m # 0 /\ ReadTable(o.file) # <<>> /\ values[o.source] # {} =>
                    Known[m][Reading(raw)][c] # {}
              /\ o.scale = Whole(1) /\ o.translate = Whole(0)
<1> DEFINE e == Formulas[c]
           values == Known[m - 1][Reading(raw)]
<1>1. /\ c \in Channels /\ e \in Expressions
      /\ Meant[c] = [kind |-> "calculated", name |-> c, expression |-> e]
      /\ calculated[c] = Parsed(e) /\ Parsed(e) # None
  BY MeantFacts
<1>2. e.op = "table"
  BY <1>1, ParsedFacts DEF IsTable
<1>3. /\ calculated[c].source = e.name /\ calculated[c].file = e.file /\ e.name \in Channels
      /\ calculated[c].scale = Whole(1) /\ calculated[c].translate = Whole(0)
  BY <1>1, <1>2, ParsedFacts
<1>4. m = 0 => Known[m][Reading(raw)][c] = {}
  BY <1>1, KnownFacts
<1>5. ASSUME m # 0
      PROVE  /\ m - 1 \in 0..Rounds
             /\ values[e.name] \subseteq Fraction
             /\ Known[m][Reading(raw)][c] =
                   {TableEntry(t, v) : t \in {ReadTable(e.file)} \ {<<>>}, v \in values[e.name]}
  <2>1. m - 1 \in 0..Rounds /\ Known[m][Reading(raw)][c] = Value(Meant[c], raw, values)
    BY <1>1, <1>5, KnownFacts
  <2>2. values \in Valuations
    BY <2>1, KnownFacts
  <2> HIDE DEF values, e
  <2>3. values[e.name] \subseteq Fraction
    BY <1>3, <2>2 DEF Valuations
  <2>4. Value(Meant[c], raw, values) =
           {TableEntry(t, v) : t \in {ReadTable(e.file)} \ {<<>>}, v \in values[e.name]}
    BY <1>1, <1>2 DEF Value
  <2> QED BY <2>1, <2>3, <2>4
<1> HIDE DEF e, values
<1>6. ASSUME NEW v \in Known[m][Reading(raw)][c]
      PROVE  m - 1 \in 0..Rounds /\ \E x \in values[e.name] : x \in Fraction /\ v = TableEntry(ReadTable(e.file), x)
  BY <1>4, <1>5
<1>7. ASSUME m # 0, ReadTable(e.file) # <<>>, values[e.name] # {}
      PROVE  Known[m][Reading(raw)][c] # {}
  <2>1. PICK x : x \in values[e.name]
    BY <1>7
  <2>2. TableEntry(ReadTable(e.file), x) \in Known[m][Reading(raw)][c]
    BY <1>5, <1>7, <2>1
  <2> QED BY <2>2
<1> QED BY <1>1, <1>3, <1>6, <1>7 DEF values

\* Composing a formula with what is right is right,
LEMMA RightFormula ==
    ASSUME ReadInv, AllRead, NEW n, NEW q, Walk(q, n), NEW k \in 1..(n - 1), ~IsTable(q[k]),
           NEW r, r.scalar \in DOMAIN scalars, Right(r, q[k + 1], n - k),
           r.file # NoFile => \E j \in (k + 1)..(n - 1) : IsTable(q[j]),
           NEW z, z.scalar = r.scalar, z.scale = Times(r.scale, calculated[q[k]].scale),
           z.translate = Plus(Times(r.translate, calculated[q[k]].scale), calculated[q[k]].translate),
           z.file = r.file
    PROVE  Right(z, q[k], n - k + 1)
<1> DEFINE c == q[k]
           o == calculated[c]
<1>1. n \in Nat \ {0} /\ c \in Derived /\ c \in Channels /\ o.source = q[k + 1]
  BY DEF Walk
<1>2. o.scale \in Fraction /\ o.translate \in Fraction /\ c \in DOMAIN calculated
  BY <1>1, DefinitionFacts DEF Derived
<1>3. r.scale \in Fraction /\ r.translate \in Fraction
  BY DEF Right
<1>4. z.scale \in Fraction /\ z.translate \in Fraction
  BY <1>2, <1>3, TimesType, PlusType
<1>5. \A raw \in Int : /\ Linearly(r, raw) \in Fraction /\ Linearly(z, raw) \in Fraction
                       /\ Same(Plus(Times(Linearly(r, raw), o.scale), o.translate), Linearly(z, raw))
  <2> SUFFICES ASSUME NEW raw \in Int
               PROVE  /\ Linearly(r, raw) \in Fraction /\ Linearly(z, raw) \in Fraction
                      /\ Same(Plus(Times(Linearly(r, raw), o.scale), o.translate), Linearly(z, raw))
    OBVIOUS
  <2>1. Reads(r, raw) \in Fraction /\ Reads(z, raw) = Reads(r, raw)
    BY ReadsType DEF Reads
  <2>2. Linearly(r, raw) \in Fraction /\ Linearly(z, raw) \in Fraction
    BY <1>3, <1>4, ReadsType
  <2> PICK x, a, b, f, t \in Fraction :
            x = Reads(r, raw) /\ a = r.scale /\ b = r.translate /\ f = o.scale /\ t = o.translate
    BY <1>2, <1>3, <2>1
  <2>3. Same(Plus(Times(Plus(Times(x, a), b), f), t), Plus(Times(x, Times(a, f)), Plus(Times(b, f), t)))
    BY ComposedSame
  <2>4. Linearly(r, raw) = Plus(Times(x, a), b)
    BY DEF Linearly
  <2>5. Linearly(z, raw) = Plus(Times(x, Times(a, f)), Plus(Times(b, f), t))
    BY <2>1 DEF Linearly
  <2> QED BY <2>2, <2>3, <2>4, <2>5
<1>6. ASSUME ~FormulaOverTable(Asked), ~NoTable(r), NEW raw \in Int, NEW m \in 0..Rounds,
             NEW v \in Known[m][Reading(raw)][c]
      PROVE  Same(v, Target(z, raw))
  <2>1. m - 1 \in 0..Rounds /\ \E x \in Known[m - 1][Reading(raw)][o.source] :
            x \in Fraction /\ v \in Fraction /\ Same(v, Plus(Times(x, o.scale), o.translate))
    BY <1>1, ValuesOfFormula
  <2> PICK i : i = m - 1
    OBVIOUS
  <2>2. PICK x \in Known[i][Reading(raw)][o.source] :
            x \in Fraction /\ v \in Fraction /\ Same(v, Plus(Times(x, o.scale), o.translate))
    BY <2>1
  <2>3. Same(x, Target(r, raw))
    BY <1>1, <1>6, <2>1, <2>2 DEF Right
  <2> PICK y \in Fraction : y = Linearly(r, raw)
    BY <1>5
  <2> PICK w \in Fraction : w = Linearly(z, raw)
    BY <1>5
  <2> PICK f \in Fraction, t \in Fraction : f = o.scale /\ t = o.translate
    BY <1>2
  <2>4. Same(Plus(Times(y, f), t), w)
    BY <1>5
  <2>5. Same(v, Plus(Times(x, f), t)) /\ x \in Fraction /\ v \in Fraction
    BY <2>2
  <2>6. CASE r.file = NoFile
    <3>1. Same(x, y) /\ Target(z, raw) = w
      BY <2>3, <2>6 DEF Target
    <3>2. Times(x, f) \in Fraction /\ Times(y, f) \in Fraction /\ Same(Times(x, f), Times(y, f))
      BY <2>5, <3>1, SameRefl, TimesSame, TimesType
    <3>3. /\ Plus(Times(x, f), t) \in Fraction /\ Plus(Times(y, f), t) \in Fraction
          /\ Same(Plus(Times(x, f), t), Plus(Times(y, f), t))
      BY <3>2, SameRefl, PlusSame, PlusType
    <3>4. Same(v, Plus(Times(y, f), t))
      BY <2>5, <3>3, SameTrans
    <3> QED BY <2>4, <2>5, <3>1, <3>3, <3>4, SameTrans
  <2>7. CASE r.file # NoFile
    <3>1. PICK j \in (k + 1)..(n - 1) : IsTable(q[j])
      BY <2>7
    <3>2. j \in 1..(n - 1) /\ k \in 1..(j - 1)
      BY <1>1
    <3>3. Identity(o)
      BY <1>6, <3>1, <3>2, WalkFormulas
    <3>4. Same(f, Whole(1)) /\ IsZero(t) /\ Whole(1) \in Fraction /\ Whole(0) \in Fraction
      BY <3>3, WholeType DEF Identity
    <3>5. ASSUME NEW a \in Fraction PROVE Same(Plus(Times(a, f), t), a) /\ Plus(Times(a, f), t) \in Fraction
      <4>1. Times(a, f) \in Fraction /\ Same(Times(a, f), Times(a, Whole(1))) /\ Times(a, Whole(1)) = a
        BY <3>4, SameRefl, TimesSame, TimesType, Units
      <4>2. Same(t, Whole(0))
        BY <3>4, Units
      <4>3. Same(Plus(Times(a, f), t), Plus(a, Whole(0))) /\ Plus(a, Whole(0)) = a
        BY <3>4, <4>1, <4>2, PlusSame, Units
      <4> QED BY <4>1, <4>3, PlusType
    <3>6. Same(v, x)
      BY <2>5, <3>5, SameTrans
    <3>7. Same(y, w)
      BY <2>4, <3>5, SameSym, SameTrans
    <3>8. Target(r, raw) = TableEntry(ReadTable(r.file), y) /\ Target(z, raw) = TableEntry(ReadTable(r.file), w)
      BY <2>7 DEF Target
    <3>9. Target(r, raw) = Target(z, raw)
      BY <3>7, <3>8, TableEntrySame
    <3>10. Target(r, raw) \in Fraction
      <4>1. ReadTable(r.file) # <<>>
        BY <1>6, <2>7 DEF NoTable
      <4> QED BY <3>8, <4>1, ReadTableType, TableEntryType
    <3> QED BY <2>3, <2>5, <3>6, <3>9, <3>10, SameTrans
  <2> QED BY <2>6, <2>7
<1>7. ASSUME ~MentionsCancelled(Formulas, Asked), ~NoTable(r), scalars[r.scalar].usable,
             NEW raw \in Int, NEW m \in 0..Rounds, m >= n - k + 1
      PROVE  Known[m][Reading(raw)][c] # {}
  <2> PICK i : i = m - 1
    OBVIOUS
  <2>1. m # 0 /\ i \in 0..Rounds /\ i >= n - k
    BY <1>1, <1>7, KnownStep
  <2>2. Known[i][Reading(raw)][o.source] # {}
    BY <1>1, <1>7, <2>1 DEF Right
  <2>3. Names[Formulas[c]] = {o.source}
    BY <1>7, WalkCancelled
  <2> QED BY <1>1, <2>1, <2>2, <2>3, ValuesOfFormula
<1>8. NoTable(z) <=> NoTable(r)
  BY DEF NoTable
<1> HIDE DEF c, o
<1>9. Right(z, c, n - k + 1)
  BY <1>4, <1>6, <1>7, <1>8 DEF Right
<1> QED BY <1>9 DEF c

\* and so is composing a table.
LEMMA RightTable ==
    ASSUME ReadInv, AllRead, NEW n, NEW q, Walk(q, n), NEW k \in 1..(n - 1), IsTable(q[k]),
           NEW r, r.scalar \in DOMAIN scalars, Right(r, q[k + 1], n - k), r.file = NoFile,
           NEW z, z.scalar = r.scalar, z.scale = Times(r.scale, calculated[q[k]].scale),
           z.translate = Plus(Times(r.translate, calculated[q[k]].scale), calculated[q[k]].translate),
           z.file = calculated[q[k]].file
    PROVE  Right(z, q[k], n - k + 1)
<1> DEFINE c == q[k]
           o == calculated[c]
<1>1. n \in Nat \ {0} /\ c \in Derived /\ c \in Channels /\ o.source = q[k + 1]
  BY DEF Walk
<1>2. r.scale \in Fraction /\ r.translate \in Fraction /\ ~NoTable(r)
  BY DEF Right, NoTable
<1>3. o.scale = Whole(1) /\ o.translate = Whole(0)
  <2>1. 0 \in Int /\ 0 \in 0..Rounds
    BY KnownStep
  <2> QED BY <1>1, <2>1, ValuesOfTable
<1>4. z.scale = r.scale /\ z.translate = r.translate
  BY <1>2, <1>3, Units
<1>5. ASSUME NEW raw \in Int
      PROVE  /\ Linearly(r, raw) \in Fraction
             /\ Target(r, raw) = Linearly(r, raw)
             /\ Target(z, raw) = TableEntry(ReadTable(o.file), Linearly(r, raw))
  <2>1. Linearly(z, raw) = Linearly(r, raw)
    BY <1>4 DEF Linearly, Reads
  <2> QED BY <1>2, <2>1, ReadsType DEF Target, IsTable
<1>6. ASSUME ~FormulaOverTable(Asked), NEW raw \in Int, NEW m \in 0..Rounds,
             NEW v \in Known[m][Reading(raw)][c]
      PROVE  Same(v, Target(z, raw))
  <2>1. m - 1 \in 0..Rounds /\ \E x \in Known[m - 1][Reading(raw)][o.source] :
            x \in Fraction /\ v = TableEntry(ReadTable(o.file), x)
    BY <1>1, ValuesOfTable
  <2> PICK i : i = m - 1
    OBVIOUS
  <2>2. PICK x \in Known[i][Reading(raw)][o.source] : x \in Fraction /\ v = TableEntry(ReadTable(o.file), x)
    BY <2>1
  <2>3. Same(x, Target(r, raw))
    BY <1>1, <1>2, <1>6, <2>1, <2>2 DEF Right
  <2> PICK y \in Fraction : y = Linearly(r, raw)
    BY <1>5
  <2>4. Same(x, y)
    BY <1>5, <2>3
  <2>5. TableEntry(ReadTable(o.file), x) = TableEntry(ReadTable(o.file), y)
    BY <2>2, <2>4, TableEntrySame
  <2>6. v = Target(z, raw)
    BY <1>5, <2>2, <2>5
  <2> QED BY <2>6, SameRefl
<1>7. ASSUME ~MentionsCancelled(Formulas, Asked), ~NoTable(z), scalars[r.scalar].usable,
             NEW raw \in Int, NEW m \in 0..Rounds, m >= n - k + 1
      PROVE  Known[m][Reading(raw)][c] # {}
  <2> PICK i : i = m - 1
    OBVIOUS
  <2>1. m # 0 /\ i \in 0..Rounds /\ i >= n - k
    BY <1>1, <1>7, KnownStep
  <2>2. Known[i][Reading(raw)][o.source] # {}
    BY <1>1, <1>2, <1>7, <2>1 DEF Right
  <2>3. ReadTable(o.file) # <<>>
    BY <1>7 DEF NoTable, IsTable
  <2> QED BY <1>1, <2>1, <2>2, <2>3, ValuesOfTable
<1> HIDE DEF c, o
<1>8. Right(z, c, n - k + 1)
  BY <1>2, <1>4, <1>6, <1>7 DEF Right
<1> QED BY <1>8 DEF c

------------------------------------------------------------------------------
(* Decoding: the invariant *)

\* What a call in progress returned is right about its channel.
RightInv ==
    channel # NoChannel /\ resolved \notin {Pending, None} =>
        \E n, q, r, c, k :
            /\ Walk(q, n)
            /\ Outcome(q, n)
            /\ r = resolved /\ c = channel /\ k = n - Len(path)
            /\ Right(r, c, k)

\* The entries of a configuration.
Configs ==
    [scalar : Channels, scale : Fraction, translate : Fraction, lookup : Seq(Int),
     transform : {DefaultTransform(f) : f \in STRING}]

\* The configuration of c decodes to what c means.
DecodesRight(c, config) ==
    \A raw \in Int :
        LET values == Meaning(Meant, raw)[c] IN
        /\ values = {} => MentionsCancelled(Formulas, c)
        /\ \/ \A v \in values : Same(Decoded(config, raw), Transformed(config.transform, v))
           \/ FormulaUnderTransform(config)
           \/ FormulaOverTable(c)

\* So do all fields.
FieldsInv ==
    /\ fields \in Seq([entry : 1..Len(FieldMap), config : Configs])
    /\ fields # <<>> => AllRead
    /\ \A i \in DOMAIN fields : DecodesRight(FieldMap[fields[i].entry].channel, fields[i].config)

DecodeInv == RightInv /\ FieldsInv

\* The meaning of channels changes with definitions only.
LEMMA MeaningKept ==
    ASSUME UNCHANGED <<definitionVars, sections>>
    PROVE  /\ Formulas' = Formulas
           /\ Meant' = Meant
           /\ \A c : FormulaOverTable(c)' = FormulaOverTable(c)
           /\ \A c : MentionsCancelled(Formulas, c)' = MentionsCancelled(Formulas, c)
           /\ \A c, config : DecodesRight(c, config)' = DecodesRight(c, config)
           /\ \A raw : Reading(raw)' = Reading(raw)
           /\ \A r, raw : Target(r, raw)' = Target(r, raw)
           /\ \A r : NoTable(r)' = NoTable(r)
<1>1. scalars' = scalars /\ calculated' = calculated /\ sections' = sections
  BY DEF definitionVars
<1>2. Formulas' = Formulas
  BY <1>1 DEF Formulas
<1>3. Meant' = Meant
  BY <1>1, <1>2 DEF Meant
<1>4. /\ \A c : Chains(c)' = Chains(c)
      /\ \A c : IsTable(c)' = IsTable(c)
  BY DefinitionsKept
<1>5. \A c : FormulaOverTable(c)' = FormulaOverTable(c)
  BY <1>1, <1>4 DEF FormulaOverTable
<1>6. \A c : MentionsCancelled(Formulas, c)' = MentionsCancelled(Formulas, c)
  BY <1>1, <1>2, <1>4 DEF MentionsCancelled
<1>7. \A c, config : DecodesRight(c, config)' = DecodesRight(c, config)
  BY <1>2, <1>3, <1>5, <1>6 DEF DecodesRight
<1>8. \A raw : Reading(raw)' = Reading(raw)
  BY <1>3 DEF Reading
<1>9. \A r, raw : Target(r, raw)' = Target(r, raw)
  BY <1>1 DEF Target, Linearly, Reads
<1>10. \A r : NoTable(r)' = NoTable(r)
  BY DEF NoTable
<1> QED BY <1>2, <1>3, <1>5, <1>6, <1>7, <1>8, <1>9, <1>10

\* So does what is right about them.
LEMMA RightKept ==
    ASSUME UNCHANGED <<definitionVars, sections, entry>>
    PROVE  \A r, c, k : Right(r, c, k)' = Right(r, c, k)
<1>1. Asked' = Asked /\ scalars' = scalars
  BY DEF Asked, definitionVars
<1>2. /\ FormulaOverTable(Asked)' = FormulaOverTable(Asked)
      /\ MentionsCancelled(Formulas, Asked)' = MentionsCancelled(Formulas, Asked)
      /\ \A raw : Reading(raw)' = Reading(raw)
      /\ \A r, raw : Target(r, raw)' = Target(r, raw)
      /\ \A r : NoTable(r)' = NoTable(r)
  BY <1>1, MeaningKept
<1> QED BY <1>1, <1>2 DEF Right

\* ResolveEntry keeps RightInv.
LEMMA RightStep ==
    ASSUME ReadInv, ResolutionInv, RightInv, ResolveEntry
    PROVE  RightInv'
<1>1. /\ Busy /\ Resolve /\ channel # NoChannel /\ AllRead
      /\ UNCHANGED <<definitionVars, entry, at, sections>>
  BY DEF ResolveEntry, Resolve, Busy, frontVars
<1>2. ResolutionType
  BY DEF ResolutionInv
<1> SUFFICES ASSUME resolved' \notin {Pending, None}
             PROVE  \E n, q, r, c, k :
                        /\ Walk(q, n)'
                        /\ Outcome(q, n)'
                        /\ r = resolved' /\ c = channel' /\ k = n - Len(path')
                        /\ Right(r, c, k)'
  BY DEF RightInv
<1>3. CASE FoundScalar
  <2>1. PICK n, q : Walk(q, n)
    BY <1>1 DEF ResolutionInv
  <2>2. Walk(q, n)' /\ Outcome(q, n)'
    BY <1>1, <1>3, <2>1, FoundScalarWalk
  <2>3. /\ channel \in DOMAIN scalars /\ channel' = channel /\ Len(path') = n - 1 /\ n \in Nat
        /\ resolved' = [scalar |-> channel, scale |-> Whole(1), translate |-> Whole(0), file |-> NoFile]
    BY <1>3, <2>1 DEF FoundScalar, Walk
  <2> PICK r, c : r = resolved' /\ c = channel'
    OBVIOUS
  <2>4. Right(r, c, 1)
    BY <1>1, <2>3, RightFound
  <2>5. Right(r, c, 1)'
    BY <1>1, <2>4, RightKept
  <2>6. n - Len(path') = 1
    BY <2>3
  <2> QED BY <2>2, <2>5, <2>6, Zenon
<1>4. CASE Descend
  BY <1>4 DEF Descend
<1>5. CASE Fail
  BY <1>5 DEF Fail
<1>6. CASE Return
  <2>1. /\ resolved # Pending /\ path # <<>>
        /\ channel' = Last(path) /\ path' = Front(path)
        /\ resolved' = Composed(resolved, calculated[Last(path)])
    BY <1>6 DEF Return
  <2>2. resolved # None
    BY <2>1 DEF Composed
  <2>3. PICK n, q : Walk(q, n) /\ Outcome(q, n) /\ Right(resolved, channel, n - Len(path))
    BY <1>1, <2>1, <2>2 DEF RightInv
  <2>4. Walk(q, n)' /\ Outcome(q, n)'
    BY <1>1, <1>2, <1>6, <2>3, ReturnWalk
  <2> PICK k : k = Len(path)
    OBVIOUS
  <2>5. path \in Seq(Channels)
    BY <1>2 DEF ResolutionType
  <2>6. k \in Nat \ {0} /\ channel' = path[k] /\ Len(path') = k - 1
    BY <2>1, <2>5, FrontFacts DEF Last, Front
  <2>7. n \in Nat \ {0} /\ k < n /\ channel' = q[k] /\ channel = q[k + 1]
    BY <2>3, <2>6 DEF Walk
  <2>8. k \in 1..(n - 1) /\ n - Len(path') = n - k + 1 /\ Last(path) = q[k]
    BY <2>1, <2>6, <2>7
  <2> PICK r : r = resolved
    OBVIOUS
  <2> PICK z : z = resolved'
    OBVIOUS
  <2>9. /\ r.scalar \in DOMAIN scalars
        /\ r.file # NoFile => \E j \in (k + 1)..(n - 1) : IsTable(q[j])
        /\ Right(r, q[k + 1], n - k)
    BY <2>2, <2>3, <2>7 DEF Outcome
  <2>10. /\ z = Composed(r, calculated[q[k]]) /\ z # None /\ r # None
    BY <2>1, <2>2, <2>8
  <2>11. /\ z.scalar = r.scalar
         /\ z.scale = Times(r.scale, calculated[q[k]].scale)
         /\ z.translate = Plus(Times(r.translate, calculated[q[k]].scale), calculated[q[k]].translate)
         /\ z.file = IF calculated[q[k]].file # NoFile THEN calculated[q[k]].file ELSE r.file
         /\ calculated[q[k]].file = NoFile \/ r.file = NoFile
    BY <2>10 DEF Composed
  <2>12. Right(z, q[k], n - k + 1)
    <3>1. CASE IsTable(q[k])
      <4>1. z.file = calculated[q[k]].file /\ r.file = NoFile
        BY <2>11, <3>1 DEF IsTable
      <4> QED BY <1>1, <2>3, <2>8, <2>9, <2>11, <3>1, <4>1, RightTable
    <3>2. CASE ~IsTable(q[k])
      <4>1. z.file = r.file
        BY <2>11, <3>2 DEF IsTable
      <4> QED BY <1>1, <2>3, <2>8, <2>9, <2>11, <3>2, <4>1, RightFormula
    <3> QED BY <3>1, <3>2
  <2> PICK c, l : c = q[k] /\ l = n - k + 1
    OBVIOUS
  <2>13. Right(z, c, l)'
    BY <1>1, <2>12, RightKept
  <2>14. z = resolved' /\ c = channel' /\ l = n - Len(path')
    BY <2>7, <2>8
  <2> QED BY <2>4, <2>13, <2>14, Zenon
<1> QED BY <1>1, <1>3, <1>4, <1>5, <1>6 DEF Resolve

\* The entry of the configuration.
LEMMA ConfigFacts ==
    ASSUME ReadInv, resolved # None, resolved.scalar \in DOMAIN scalars,
           resolved.scale \in Fraction, resolved.translate \in Fraction,
           NEW field \in STRING, FieldConfig(field) # None
    PROVE  LET config == FieldConfig(field)
               s == scalars[resolved.scalar]
           IN /\ config \in Configs
              /\ s.usable
              /\ ~NoTable(resolved)
              /\ config.scale = Times(s.scale, resolved.scale)
              /\ config.translate = Plus(Times(s.translate, resolved.scale), resolved.translate)
              /\ config.lookup = IF resolved.file = NoFile THEN <<>> ELSE ReadTable(resolved.file)
<1> DEFINE s == scalars[resolved.scalar]
           table == IF resolved.file = NoFile THEN <<>> ELSE ReadTable(resolved.file)
           config == [scalar |-> resolved.scalar,
                      scale |-> Times(s.scale, resolved.scale),
                      translate |-> Plus(Times(s.translate, resolved.scale), resolved.translate),
                      lookup |-> table,
                      transform |-> DefaultTransform(field)]
<1>1. s.usable /\ ~NoTable(resolved) /\ FieldConfig(field) = config
  BY DEF FieldConfig, NoTable
<1>2. s.scale \in Fraction /\ s.translate \in Fraction /\ resolved.scalar \in Channels
  BY ScalarsType DEF ReadInv
<1>3. config.scale \in Fraction /\ config.translate \in Fraction
  BY <1>2, TimesType, PlusType
<1>4. table \in Seq(Int)
  BY ReadTableType
<1>5. DefaultTransform(field) \in {DefaultTransform(f) : f \in STRING}
  OBVIOUS
<1>6. config \in Configs
  <2> HIDE DEF table, s
  <2> QED BY <1>2, <1>3, <1>4, <1>5 DEF Configs
<1>7. /\ config.scale = Times(s.scale, resolved.scale)
      /\ config.translate = Plus(Times(s.translate, resolved.scale), resolved.translate)
      /\ config.lookup = table
  OBVIOUS
<1> HIDE DEF config
<1> QED BY <1>1, <1>6, <1>7

\* What the scale, table and transform of an entry make of a raw value.
LEMMA DecodedSame ==
    ASSUME NEW config \in Configs, NEW raw \in Int, NEW v \in Fraction, NEW y \in Fraction,
           Same(y, Plus(Times(Whole(raw), config.scale), config.translate)),
           config.lookup = <<>> => Same(v, y),
           config.lookup # <<>> => Same(v, TableEntry(config.lookup, y)),
           ~FormulaUnderTransform(config)
    PROVE  Same(Decoded(config, raw), Transformed(config.transform, v))
<1>1. config.scale \in Fraction /\ config.translate \in Fraction
  BY DEF Configs
<1> PICK x \in Fraction : x = Whole(raw)
  BY WholeType
<1> PICK w : w = Plus(Times(x, config.scale), config.translate)
  OBVIOUS
<1>2. w \in Fraction /\ Same(y, w) /\ Times(x, config.scale) \in Fraction
  BY <1>1, TimesType, PlusType
<1>3. CASE config.lookup # <<>>
  <2>1. config.transform = "identity"
    BY <1>3 DEF FormulaUnderTransform
  <2>2. Transformed(config.transform, v) = v
    BY <2>1 DEF Transformed
  <2>3. Decoded(config, raw) = TableEntry(config.lookup, w)
    BY <1>3 DEF Decoded
  <2>4. TableEntry(config.lookup, y) = TableEntry(config.lookup, w)
    BY <1>2, TableEntrySame
  <2> QED BY <1>3, <2>2, <2>3, <2>4, SameSym
<1>4. CASE config.lookup = <<>>
  <2>1. Same(v, w)
    BY <1>2, <1>4, SameTrans
  <2>2. CASE config.transform = "identity"
    <3>1. Transformed(config.transform, v) = v
      BY <2>2 DEF Transformed
    <3>2. Decoded(config, raw) = w
      BY <1>4, <2>2 DEF Decoded
    <3> QED BY <2>1, <3>1, <3>2, SameSym
  <2>3. CASE config.transform # "identity"
    <3>1. Same(config.scale, Whole(1)) /\ IsZero(config.translate)
      BY <2>3 DEF FormulaUnderTransform, Identity
    <3>2. Whole(1) \in Fraction /\ Whole(0) \in Fraction
      BY WholeType
    <3>3. Same(Times(x, config.scale), x)
      <4>1. Same(Times(x, config.scale), Times(x, Whole(1)))
        BY <1>1, <3>1, <3>2, SameRefl, TimesSame
      <4> QED BY <4>1, Units
    <3>4. Same(w, x)
      <4>1. Same(config.translate, Whole(0))
        BY <1>1, <3>1, Units
      <4>2. Same(w, Plus(x, Whole(0)))
        BY <1>1, <1>2, <3>2, <3>3, <4>1, PlusSame
      <4> QED BY <4>2, Units
    <3>5. Same(x, v)
      BY <1>2, <2>1, <3>4, SameSym, SameTrans
    <3>6. Decoded(config, raw) = Transformed(config.transform, x)
      BY <1>4, <2>3 DEF Decoded
    <3> QED BY <3>5, <3>6, TransformedSame
  <2> QED BY <2>2, <2>3
<1> QED BY <1>3, <1>4

\* A field that is added decodes right.
LEMMA EndDecodes ==
    ASSUME ReadInv, ResolutionInv, RightInv, Busy, Resolved,
           NEW field \in STRING, NEW config, config = FieldConfig(field), config # None
    PROVE  config \in Configs /\ DecodesRight(Asked, config)
<1>1. resolved \notin {Pending, None}
  BY DEF Resolved, FieldConfig
<1>2. PICK n, q, r, c, k :
          /\ Walk(q, n)
          /\ Outcome(q, n)
          /\ r = resolved /\ c = channel /\ k = n - Len(path)
          /\ Right(r, c, k)
  BY <1>1 DEF RightInv, Busy
<1>3. n \in Nat \ {0} /\ k = n /\ c = Asked /\ Asked \in Channels /\ AllRead
  BY <1>2 DEF Resolved, Walk, Busy
<1>4. r.scalar \in DOMAIN scalars /\ r.scale \in Fraction /\ r.translate \in Fraction
  BY <1>1, <1>2 DEF Outcome, Right
<1> DEFINE s == scalars[r.scalar]
<1>5. /\ config \in Configs
      /\ s.usable
      /\ ~NoTable(r)
      /\ config.scale = Times(s.scale, r.scale)
      /\ config.translate = Plus(Times(s.translate, r.scale), r.translate)
      /\ config.lookup = IF r.file = NoFile THEN <<>> ELSE ReadTable(r.file)
  BY <1>1, <1>2, <1>4, ConfigFacts
<1>6. Rounds \in 0..Rounds /\ Rounds >= n
  <2>1. n - 1 <= Cardinality(Channels)
    BY <1>2, WalkLength
  <2> QED BY <1>3, <2>1, EnumerationExists DEF Rounds
<1>7. ASSUME NEW raw \in Int
      PROVE  /\ Meaning(Meant, raw)[Asked] = {} => MentionsCancelled(Formulas, Asked)
             /\ ~FormulaUnderTransform(config) /\ ~FormulaOverTable(Asked) =>
                   \A v \in Meaning(Meant, raw)[Asked] :
                       Same(Decoded(config, raw), Transformed(config.transform, v))
  <2>1. Meaning(Meant, raw)[Asked] = Known[Rounds][Reading(raw)][c]
    BY <1>3 DEF Meaning, Reading
  <2>2. Known[Rounds][Reading(raw)][c] = {} => MentionsCancelled(Formulas, Asked)
    BY <1>2, <1>3, <1>5, <1>6 DEF Right
  <2>3. ASSUME ~FormulaUnderTransform(config), ~FormulaOverTable(Asked),
               NEW v \in Known[Rounds][Reading(raw)][c]
        PROVE  Same(Decoded(config, raw), Transformed(config.transform, v))
    <3>1. v \in Fraction
      <4>1. Known[Rounds][Reading(raw)] \in Valuations
        BY <1>3, <1>6, KnownFacts
      <4> QED BY <1>3, <4>1 DEF Valuations
    <3>2. Same(v, Target(r, raw))
      BY <1>2, <1>5, <1>6, <2>3 DEF Right
    <3> PICK y \in Fraction : y = Linearly(r, raw)
      BY <1>4, ReadsType
    <3>3. Same(y, Plus(Times(Whole(raw), config.scale), config.translate))
      <4> PICK x, a, b, f, t \in Fraction :
              x = Whole(raw) /\ a = s.scale /\ b = s.translate /\ f = r.scale /\ t = r.translate
        BY <1>4, ReadsType, WholeType
      <4>1. Same(Plus(Times(Plus(Times(x, a), b), f), t), Plus(Times(x, Times(a, f)), Plus(Times(b, f), t)))
        BY ComposedSame
      <4>2. y = Plus(Times(Plus(Times(x, a), b), f), t)
        BY DEF Linearly, Reads
      <4>3. config.scale = Times(a, f) /\ config.translate = Plus(Times(b, f), t)
        BY <1>5
      <4> QED BY <4>1, <4>2, <4>3
    <3>4. config.lookup = <<>> => Same(v, y)
      <4>1. config.lookup = <<>> => r.file = NoFile
        BY <1>5 DEF NoTable
      <4> QED BY <3>2, <4>1 DEF Target
    <3>5. config.lookup # <<>> => Same(v, TableEntry(config.lookup, y))
      <4>1. config.lookup # <<>> => r.file # NoFile /\ config.lookup = ReadTable(r.file)
        BY <1>5
      <4> QED BY <3>2, <4>1 DEF Target
    <3> QED BY <1>5, <2>3, <3>1, <3>3, <3>4, <3>5, DecodedSame
  <2> QED BY <2>1, <2>2, <2>3
<1>8. DecodesRight(Asked, config)
  BY <1>7 DEF DecodesRight
<1> QED BY <1>5, <1>8

\* Other steps keep FieldsInv.
LEMMA FieldsKept ==
    ASSUME FieldsInv, UNCHANGED <<definitionVars, sections, fields>>, AllRead => AllRead'
    PROVE  FieldsInv'
  BY MeaningKept DEF FieldsInv

\* EndEntry keeps FieldsInv.
LEMMA FieldsStep ==
    ASSUME ReadInv, ResolutionInv, DecodeInv, EndEntry
    PROVE  FieldsInv'
<1>1. /\ Busy /\ Resolved /\ UNCHANGED <<definitionVars, sections, at, entry>> /\ AllRead /\ AllRead'
  BY DEF EndEntry, Busy, AllRead
<1> PICK config : config = FieldConfig(FieldMap[entry].field)
  OBVIOUS
<1>2. CASE config = None
  <2>1. fields' = fields
    BY <1>2 DEF EndEntry
  <2> QED BY <1>1, <2>1, FieldsKept DEF DecodeInv
<1>3. CASE config # None
  <2>1. entry \in 1..Len(FieldMap) /\ FieldMap[entry].field \in STRING
    <3>1. entry \in 1..Len(FieldMap)
      BY <1>1 DEF ResolutionInv, ResolutionType, Busy
    <3> DEFINE T == [field : STRING, channel : Channels \cup {NoChannel}]
    <3>2. \A f \in T : f.field \in STRING
      OBVIOUS
    <3>3. FieldMap \in Seq(T)
      BY FieldMapAssumption
    <3> HIDE DEF T
    <3>4. FieldMap[entry] \in T
      BY <3>1, <3>3
    <3> QED BY <3>1, <3>2, <3>4
  <2>2. config \in Configs /\ DecodesRight(Asked, config)
    BY <1>1, <1>3, <2>1, EndDecodes DEF DecodeInv
  <2> PICK f : f = [entry |-> entry, config |-> config]
    OBVIOUS
  <2> DEFINE S == [entry : 1..Len(FieldMap), config : Configs]
  <2>3. f \in S /\ f.config = config /\ f.entry = entry
    BY <2>1, <2>2
  <2>4. fields' = Append(fields, f) /\ fields \in Seq(S)
    BY <1>3 DEF EndEntry, DecodeInv, FieldsInv
  <2> HIDE DEF S
  <2>5. fields' \in Seq(S) /\ DOMAIN fields' = 1..(Len(fields) + 1) /\ fields'[Len(fields) + 1] = f
        /\ Len(fields) \in Nat /\ DOMAIN fields = 1..Len(fields)
        /\ \A i \in 1..Len(fields) : fields'[i] = fields[i]
    BY <2>3, <2>4
  <2>6. ASSUME NEW i \in DOMAIN fields'
        PROVE  DecodesRight(FieldMap[fields'[i].entry].channel, fields'[i].config)
    <3>1. CASE i \in 1..Len(fields)
      BY <2>5, <3>1 DEF DecodeInv, FieldsInv
    <3>2. CASE i = Len(fields) + 1
      <4>1. fields'[i].config = config /\ FieldMap[fields'[i].entry].channel = Asked
        BY <2>3, <2>5, <3>2 DEF Asked
      <4> QED BY <2>2, <4>1
    <3> QED BY <2>5, <3>1, <3>2
  <2>7. \A c, g : DecodesRight(c, g)' = DecodesRight(c, g)
    BY <1>1, MeaningKept
  <2>8. \A i \in DOMAIN fields' : DecodesRight(FieldMap[fields[i].entry].channel, fields[i].config)'
    BY <2>6, <2>7
  <2> QED BY <1>1, <2>5, <2>8 DEF FieldsInv, S
<1> QED BY <1>2, <1>3

\* Other steps keep RightInv.
LEMMA RightUnchanged ==
    ASSUME RightInv, UNCHANGED <<definitionVars, resolutionVars, entry, sections>>
    PROVE  RightInv'
<1> SUFFICES ASSUME channel' # NoChannel, resolved' \notin {Pending, None}
             PROVE  \E n, q, r, c, k :
                        /\ Walk(q, n)'
                        /\ Outcome(q, n)'
                        /\ r = resolved' /\ c = channel' /\ k = n - Len(path')
                        /\ Right(r, c, k)'
  BY DEF RightInv
<1>1. resolved' = resolved /\ channel' = channel /\ path' = path /\ seen' = seen
  BY DEF resolutionVars
<1>2. PICK n, q, r, c, k :
          /\ Walk(q, n)
          /\ Outcome(q, n)
          /\ r = resolved /\ c = channel /\ k = n - Len(path)
          /\ Right(r, c, k)
  BY <1>1 DEF RightInv
<1>3. Walk(q, n)'
  BY <1>1, <1>2, DefinitionsKept DEF Walk, Asked, definitionVars
<1>4. Outcome(q, n)'
  BY <1>1, <1>2, DefinitionsKept DEF Outcome, Asked, definitionVars
<1>5. Right(r, c, k)'
  BY <1>2, RightKept
<1>6. r = resolved' /\ c = channel' /\ k = n - Len(path')
  BY <1>1, <1>2
<1> QED BY <1>3, <1>4, <1>5, <1>6, Zenon

\* Every step keeps DecodeInv.
LEMMA DecodeNext ==
    ASSUME ReadInv, ResolutionInv, DecodeInv, [Next]_vars
    PROVE  DecodeInv'
<1> USE DEF DecodeInv
<1>1. CASE PreprocessLine
  <2>1. UNCHANGED <<definitionVars, resolutionVars, entry, sections, at, fields>>
    BY <1>1 DEF PreprocessLine, frontVars
  <2> QED BY <2>1, RightUnchanged, FieldsKept DEF AllRead
<1>2. CASE SectionEnd
  <2>1. ~AllRead /\ Len(sections) \in Nat
    BY <1>2, InputFacts DEF SectionEnd, AllRead, ReadInv
  <2>2. channel = NoChannel /\ fields = <<>>
    BY <2>1 DEF ResolutionInv, ResolutionType, FieldsInv
  <2>3. channel' = NoChannel /\ fields' = <<>>
    BY <1>2, <2>2 DEF SectionEnd, resolutionVars
  <2> QED BY <2>3 DEF RightInv, FieldsInv
<1>3. CASE SkipEntry
  <2>1. /\ channel' = NoChannel
        /\ UNCHANGED <<definitionVars, sections, at, fields>>
    BY <1>3 DEF SkipEntry, resolutionVars, Idle
  <2> QED BY <2>1, FieldsKept DEF RightInv, AllRead
<1>4. CASE BeginEntry
  <2>1. resolved' = Pending /\ UNCHANGED <<definitionVars, sections, at, fields>>
    BY <1>4 DEF BeginEntry, BeginResolution
  <2> QED BY <2>1, FieldsKept DEF RightInv, AllRead
<1>5. CASE ResolveEntry
  <2>1. UNCHANGED <<definitionVars, sections, at, fields>>
    BY <1>5 DEF ResolveEntry, Resolve, frontVars
  <2> QED BY <1>5, <2>1, RightStep, FieldsKept DEF AllRead
<1>6. CASE EndEntry
  <2>1. channel' = NoChannel
    BY <1>6 DEF EndEntry
  <2> QED BY <1>6, <2>1, FieldsStep DEF RightInv
<1>7. CASE UNCHANGED vars
  <2>1. UNCHANGED <<definitionVars, resolutionVars, entry, sections, at, fields>>
    BY <1>7 DEF vars, frontVars
  <2> QED BY <2>1, RightUnchanged, FieldsKept DEF AllRead
<1> QED BY <1>1, <1>2, <1>3, <1>4, <1>5, <1>6, <1>7 DEF Next, Finished

\* A generated field decodes every raw value to what the expressions and tables
\* between channel and scalar make of it, for every input and field map, except
\* where a step would have to follow a lookup or a transform.
THEOREM FieldsDecode == Spec => []FieldsDecodeRight
<1>1. Init => DecodeInv
  BY DEF Init, DecodeInv, RightInv, FieldsInv
<1>2. ReadInv /\ ResolutionInv /\ DecodeInv /\ [Next]_vars => DecodeInv'
  BY DecodeNext
<1>3. FieldsInv => FieldsDecodeRight
  BY RawsAssumption DEF FieldsInv, DecodesRight, FieldsDecodeRight, Meant, Formulas
<1>4. DecodeInv => FieldsInv
  BY DEF DecodeInv
<1> QED BY <1>1, <1>2, <1>3, <1>4, FrontEndInductive, PTL DEF Spec
==============================================================================
