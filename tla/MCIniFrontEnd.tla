---------------------------- MODULE MCIniFrontEnd ----------------------------
(* Instance of IniFrontEnd for TLC: nested conditionals around one formula,    *)
(* arrangements of formulas and tables, and single expressions.                *)
EXTENDS IniFrontEnd, TLC

If(s) == [directive |-> "if", symbol |-> s]
Else == [directive |-> "else"]
Endif == [directive |-> "endif"]
Holding(d) == [directive |-> "none", definition |-> d]

Name(c) == [op |-> "name", name |-> c]
Number(n) == [op |-> "number", value |-> n]
Negative(e) == [op |-> "neg", arg |-> e]
Both(o, d, e) == [op |-> o, left |-> d, right |-> e]
Table(c, f) == [op |-> "table", name |-> c, file |-> f]
Other == [op |-> "other"]

ScalarLine(n, s, t, u) ==
    Holding([kind |-> "scalar", name |-> n, scale |-> Whole(s), translate |-> Whole(t), usable |-> u])
CalculatedLine(n, e) == Holding([kind |-> "calculated", name |-> n, expression |-> e])
FormulaLine(n, c, s, t) == CalculatedLine(n, Both("add", Both("mul", Name(c), Number(s)), Number(t)))

MCSymbols == "CELSIUS" :> TRUE
MCChannels == {"raw", "other", "a", "b"}
MCDirectories == <<"map.inc" :> <<0, 1>>, "map.inc" :> <<7, 7>> @@ "fuel.inc" :> <<9, 5, 7>>>>
MCFieldMap ==
    <<[field |-> "boost", channel |-> "b"], [field |-> "rpm", channel |-> NoChannel],
      [field |-> "gear", channel |-> "a"], [field |-> "lights", channel |-> "a"]>>

Scalars == <<ScalarLine("raw", 2, 1, TRUE), ScalarLine("other", 1, 0, TRUE)>>
Formula == FormulaLine("a", "raw", 2, 1)

MCConditionals == {If("CELSIUS"), If("CAN"), Else, Endif, Formula}

MCDefinitions ==
    {Formula, FormulaLine("a", "b", -1, 3), FormulaLine("b", "a", 3, -4),
     CalculatedLine("b", Table("a", "fuel.inc")), CalculatedLine("a", Table("raw", "map.inc")),
     CalculatedLine("a", Table("raw", "lost.inc")), CalculatedLine("a", Name("other"))}

MCCustoms ==
    {<<>>, <<FormulaLine("b", "raw", 1, 5)>>, <<Else, FormulaLine("a", "other", 1, -1)>>,
     <<ScalarLine("raw", 1, 0, FALSE)>>}

\* Expressions of one or two channels and small numbers, two operators deep.
Leaves == {Name("raw"), Name("other"), Number(0), Number(2), Other}
Grown(S, T) == [op : {"neg"}, arg : S] \cup [op : {"add", "sub", "mul", "div"}, left : S, right : T]
Once == Grown(Leaves, Leaves)
Twice == Grown(Once, Leaves) \cup Grown(Leaves, Once)

MCInputs ==
    {<<Scalars \o main, <<FormulaLine("b", "a", 3, -4)>>>> : main \in BoundedSeq(MCConditionals, 5)}
    \cup {<<Scalars \o main, custom>> : main \in BoundedSeq(MCDefinitions, 3), custom \in MCCustoms}
    \cup {<<Scalars \o <<CalculatedLine("b", e)>>>> : e \in Once \cup Twice}
    \cup {<<Scalars \o <<CalculatedLine("b", Both("sub", e, Name("other")))>>,
            <<ScalarLine("other", 1, 0, FALSE)>>>> : e \in Once}

\* The expressions of all lines, with their parts, and how deep they nest.
Expression(l) == l.definition.expression
Written ==
    {Expression(l) : l \in {k \in MCDefinitions : HoldsKind(k, "calculated")}}
    \cup {Expression(FormulaLine("b", "raw", 1, 5)), Expression(FormulaLine("a", "other", 1, -1))}
Products == {e.left : e \in {d \in Written : d.op = "add"}}
MCExpressions ==
    Leaves \cup Once \cup Twice \cup Written \cup Products
    \cup UNION {Parts(e) : e \in Written \cup Products}
MCDepth == [e \in MCExpressions |->
    IF Parts(e) = {} THEN 0 ELSE IF \A p \in Parts(e) : Parts(p) = {} THEN 1 ELSE 2]
==============================================================================
