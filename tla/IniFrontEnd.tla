----------------------------- MODULE IniFrontEnd -----------------------------
(***************************************************************************)
(* generate_usbmon_config_from_field_map: reads the [OutputChannels] of    *)
(* the main INI file and of the custom ones, takes the definitions out of  *)
(* each, and resolves the channels of a field map one after the other.     *)
(*                                                                         *)
(* A line without directive holds a definition: [kind |-> "scalar", name,  *)
(* scale, translate, usable] or [kind |-> "calculated", name, expression], *)
(* where an expression is as in LinearExpressions, or a table              *)
(* [op |-> "table", name, file].  Lines without definition are left out.   *)
(***************************************************************************)
EXTENDS Preprocessor, ChannelResolution

CONSTANTS
    Inputs,     \* the sequences of sections, main first, that may be read
    FieldMap,   \* the LIVI fields, with the channel asked for or NoChannel
    Raws        \* raw values of a scalar

NoChannel == "no channel"

Definitions ==
    [kind : {"scalar"}, name : Channels, scale : Fraction, translate : Fraction, usable : BOOLEAN]
    \cup [kind : {"calculated"}, name : Channels, expression : Expressions]

Lines ==
    [directive : {"if"}, symbol : STRING] \cup [directive : {"else", "endif"}]
    \cup [directive : {"none"}, definition : Definitions]

ASSUME InputsAssumption == Inputs \subseteq Seq(Seq(Lines)) \ {<<>>}

ASSUME FieldMapAssumption ==
    FieldMap \in Seq([field : STRING, channel : Channels \cup {NoChannel}])

ASSUME ChannelsAssumption == IsFiniteSet(Channels) /\ NoChannel \notin Channels

ASSUME FilesAssumption == \A e \in Expressions : e.op = "table" => e.file # NoFile

ASSUME RawsAssumption == Raws \subseteq Int

VARIABLES
    sections,   \* the sections of the input
    at,         \* number of the section in the preprocessor
    entry,      \* number of the entry of FieldMap begun last
    fields,     \* fields: records [entry, config]
    warnings    \* warnings: the entries that could not be resolved

frontVars == <<sections, at, entry, fields, warnings>>
vars == <<preprocessorVars, definitionVars, resolutionVars, frontVars>>

Nothing == [c \in {} |-> None]

HoldsKind(l, kind) == l.directive = "none" /\ l.definition.kind = kind

\* The lines of some sections, as pairs of section and number, and the last of
\* some lines.
Positions(s) == UNION {{k} \X DOMAIN s[k] : k \in DOMAIN s}
DefinitionAt(s, p) == s[p[1]][p[2]].definition
IsLast(p, S) == \A q \in S : q[1] < p[1] \/ (q[1] = p[1] /\ q[2] <= p[2])
LastOf(S) == CHOOSE p \in S : IsLast(p, S)

\* scalar_by_name: from all lines, those that the preprocessor drops included.
\* The last definition of a name counts.
ScalarLines(s, c) ==
    {p \in Positions(s) : HoldsKind(s[p[1]][p[2]], "scalar") /\ DefinitionAt(s, p).name = c}
ScalarsOf(s) ==
    [c \in {d \in Channels : ScalarLines(s, d) # {}} |-> DefinitionAt(s, LastOf(ScalarLines(s, c)))]

\* A calculated channel as the code keeps it, or None if it has more than one
\* source or is not linear in it.
Parsed(e) ==
    IF e.op = "table"
    THEN [source |-> e.name, scale |-> Whole(1), translate |-> Whole(0), file |-> e.file]
    ELSE LET v == Linear[e] IN
         IF v.linear /\ Cardinality(DOMAIN v.coefficients) = 1
         THEN LET c == CHOOSE c \in DOMAIN v.coefficients : TRUE
              IN [source |-> c, scale |-> v.coefficients[c], translate |-> v.constant, file |-> NoFile]
         ELSE None

Counts(l) == HoldsKind(l, "calculated") /\ Parsed(l.definition.expression) # None

\* _parse_calculated_channels: from the lines that the preprocessor kept.
CalculatedLines(c) == {j \in output : Counts(text[j]) /\ text[j].definition.name = c}

Init ==
    /\ sections \in Inputs
    /\ at = 1
    /\ Begin(sections[1])
    /\ scalars = ScalarsOf(sections)
    /\ calculated = Nothing
    /\ entry = 0
    /\ channel = NoChannel
    /\ seen = {}
    /\ path = <<>>
    /\ resolved = None
    /\ fields = <<>>
    /\ warnings = {}

------------------------------------------------------------------------------
(* Reading *)

PreprocessLine ==
    /\ SelectLine
    /\ UNCHANGED <<definitionVars, resolutionVars, frontVars>>

\* A section is through: its calculated channels override those before.
SectionEnd ==
    /\ at <= Len(sections)
    /\ line > Len(text)
    /\ LET defined == {c \in Channels : CalculatedLines(c) # {}} IN
       calculated' = [c \in DOMAIN calculated \cup defined |->
                         IF c \in defined
                         THEN Parsed(text[Max(CalculatedLines(c))].definition.expression)
                         ELSE calculated[c]]
    /\ at' = at + 1
    /\ IF at < Len(sections) THEN BeginNext(sections[at + 1])
       ELSE UNCHANGED preprocessorVars
    /\ UNCHANGED <<scalars, resolutionVars, sections, entry, fields, warnings>>

AllRead == at > Len(sections)

------------------------------------------------------------------------------
(* The field map *)

Idle == AllRead /\ channel = NoChannel
Busy == AllRead /\ channel # NoChannel

SkipEntry ==
    /\ Idle
    /\ entry < Len(FieldMap)
    /\ FieldMap[entry + 1].channel = NoChannel
    /\ entry' = entry + 1
    /\ UNCHANGED <<preprocessorVars, definitionVars, resolutionVars, sections, at, fields, warnings>>

\* Fault: one set seen for all entries, as a default argument would be.
BeginEntrySharing ==
    /\ Idle
    /\ entry < Len(FieldMap)
    /\ FieldMap[entry + 1].channel # NoChannel
    /\ entry' = entry + 1
    /\ channel' = FieldMap[entry'].channel
    /\ resolved' = Pending
    /\ UNCHANGED <<preprocessorVars, definitionVars, seen, path, sections, at, fields, warnings>>

BeginEntry ==
    /\ Idle
    /\ entry < Len(FieldMap)
    /\ FieldMap[entry + 1].channel # NoChannel
    /\ entry' = entry + 1
    /\ BeginResolution(FieldMap[entry'].channel)
    /\ UNCHANGED <<preprocessorVars, definitionVars, sections, at, fields, warnings>>

ResolveEntry ==
    /\ Busy
    /\ Resolve
    /\ UNCHANGED <<preprocessorVars, frontVars>>

\* The outermost call has returned: a field, or a warning.
EndEntry ==
    /\ Busy
    /\ Resolved
    /\ channel' = NoChannel
    /\ LET config == FieldConfig(FieldMap[entry].field) IN
       IF config = None
       THEN warnings' = warnings \cup {entry} /\ UNCHANGED fields
       ELSE fields' = Append(fields, [entry |-> entry, config |-> config]) /\ UNCHANGED warnings
    /\ UNCHANGED <<preprocessorVars, definitionVars, seen, path, resolved, sections, at, entry>>

\* The configuration is generated.
Finished ==
    /\ Idle
    /\ entry = Len(FieldMap)
    /\ UNCHANGED vars

Next ==
    \/ PreprocessLine \/ SectionEnd
    \/ SkipEntry \/ BeginEntry \/ ResolveEntry \/ EndEntry
    \/ Finished

Spec == Init /\ [][Next]_vars

------------------------------------------------------------------------------
(* What the definitions mean, said without resolving them.                  *)

\* The lines that the conditionals select and that define c, among them those
\* that count, and of these the last.
LinesOf(s, c) ==
    {p \in Positions(s) :
        /\ HoldsKind(s[p[1]][p[2]], "calculated")
        /\ DefinitionAt(s, p).name = c
        /\ Selected(s[p[1]], p[2])}
DefinitionsOf(s, c) == {p \in LinesOf(s, c) : Parsed(DefinitionAt(s, p).expression) # None}
FormulasOf(s) ==
    [c \in {d \in Channels : DefinitionsOf(s, d) # {}} |->
        DefinitionAt(s, LastOf(DefinitionsOf(s, c))).expression]

\* What defines each channel; a scalar counts first.
Undefined == [kind |-> "none"]
Equations(dict, formulas) ==
    [c \in Channels |->
        IF c \in DOMAIN dict THEN dict[c]
        ELSE IF c \in DOMAIN formulas
        THEN [kind |-> "calculated", name |-> c, expression |-> formulas[c]]
        ELSE Undefined]

\* The value of a channel with definition d, in a set that is empty if it has
\* none, given such sets for the channels it is defined from.
Value(d, raw, values) ==
    CASE d.kind = "scalar" ->
            IF d.usable THEN {Plus(Times(Whole(raw), d.scale), d.translate)} ELSE {}
      [] d.kind = "calculated" ->
            LET e == d.expression IN
            IF e.op # "table" THEN ValueOf(e, values)
            ELSE {TableEntry(t, v) : t \in {ReadTable(e.file)} \ {<<>>}, v \in values[e.name]}
      [] OTHER -> {}

\* The values of all channels when every scalar has some raw value: at first
\* none is known, then the scalars, then what is defined from these, and so on,
\* as deep as definitions can refer to each other.
Rounds == Cardinality(Channels) + 1
Readings == [definitions : [Channels -> Definitions \cup {Undefined}], raw : Int]

Known[n \in 0..Rounds] ==
    [r \in Readings |->
        IF n = 0 THEN NoValues
        ELSE LET values == Known[n - 1][r]
             IN [c \in Channels |-> Value(r.definitions[c], r.raw, values)]]

Meaning(definitions, raw) == Known[Rounds][[definitions |-> definitions, raw |-> raw]]

\* A formula somewhere below c mentions a channel that cancels out, and may
\* have no value.
MentionsCancelled(formulas, c) ==
    \E p \in Chains(c) : \E i \in DOMAIN p :
        ~IsTable(p[i]) /\ Names[formulas[p[i]]] # {calculated[p[i]].source}

------------------------------------------------------------------------------
(* Properties *)

\* Of the calculated channels, exactly those count that the conditionals around
\* them select, in every nesting; a custom INI overrides the main one, and a
\* later line an earlier one.  A simple formula always counts.
LastSelectedDefinitionCounts ==
    AllRead =>
        LET formulas == FormulasOf(sections) IN
        /\ calculated = [c \in DOMAIN formulas |-> Parsed(formulas[c])]
        /\ \A c \in Channels : \A p \in LinesOf(sections, c) :
              Simple[DefinitionAt(sections, p).expression] => p \in DefinitionsOf(sections, c)

\* For every value the ECU may send, a generated field decodes to what the
\* expressions and tables between channel and scalar make of it, in whatever
\* order they were composed; except where a step would have to follow a lookup
\* or a transform (FormulaOverTable, FormulaUnderTransform).  Only if a formula
\* mentions a channel that cancels out may there be a field for a channel
\* without value.
FieldsDecodeRight ==
    \A i \in DOMAIN fields :
        LET c == FieldMap[fields[i].entry].channel
            config == fields[i].config
            formulas == FormulasOf(sections)
            definitions == Equations(scalars, formulas)
        IN \A raw \in Raws :
              LET values == Meaning(definitions, raw)[c] IN
              /\ values = {} => MentionsCancelled(formulas, c)
              /\ \/ \A v \in values :
                        Same(Decoded(config, raw), Transformed(config.transform, v))
                 \/ FormulaUnderTransform(config)
                 \/ FormulaOverTable(c)

\* A field is only given up when its channel has no value, because a definition
\* or a table is missing or definitions refer to each other, or when two tables
\* would have to be composed; whatever was resolved for the fields before it.
WarningsAreDue ==
    \A e \in warnings :
        LET c == FieldMap[e].channel
            definitions == Equations(scalars, FormulasOf(sections))
        IN \/ \A raw \in Raws : Meaning(definitions, raw)[c] = {}
           \/ TwoTables(c)

\* Definitions that refer to each other end the recursion: a channel is never
\* resolved inside its own resolution.
NoChannelTwice == \A i, j \in DOMAIN path : path[i] = path[j] => i = j
==============================================================================
