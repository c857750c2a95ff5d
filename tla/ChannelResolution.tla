-------------------------- MODULE ChannelResolution --------------------------
(***************************************************************************)
(* How a TunerStudio channel becomes a field of the usbmon configuration:  *)
(* _resolve_tunerstudio_channel follows calculated channels down to a      *)
(* scalar of the ECU's block and composes their formulas on the way back,  *)
(* and _field_config_for_tunerstudio_channel adds the scalar's own scale.  *)
(*                                                                         *)
(* Units only matter to the percentages of a fuel gauge, which is left     *)
(* out.                                                                    *)
(***************************************************************************)
EXTENDS LinearExpressions, Sequences, SequencesExt

CONSTANT Directories    \* lookup_dirs: functions from the files in them to their values

ASSUME DirectoriesAssumption ==
    /\ Directories \in Seq(Range(Directories))
    /\ \A d \in DOMAIN Directories : \A f \in DOMAIN Directories[d] :
          Directories[d][f] \in Seq(Int) /\ Directories[d][f] # <<>>

VARIABLES
    scalars,        \* scalar_by_name: records [scale, translate, usable]
    calculated,     \* calculated_by_name: records [source, scale, translate, file]
    channel,        \* channel_name of the innermost call
    seen,           \* seen
    path,           \* the calculated channels of the calls in progress
    resolved        \* what the last call returned

definitionVars == <<scalars, calculated>>
resolutionVars == <<channel, seen, path, resolved>>

None == [scalar |-> "none"]
Pending == [scalar |-> "pending"]
NoFile == "no file"

BeginResolution(c) ==
    /\ channel' = c
    /\ seen' = {}
    /\ path' = <<>>
    /\ resolved' = Pending

\* The channel is an output of the ECU.
FoundScalar ==
    /\ resolved = Pending
    /\ channel \notin seen
    /\ channel \in DOMAIN scalars
    /\ seen' = seen \cup {channel}
    /\ resolved' = [scalar |-> channel, scale |-> Whole(1), translate |-> Whole(0), file |-> NoFile]
    /\ UNCHANGED <<channel, path>>

\* Fault: the guard against definitions that refer to each other is left out.
DescendUnguarded ==
    /\ resolved = Pending
    /\ channel \notin DOMAIN scalars
    /\ channel \in DOMAIN calculated
    /\ seen' = seen \cup {channel}
    /\ path' = Append(path, channel)
    /\ channel' = calculated[channel].source
    /\ UNCHANGED resolved

\* The channel is calculated from another one, which is resolved first.
Descend ==
    /\ resolved = Pending
    /\ channel \notin seen
    /\ channel \notin DOMAIN scalars
    /\ channel \in DOMAIN calculated
    /\ seen' = seen \cup {channel}
    /\ path' = Append(path, channel)
    /\ channel' = calculated[channel].source
    /\ UNCHANGED resolved

\* The channel is already being resolved, or is not defined.
Fail ==
    /\ resolved = Pending
    /\ channel \in seen \/ channel \notin DOMAIN scalars \cup DOMAIN calculated
    /\ seen' = seen \cup {channel}
    /\ resolved' = None
    /\ UNCHANGED <<channel, path>>

\* Fault: the constant of the inner formula is not scaled by the outer one.
ComposedUnscaled(inner, outer) ==
    IF inner = None \/ (outer.file # NoFile /\ inner.file # NoFile) THEN None
    ELSE [scalar |-> inner.scalar,
          scale |-> Times(inner.scale, outer.scale),
          translate |-> Plus(inner.translate, outer.translate),
          file |-> IF outer.file # NoFile THEN outer.file ELSE inner.file]

\* A calculated channel on top of what its source resolved to.
Composed(inner, outer) ==
    IF inner = None \/ (outer.file # NoFile /\ inner.file # NoFile) THEN None
    ELSE [scalar |-> inner.scalar,
          scale |-> Times(inner.scale, outer.scale),
          translate |-> Plus(Times(inner.translate, outer.scale), outer.translate),
          file |-> IF outer.file # NoFile THEN outer.file ELSE inner.file]

\* A recursive call has returned to its caller.
Return ==
    /\ resolved # Pending
    /\ path # <<>>
    /\ channel' = Last(path)
    /\ path' = Front(path)
    /\ resolved' = Composed(resolved, calculated[Last(path)])
    /\ UNCHANGED seen

Resolve == (FoundScalar \/ Descend \/ Fail \/ Return) /\ UNCHANGED definitionVars

Resolved == resolved # Pending /\ path = <<>>

\* The values of a table, from the first directory that has the file; empty if
\* none has.
ReadTable(f) ==
    LET having == {d \in DOMAIN Directories : f \in DOMAIN Directories[d]}
    IN IF having = {} THEN <<>> ELSE Directories[Min(having)][f]

\* The transform of a LIVI field.
DefaultTransform(field) ==
    IF field \in {"gear", "turn"} THEN field
    ELSE IF field \in {"reverse", "lights", "highBeam", "hazards", "parkingBrake", "nightMode"} THEN "bool"
    ELSE "identity"

\* The entry of the configuration for a LIVI field, or None.
FieldConfig(field) ==
    LET s == scalars[resolved.scalar] IN
    IF resolved = None THEN None
    ELSE IF ~s.usable \/ (resolved.file # NoFile /\ ReadTable(resolved.file) = <<>>) THEN None
    ELSE [scalar |-> resolved.scalar,
          scale |-> Times(s.scale, resolved.scale),
          translate |-> Plus(Times(s.translate, resolved.scale), resolved.translate),
          lookup |-> IF resolved.file = NoFile THEN <<>> ELSE ReadTable(resolved.file),
          transform |-> DefaultTransform(field)]

------------------------------------------------------------------------------
(* What the configuration makes of a raw value: coerce_rule_value.  A gear   *)
(* or a turn signal is the number that stands for it.                        *)

Transformed(transform, v) ==
    CASE transform = "bool" -> IF 2 * v[1] >= v[2] THEN Whole(1) ELSE Whole(0)
      [] transform = "gear" -> Whole(Rounded(v))
      [] transform = "turn" -> IF Rounded(v) \in {1, 2} THEN Whole(Rounded(v)) ELSE Whole(0)
      [] OTHER -> v

\* The entry of a table that an index selects, the nearest if there is none.
TableEntry(values, v) ==
    LET index == Truncated(v) IN
    Whole(values[IF index < 0 THEN 1 ELSE IF index >= Len(values) THEN Len(values) ELSE index + 1])

Decoded(config, raw) ==
    LET linear == Plus(Times(Whole(raw), config.scale), config.translate) IN
    IF config.lookup # <<>> THEN TableEntry(config.lookup, linear)
    ELSE IF config.transform = "identity" THEN linear
    ELSE Transformed(config.transform, Whole(raw))

------------------------------------------------------------------------------
(* Channels whose fields do not decode to what they mean, because the        *)
(* configuration has no place for a step after a lookup or a transform.      *)

Identity(x) == Same(x.scale, Whole(1)) /\ IsZero(x.translate)

\* The calculated channels from c on down, as far as one likes: each is the
\* source of the one before.
Chains(c) ==
    LET Calculated == DOMAIN calculated \ DOMAIN scalars IN
    {p \in UNION {[1..n -> Calculated] : n \in 1..Cardinality(Channels)} :
        /\ p[1] = c
        /\ \A i \in 2..Len(p) : p[i] = calculated[p[i - 1]].source}

IsTable(c) == calculated[c].file # NoFile

\* A formula is applied to what a table yields: it ends up in front of the table.
FormulaOverTable(c) ==
    \E p \in Chains(c) : \E i \in DOMAIN p : \E j \in 1..(i - 1) :
        IsTable(p[i]) /\ ~IsTable(p[j]) /\ ~Identity(calculated[p[j]])

TwoTables(c) ==
    \E p \in Chains(c) : \E i \in DOMAIN p : \E j \in 1..(i - 1) : IsTable(p[i]) /\ IsTable(p[j])

\* A gear, turn signal or switch is taken from the raw value, without the
\* formula, or from the table, without the transform.
FormulaUnderTransform(config) ==
    config.transform # "identity" /\ (config.lookup # <<>> \/ ~Identity(config))
==============================================================================
