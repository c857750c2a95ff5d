---------------------------- MODULE ChannelMapping ----------------------------
(***************************************************************************)
(* What LIVI is given for a value of a TunerStudio channel, by either of   *)
(* the two ways it takes: LiviTelemetryMapper in the plugin (direct mode), *)
(* or TelemetryMapper in the Linux console, which the plugin sends raw     *)
(* values to (bridge mode), with its default rules.                        *)
(*                                                                         *)
(* Raw values are counted in quarters, so that there are values below, at  *)
(* and above a half.  A converted number is the raw value with the name of *)
(* its conversion, whose formula is the same in both programs.  Spellings  *)
(* gives the canonical form (lower case, letters and digits only) of the   *)
(* names that have another one.                                            *)
(***************************************************************************)
EXTENDS Integers, Sequences, SequencesExt

CONSTANTS
    Spellings,      \* name -> canonical name, where they differ
    LiterUnits      \* the units that isLiterUnit accepts

\* A canonical form is its own.
ASSUME SpellingsAssumption == \A name \in DOMAIN Spellings : Spellings[name] \notin DOMAIN Spellings

Canonical(name) == IF name \in DOMAIN Spellings THEN Spellings[name] ELSE name

------------------------------------------------------------------------------
(* The rules: functions from names to records [field, transform]. *)

Flags == {"reverse", "lights", "highBeam", "hazards", "parkingBrake", "nightMode"}

DefaultTransform(field) ==
    CASE field \in {"gear", "turn"} -> field
      [] field \in Flags -> "bool"
      [] OTHER -> "identity"

Plain(field) == [field |-> field, transform |-> DefaultTransform(field)]

\* rules.put for the name and for its canonical form
Add(rules, name, rule) == (name :> rule) @@ (Canonical(name) :> rule) @@ rules

\* The default channels of both programs, by the field they feed.
PlainChannels == {
    <<"rpm", {"rpm", "engine", "enginespeed"}>>,
    <<"speedKph", {"vss", "speed", "vehicleSpeed"}>>,
    <<"gear", {"gear"}>>,
    <<"reverse", {"reverse"}>>,
    <<"coolantC", {"coolant", "clt", "coolantc"}>>,
    <<"oilC", {"oiltemp", "oiltempc"}>>,
    <<"transmissionC", {"transmissiontemp", "transmissiontempc"}>>,
    <<"iatC", {"iat", "mat", "airtemp"}>>,
    <<"ambientC", {"ambient", "ambientc"}>>,
    <<"batteryV", {"batteryv", "batt", "battery"}>>,
    <<"mapKpa", {"map", "mapkpa"}>>,
    <<"baroKpa", {"baro", "barokpa"}>>,
    <<"boostKpa", {"boost", "boostkpa"}>>,
    <<"lambda", {"lambda"}>>,
    <<"afr", {"afr"}>>,
    <<"fuelPct", {"fuel", "fuellevel", "fuelpct"}>>,
    <<"rangeKm", {"range", "rangekm"}>>,
    <<"fuelRateLph", {"fuelrate", "fuelratelph"}>>,
    <<"odometerKm", {"odometer", "odometerkm"}>>,
    <<"odometerTripKm", {"trip", "tripkm"}>>,
    <<"ambientLux", {"ambientlux"}>>,
    <<"nightMode", {"nightmode"}>>,
    <<"gps.lat", {"gpslat", "latitude"}>>,
    <<"gps.lng", {"gpslng", "gpslon", "longitude"}>>,
    <<"gps.alt", {"gpsalt"}>>,
    <<"gps.heading", {"gpsheading"}>>,
    <<"gps.speedMs", {"gpsspeed", "gpsspeedms"}>>,
    <<"gps.accuracyM", {"gpsaccuracy"}>>,
    <<"gps.satellites", {"gpssatellites"}>> }

ConvertedChannels == {
    <<"speedmph", "speedKph", "mph_to_kph">>,
    <<"coolantf", "coolantC", "f_to_c">>,
    <<"oiltempf", "oilC", "f_to_c">>,
    <<"mappsi", "mapKpa", "psi_to_kpa">>,
    <<"boostpsi", "boostKpa", "psi_to_kpa">>,
    <<"gpsspeedkph", "gps.speedMs", "kph_to_ms">> }

\* The plugin knows two more.
PluginChannels == {<<"batteryV", {"batteryVoltage"}>>, <<"fuelPct", {"benzina"}>>}

Entries(plain) ==
    (UNION {{<<name, Plain(row[1])>> : name \in row[2]} : row \in plain})
    \cup {<<row[1], [field |-> row[2], transform |-> row[3]]>> : row \in ConvertedChannels}

\* The rules that adding the entries in any order gives: no two of them have a
\* canonical name in common.
RuleOf(entries) == (CHOOSE e \in entries : TRUE)[2]

RulesOf(entries) ==
    [name \in {e[1] : e \in entries} \cup {Canonical(e[1]) : e \in entries} |->
        RuleOf({e \in entries : name \in {e[1], Canonical(e[1])}})]

PluginDefaults == RulesOf(Entries(PlainChannels \cup PluginChannels))
ConsoleDefaults == RulesOf(Entries(PlainChannels))

\* loadTsv: rows <<livi_field, tunerstudio_field>>, skipped when one is empty.
WithRows(rules, rows) ==
    FoldLeft(LAMBDA rs, row : IF row[1] = "" \/ row[2] = "" THEN rs
                                                          ELSE Add(rs, row[2], Plain(row[1])),
             rules, rows)

\* The rule for a channel, by its exact name and then by its canonical one.
NoRule == [field |-> "none", transform |-> "none"]

RuleFor(rules, name) ==
    CASE name \in DOMAIN rules -> rules[name]
      [] name \notin DOMAIN rules /\ Canonical(name) \in DOMAIN rules -> rules[Canonical(name)]
      [] OTHER -> NoRule

------------------------------------------------------------------------------
(* Values: <<"number", raw, conversion>>, <<"integer", n>>, <<"text", n>> (the *)
(* digits of n), <<"word", w>> and <<"flag", b>>.                              *)

NoValue == <<"none">>

\* Fault: (int) value, without Math.round.
CutOff(raw) == IF raw >= 0 THEN raw \div 4 ELSE -((-raw) \div 4)

\* Math.round: halves go up.
RoundHalfUp(raw) == (raw + 2) \div 4

\* Python's round(): halves go to the even neighbour.
IsHalfOverEven(raw) == raw % 4 = 2 /\ (raw \div 4) % 2 = 0
RoundHalfEven(raw) == IF IsHalfOverEven(raw) THEN raw \div 4 ELSE (raw + 2) \div 4

Gear(n, number) ==
    CASE n = -1 -> <<"word", "R">>
      [] n = 0 -> <<"word", "N">>
      [] OTHER -> number

Turn(n) ==
    CASE n = 1 -> <<"word", "left">>
      [] n = 2 -> <<"word", "right">>
      [] OTHER -> <<"word", "none">>

\* Rule.apply.  A level in litres becomes a percentage of the tank.
PluginValue(rule, raw, units) ==
    CASE rule.transform = "gear" -> Gear(RoundHalfUp(raw), <<"integer", RoundHalfUp(raw)>>)
      [] rule.transform = "turn" -> Turn(RoundHalfUp(raw))
      [] rule.transform = "bool" -> <<"flag", raw >= 2>>
      [] OTHER -> IF rule.field = "fuelPct" /\ units \in LiterUnits
                  THEN <<"number", raw, "percent of the tank">>
                  ELSE <<"number", raw, rule.transform>>

\* coerce_rule_value, for a rule with a field and a transform only.
ConsoleValue(rule, raw) ==
    CASE rule.transform = "gear" -> Gear(RoundHalfEven(raw), <<"text", RoundHalfEven(raw)>>)
      [] rule.transform = "turn" -> Turn(RoundHalfEven(raw))
      [] rule.transform = "bool" -> <<"flag", raw >= 2>>
      [] OTHER -> <<"number", raw, rule.transform>>

\* LiviTelemetryMapper.map and TelemetryMapper.map_packet: a patch of one field.
PluginReading(rules, name, raw, units) ==
    LET rule == RuleFor(rules, name) IN
    [field |-> rule.field,
     value |-> IF rule = NoRule THEN NoValue ELSE PluginValue(rule, raw, units)]

ConsoleReading(name, raw) ==
    LET rule == RuleFor(ConsoleDefaults, name) IN
    [field |-> rule.field,
     value |-> IF rule = NoRule THEN NoValue ELSE ConsoleValue(rule, raw)]
==============================================================================
