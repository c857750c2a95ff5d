-------------------------- MODULE MCPluginLifecycle --------------------------
(* Instances of PluginLifecycle for TLC. *)
EXTENDS PluginLifecycle

CONSTANTS s1, s2

MCServers == {s1, s2}

\* No property tells one server from the other.
ServerSymmetry == Permutations(MCServers)

MCSpellings ==
    [name \in {"Gear", "vehicleSpeed", "batteryVoltage"} |->
        CASE name = "Gear" -> "gear"
          [] name = "vehicleSpeed" -> "vehiclespeed"
          [] name = "batteryVoltage" -> "batteryvoltage"]

\* A name that needs its canonical form, levels in litres and in percent, a
\* flag, and a channel without a description or a rule.
MCChannelList == <<"Gear", "benzina", "fuel", "reverse", "knock">>
MCUndescribed == {"knock"}
MCLiterUnits == {"L"}
MCUnitsOf == [name \in {"Gear", "benzina", "fuel", "reverse", "knock"} |->
    CASE name = "benzina" -> "L" [] name = "fuel" -> "%" [] OTHER -> "unit"]

\* Gear R and what lies around 1 and 2; flags around a half.
MCRawsOf == [name \in {"Gear", "benzina", "fuel", "reverse", "knock"} |->
    CASE name = "Gear" -> {-4, 2, 3, 6, 9}
      [] name = "reverse" -> {1, 2}
      [] OTHER -> {80}]

\* Rows of livi-tunerstudio-field-map.tsv.
FieldMapRows == <<<<"gear", "gear">>, <<"reverse", "">>, <<"iatC", "iat">>,
                  <<"ambientC", "iat">>, <<"fuelPct", "benzina">>>>

\* Direct mode for everything, bridge mode (by an unknown word) for a few
\* channels, and direct mode with a field map.
MCSettings == {
    [mode |-> "livi", rows |-> <<>>, channels |-> {"*"}],
    [mode |-> "serial", rows |-> <<>>, channels |-> {"Gear", "reverse", "knock"}],
    [mode |-> "direct", rows |-> FieldMapRows, channels |-> {"benzina", "fuel"}] }
==============================================================================
