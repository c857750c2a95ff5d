--------------------------- MODULE PluginLifecycle ---------------------------
(***************************************************************************)
(* LiviTelemetryPlugin: TunerStudio calls initialize and close in any      *)
(* order, on one thread, and calls the subscribed publishers back with     *)
(* channel values on another, also while initialize is still subscribing.  *)
(*                                                                         *)
(* A publisher holds a resource from its constructor to its close(): the   *)
(* Socket.IO client in direct mode, a UDP socket in bridge mode.  The      *)
(* pending payload and the timer of direct mode are in DirectPublisher;    *)
(* here they only show in a run of the timer that close() does not wait    *)
(* for and that may connect the client again.                              *)
(***************************************************************************)
EXTENDS ChannelMapping, FiniteSets

CONSTANTS
    Servers,        \* output channel servers of TunerStudio
    ChannelList,    \* the names getOutputChannels lists
    UnitsOf,        \* name -> units
    Undescribed,    \* names that getOutputChannel has no description of
    RawsOf,         \* name -> the raw values that are passed to callbacks
    AllSettings,    \* what load() may find: records [mode, rows, channels]
    MaxPublishers   \* bound on the number of publishers constructed

ASSUME MaxPublishersAssumption == MaxPublishers \in Nat
ASSUME ChannelListAssumption == ChannelList \in Seq(DOMAIN UnitsOf)

VARIABLES
    pc,         \* where the thread that runs initialize and close stands
    closing,    \* "load" or "idle": what follows closePublisher
    settings,   \* the last loaded settings
    server,     \* outputChannelServer
    publisher,  \* publisher, as a number; 0 is null
    made,       \* number of constructor calls
    opened,     \* opened[p]: the settings publisher p was constructed with
    resource,   \* resource[p]: "none", "open" or "closed"
    units,      \* units[p]: unitsByChannel of publisher p
    subs,       \* the subscriptions <<server, name, publisher>>
    left,       \* the channelNames that subscribeOutputChannels has still to look at
    call,       \* a callback between its look at unitsByChannel and its end
    \* history
    streaming,  \* the last initialize() came to its end
    threw,      \* publishers whose constructor threw
    overlapped, \* publishers closed in the middle of a run of their timer
    reading     \* what the last callback came to

threadVars == <<pc, closing, settings, left, streaming>>
publisherVars == <<server, publisher, made, opened, resource, units, subs, threw, overlapped>>
callVars == <<call, reading>>
pluginVars == <<threadVars, publisherVars, callVars>>

Names == {ChannelList[i] : i \in DOMAIN ChannelList}
Publishers == 1..MaxPublishers
NoServer == "no server"
NoUnits == "null"

\* isLiterUnit(null) is false.
ASSUME LiterUnitsAssumption == NoUnits \notin LiterUnits

NoCall == [pub |-> 0]
NoSettings == [mode |-> "none", rows |-> <<>>, channels |-> {}]
Everything == {"*"}

\* The two modes; any other word is taken for "bridge".
IsDirect(s) == s.mode \in {"direct", "livi"}
ShouldSubscribe(s, name) == s.channels = Everything \/ name \in s.channels
Rules(s) == WithRows(PluginDefaults, s.rows)

PluginInit ==
    /\ pc = "idle"
    /\ closing = "idle"
    /\ settings = NoSettings
    /\ server = NoServer
    /\ publisher = 0
    /\ made = 0
    /\ opened = [p \in Publishers |-> NoSettings]
    /\ resource = [p \in Publishers |-> "none"]
    /\ units = [p \in Publishers |-> [name \in Names |-> NoUnits]]
    /\ subs = {}
    /\ left = <<>>
    /\ call = NoCall
    /\ streaming = FALSE
    /\ threw = {}
    /\ overlapped = {}
    /\ reading = NoCall

Goto(from, to) ==
    /\ pc = from
    /\ pc' = to

------------------------------------------------------------------------------
(* initialize and close, which begin with closePublisher *)

\* Fault: the new server is asked for before the old publisher is closed.
InitializeHasty ==
    /\ Goto("idle", "unsubscribe")
    /\ closing' = "load"
    /\ server' \in Servers
    /\ UNCHANGED <<settings, left, streaming, publisher, made, opened, resource, units, subs,
                   threw, overlapped, callVars>>

Initialize ==
    /\ Goto("idle", "unsubscribe")
    /\ closing' = "load"
    /\ UNCHANGED <<settings, left, streaming, publisherVars, callVars>>

Close ==
    /\ Goto("idle", "unsubscribe")
    /\ closing' = "idle"
    /\ UNCHANGED <<settings, left, streaming, publisherVars, callVars>>

\* A callback that is under way is not waited for.
UnsubscribeCurrent ==
    /\ Goto("unsubscribe", "close")
    /\ subs' = {s \in subs : s[1] # server \/ s[3] # publisher}
    /\ streaming' = FALSE
    /\ UNCHANGED <<closing, settings, left, server, publisher, made, opened, resource, units,
                   threw, overlapped, callVars>>

\* publisher.close().  In direct mode a run of the timer may go on.
ClosePublisher ==
    /\ Goto("close", closing)
    /\ publisher' = 0
    /\ \/ /\ publisher = 0
          /\ UNCHANGED <<resource, overlapped>>
       \/ /\ publisher # 0
          /\ resource' = [resource EXCEPT ![publisher] = "closed"]
          /\ \/ UNCHANGED overlapped
             \/ /\ IsDirect(opened[publisher])
                /\ overlapped' = overlapped \cup {publisher}
    /\ UNCHANGED <<closing, settings, left, streaming, server, made, opened, units, subs, threw, callVars>>

\* The timer run that was under way emits: the client connects again.
StraySend(p) ==
    /\ p \in overlapped
    /\ resource[p] = "closed"
    /\ resource' = [resource EXCEPT ![p] = "open"]
    /\ UNCHANGED <<threadVars, server, publisher, made, opened, units, subs, threw, overlapped, callVars>>

------------------------------------------------------------------------------
(* initialize, after closePublisher *)

\* PluginSettings.load, then the ECU configuration and its server; there may be
\* no configuration, or asking for it raises.
Load ==
    /\ settings' \in AllSettings
    /\ \/ /\ Goto("load", "construct")
          /\ server' \in Servers
       \/ /\ Goto("load", "idle")
          /\ UNCHANGED server
    /\ UNCHANGED <<closing, left, streaming, publisher, made, opened, resource, units, subs, threw,
                   overlapped, callVars>>

\* new TelemetryPublisher.  It may throw before it opened a connection or a
\* socket, or after: when the handshake fails, or udpHost is not resolved.
Construct ==
    /\ made < MaxPublishers
    /\ made' = made + 1
    /\ opened' = [opened EXCEPT ![made'] = settings]
    /\ \/ /\ Goto("construct", "list")
          /\ publisher' = made'
          /\ resource' = [resource EXCEPT ![made'] = "open"]
          /\ UNCHANGED threw
       \/ /\ Goto("construct", "idle")
          /\ threw' = threw \cup {made'}
          /\ resource' \in {resource, [resource EXCEPT ![made'] = "open"]}
          /\ UNCHANGED publisher
    /\ UNCHANGED <<closing, settings, left, streaming, server, units, subs, overlapped, callVars>>

\* A ControllerException ends initialize() and leaves everything as it is.
Raises(from) ==
    /\ Goto(from, "idle")
    /\ UNCHANGED <<closing, settings, left, streaming, publisherVars, callVars>>

\* getOutputChannels
ListChannels ==
    /\ Goto("list", "describe")
    /\ left' = ChannelList
    /\ UNCHANGED <<closing, settings, streaming, publisherVars, callVars>>

\* continue: the settings do not select the channel.
Skip ==
    /\ left # <<>>
    /\ ~ShouldSubscribe(settings, Head(left))
    /\ Goto("describe", "describe")
    /\ left' = Tail(left)
    /\ UNCHANGED <<closing, settings, streaming, publisherVars, callVars>>

\* Fault: the channel is subscribed before its units are registered.
DescribeLate ==
    /\ left # <<>>
    /\ ShouldSubscribe(settings, Head(left))
    /\ Goto("describe", "put")
    /\ subs' = subs \cup {<<server, Head(left), publisher>>}
    /\ UNCHANGED <<closing, settings, left, streaming, server, publisher, made, opened, resource,
                   units, threw, overlapped, callVars>>

\* getOutputChannel; registerChannel puts the units unless there is none.
Describe ==
    /\ left # <<>>
    /\ ShouldSubscribe(settings, Head(left))
    /\ Goto("describe", IF Head(left) \in Undescribed THEN "subscribe" ELSE "put")
    /\ UNCHANGED <<closing, settings, left, streaming, publisherVars, callVars>>

\* unitsByChannel.put ends.
Put ==
    /\ Goto("put", "subscribe")
    /\ units' = [units EXCEPT ![publisher][Head(left)] = UnitsOf[Head(left)]]
    /\ UNCHANGED <<closing, settings, left, streaming, server, publisher, made, opened, resource,
                   subs, threw, overlapped, callVars>>

Subscribe ==
    /\ Goto("subscribe", "describe")
    /\ subs' = subs \cup {<<server, Head(left), publisher>>}
    /\ left' = Tail(left)
    /\ UNCHANGED <<closing, settings, streaming, server, publisher, made, opened, resource, units,
                   threw, overlapped, callVars>>

Streaming ==
    /\ left = <<>>
    /\ Goto("describe", "idle")
    /\ streaming' = TRUE
    /\ UNCHANGED <<closing, settings, left, publisherVars, callVars>>

------------------------------------------------------------------------------
(* setCurrentOutputChannelValue *)

\* unitsByChannel.get.  The map is a HashMap without a lock: while a put by the
\* other thread moves its entries, an entry that is there may not be found.
Lookup(p, name) ==
    {units[p][name]} \cup (IF pc = "put" /\ p = publisher THEN {NoUnits} ELSE {})

\* A finite value of a subscribed channel (any other value is dropped).
BeginCallback ==
    /\ call = NoCall
    /\ \E s \in subs : \E raw \in RawsOf[s[2]], u \in Lookup(s[3], s[2]) :
         call' = [pub |-> s[3], name |-> s[2], raw |-> raw, units |-> u,
                  raced |-> pc = "put"]
    /\ reading' = NoCall
    /\ UNCHANGED <<threadVars, publisherVars>>

\* The call came to this patch of one field.
CameTo(patch) ==
    reading' = [pub |-> call.pub, name |-> call.name, raw |-> call.raw, units |-> call.units,
                raced |-> call.raced, field |-> patch.field, value |-> patch.value]

\* In direct mode the value is mapped and merged.  In bridge mode it is sent,
\* which a closed socket refuses, and mapped by the Linux console.
Deliver ==
    /\ call # NoCall
    /\ call' = NoCall
    /\ LET s == opened[call.pub] IN
       \/ /\ IsDirect(s)
          /\ CameTo(PluginReading(Rules(s), call.name, call.raw, call.units))
       \/ /\ ~IsDirect(s)
          /\ resource[call.pub] = "open"
          /\ CameTo(ConsoleReading(call.name, call.raw))
       \/ /\ ~IsDirect(s)
          /\ UNCHANGED reading
    /\ UNCHANGED <<threadVars, publisherVars>>

PluginThread ==
    \/ Initialize \/ Close \/ UnsubscribeCurrent \/ ClosePublisher \/ Load \/ Construct
    \/ Raises("list") \/ ListChannels \/ Skip
    \/ Raises("describe") \/ Describe \/ Put
    \/ Raises("subscribe") \/ Subscribe \/ Streaming

CallbackThread == BeginCallback \/ Deliver

PluginNext == PluginThread \/ CallbackThread \/ (\E p \in Publishers : StraySend(p))

PluginSpec == PluginInit /\ [][PluginNext]_pluginVars

------------------------------------------------------------------------------
(* Properties *)

\* Every variable has its type.
PluginTypeOK ==
    /\ pc \in {"idle", "unsubscribe", "close", "load", "construct", "list", "describe", "put",
               "subscribe"}
    /\ closing \in {"load", "idle"}
    /\ settings \in AllSettings \cup {NoSettings}
    /\ server \in Servers \cup {NoServer}
    /\ publisher \in 0..made
    /\ made \in 0..MaxPublishers
    /\ opened \in [Publishers -> AllSettings \cup {NoSettings}]
    /\ resource \in [Publishers -> {"none", "open", "closed"}]
    /\ units \in [Publishers -> [Names -> {NoUnits} \cup {UnitsOf[name] : name \in Names}]]
    /\ subs \in SUBSET (Servers \X Names \X Publishers)
    /\ left \in Seq(Names)
    /\ streaming \in BOOLEAN
    /\ threw \subseteq Publishers
    /\ overlapped \subseteq Publishers

Selected == {name \in Names : ShouldSubscribe(settings, name)}

\* However often the plugin is initialised and closed and wherever that fails,
\* only the current publisher is subscribed, on any server TunerStudio ever
\* offered, and to every selected channel once initialize() came to its end;
\* and only it holds a connection or a socket, except for a constructor that
\* threw after opening one and a close() that overlapped a timer run.
OnlyCurrentLives ==
    /\ \A s \in subs : s[3] = publisher
    /\ streaming => subs = {<<server, name, publisher>> : name \in Selected}
    /\ \A p \in Publishers : resource[p] = "open" =>
         p = publisher \/ p \in threw \/ p \in overlapped

TrueUnits(name) == IF name \in Undescribed THEN NoUnits ELSE UnitsOf[name]

\* A value is never mapped without its units because it came before they were
\* registered: a level in litres would be shown as a percentage.  Only a look at
\* the map while another channel is put into it may miss them.
UnitsReachTheMapper ==
    reading # NoCall /\ ~reading.raced => reading.units = TrueUnits(reading.name)

\* The numbers of gears are integers in direct mode and texts in bridge mode.
AsText(value) == IF value[1] = "integer" THEN <<"text", value[2]>> ELSE value

\* Where the two modes are known to differ: channels that only the plugin has
\* rules for, levels in litres, which only the plugin converts, and
\* gears halfway above an even one, which only Python rounds down.
KnownToDiffer(r) ==
    \/ \E row \in PluginChannels : \E n \in row[2] : Canonical(r.name) = Canonical(n)
    \/ r.field = "fuelPct" /\ TrueUnits(r.name) \in LiterUnits
    \/ r.field = "gear" /\ IsHalfOverEven(r.raw)

\* What LIVI is given for a channel value does not depend on the mode of the
\* plugin, when neither has been given rules of its own: the two mappers, in two
\* languages, agree but where they are known not to.
ModesAgree ==
    reading # NoCall /\ opened[reading.pub].rows = <<>> /\ ~KnownToDiffer(reading) =>
        LET direct == PluginReading(PluginDefaults, reading.name, reading.raw, TrueUnits(reading.name))
            bridged == ConsoleReading(reading.name, reading.raw)
        IN
        /\ reading.field = direct.field /\ direct.field = bridged.field
        /\ AsText(direct.value) = bridged.value
        /\ AsText(reading.value) = bridged.value

\* Every row of a field map that names a channel feeds the field it names.
EveryRowFeedsItsField ==
    publisher # 0 /\ IsDirect(opened[publisher]) =>
        \A i \in DOMAIN opened[publisher].rows :
            LET row == opened[publisher].rows[i] IN
            row[2] # "" => RuleFor(Rules(opened[publisher]), row[2]).field = row[1]
==============================================================================
