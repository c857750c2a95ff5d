# TLA+ models of the TunerStudio to LIVI telemetry bridges

The repository moves engine telemetry from TunerStudio (or TSDash, or the ECU
itself) to the LIVI dashboard.  This directory models it in TLA+: TLC checks small
instances, TLAPS proves some results for every value of the constants.  Paths
below are relative to the repository; `cli.py` and the other Python files are in
`linux-python-bridge/livi_bridge/`, the Java files in
`tunerstudio-plugin/src/io/fio/livi/tunerstudio/`.

## 1. The system

```
 TunerStudio --- plugin (Java) --- UDP datagrams ---> Bridge ------.
                      \                                             \
                       '--- direct mode: own Socket.IO client ------- > LIVI
 TSDash <-- serial --> ECU                                          /
               \--- usbmon ---> UsbMonBridge (passive) ------------'
 ECU <-- serial --> SerialBridge (active, single thread) ---------'
```

| Component | State | Operations | Works with |
|---|---|---|---|
| UDP bridge, `Bridge` (`cli.py`) | `pending`, `lock`, `stop_event`, sender thread | `run`, `stop`, `_send_loop`, `_flush` | mapper, emitter, signals |
| usbmon bridge, `UsbMonBridge` (`cli.py`) | the same, and a decoder | the same | `UsbMonReader`, decoder, emitter |
| Emitters (`emitter.py`) | the Socket.IO connection | `connect`, `emit`, `close` | python-socketio |
| Serial decoder, `TunerStudioSerialDecoder` (`usbmon_decoder.py`) | `block`, `valid_ranges`, `pending_segment`, `emitted_current_block` | `decode_usbmon_event`, `flush`, `decode_bytes` | usbmon bridge, serial bridge, replay tool |
| Fixed frame decoder (`usbmon_decoder.py`) | `buffer` | `decode_bytes` | usbmon bridge, replay tool |
| usbmon reader (`usbmon.py`) | file descriptor, device selection | `open`, `read_event`, `resolve_serial_usb_device` | kernel |
| Mapper, schema, defaults (`mapper.py`, `schema.py`, `defaults.py`) | the channel rules | `map_packet`, `merge_patch`, `coerce_rule_value` | bridges |
| Serial bridge (`cli.py`, `serial_reader.py`) | the port, a decoder | `run`, `read_once`, `transact` | ECU, emitter |
| Demo bridge (`demo.py`) | a clock | `run` | emitter |
| INI front end (`tunerstudio_ini.py`) | its dictionaries while it runs | `generate_usbmon_config_from_field_map`: preprocessing, expressions, channel resolution | configuration of the decoders |
| Java plugin (`LiviTelemetryPlugin.java`) | `publisher`, `outputChannelServer` | `initialize`, `close` | TunerStudio, publisher |
| Java publisher (`TelemetryPublisher.java`) | `pendingPayload`, `unitsByChannel`, `lock`, `timer`, or a UDP socket | constructor, `registerChannel`, `setCurrentOutputChannelValue`, `flushDirect`, `close` | plugin, callbacks, mapper, Socket.IO client |
| Java Socket.IO client (`SocketIoWebSocketClient.java`) | `socket`, `input`, `output`, `connected`, reader thread | `connect`, `emit`, `close`, `readLoop` | LIVI |
| Java mapper (`LiviTelemetryMapper.java`) | the rules | `map`, `loadTsv` | publisher |
| Java settings, JSON (`PluginSettings.java`, `JsonUtil.java`) | none | `load`, `shouldSubscribe` | plugin, publisher |
| Tools (`linux-python-bridge/tools`) | none | one-shot scripts | files |

### What is hard, and what makes each part correct

*Bridges.*  The main thread merges patches into `pending`, the sender takes it
away, both under `lock`, but the payload is emitted outside the lock and is a
*shallow* copy whose nested dictionaries (`gps`, `can`) `merge_patch` updates in
place.  At shutdown both threads run `_flush`, `join(timeout=2.0)` may give up, an
exception of `emit` kills the sender silently.  Correct means: no merged value is
lost or altered between merge and emit, none is shown after a newer one, a
shutdown hands over everything, a signal ends the process.

*Serial decoder.*  It reconstructs a memory block from commands and responses it
only overhears.  Responses can be missing, refused, cut, or arrive in pieces,
another page may be read in between, a frame may not decode; blocks of two poll
cycles must not be mixed.  Correct means: covered bytes are in their place, a
decoded frame is of one cycle, every complete cycle is decoded once and in order,
and after a fault this is true again from the next cycle on.

*Fixed frame decoder.*  Frames and sync patterns are split across the pieces of
the stream.  Correct means: the frames are those of the undivided stream.

*Serial bridge.*  Timeouts and late or partial responses on a port that is not
flushed afterwards.  Correct means: what a poll sends is a whole frame, of a poll
that is no older than the responses left over account for.  That cannot be had of
every poll: the properties name those of which it is not true.

*Java client and publisher.*  A timer thread, plugin callbacks, `close()` and one
reader thread per connection share fields, some outside the monitor.  Correct
means: one current socket, none leaked, the publisher keeps the promise of the
abstract feed.

*Java plugin.*  `initialize` and `close` come in any order and may fail at any
call, while callbacks already run.  Correct means: no publisher outlives its turn,
subscribed or connected, and LIVI is given the same readings whether the plugin or
the Linux console maps them.

*Pure parts.*  Coverage of ranges, channel resolution with its cycle guard,
expression and preprocessor evaluation, the rules of the two mappers.
Correct means: the answer of a reference definition.

`PROJECT.json` lists under `hazards` every place where one of these can go wrong,
with the line and the properties that look at it.

## 2. Modules

| Module | Models | Checked by | Proved in |
|---|---|---|---|
| `TelemetryFeed` | abstract: what every telemetry path promises to LIVI | as `FeedSpec` | refined in `UdpBridgeProofs`, `UsbMonBridgeProofs`, `PluginProofs` |
| `PendingTelemetry` | the pending telemetry and `merge_patch`, which the Java publisher repeats | through its users | `PendingTelemetryProofs` |
| `SendLoop` | the part of `Bridge` and `UsbMonBridge` that is the same code | through the bridges | `SendLoopProofs` |
| `UdpBridge` | `Bridge` | `udp_bridge` | `UdpBridgeProofs` |
| `UsbMonBridge` | `UsbMonBridge` | `usbmon_bridge` | `UsbMonBridgeProofs` |
| `Coverage` | when the fields of the frame are covered | through `TsDecoder`, `CoverageSweep` | |
| `TsDecoder` | `TunerStudioSerialDecoder` | through `UsbCapture` and `SerialBridge` | `DecoderProofs`, `SerialBridgeProofs` |
| `UsbCapture` | the decoder composed with host, ECU and usbmon | `usb_capture`, `truncated_response` | `DecoderProofs` |
| `FixedFrameDecoder` | `FixedFrameDecoder.decode_bytes` | `fixed_frames` | `DecoderProofs` |
| `CoverageSweep` | the loop of `_has_required_data` | `coverage_sweep` | `DecoderProofs` |
| `SerialBridge` | `SerialBridge`, its reader and port, composed with `TsDecoder` and the ECU | `serial_bridge` | `SerialBridgeProofs` |
| `DirectPublisher` | `TelemetryPublisher` in direct mode, and `closePublisher` | `direct_publisher` | `PluginProofs` |
| `ChannelMapping` | `LiviTelemetryMapper`, and `TelemetryMapper` with its default rules | through `PluginLifecycle` | |
| `PluginLifecycle` | `LiviTelemetryPlugin`, the constructor and the two modes of `TelemetryPublisher` | `plugin`, `plugin_field_map` | `PluginProofs` |
| `SocketIoClient` | `SocketIoWebSocketClient` | `socketio_client` | `PluginProofs` |
| `Preprocessor` | `_select_known_preprocessor_branches` | through `IniFrontEnd` | `IniProofs` |
| `LinearExpressions` | `_linear_from_ast`, and what expressions mean | through `IniFrontEnd` | `IniProofs` |
| `Fractions` | exact numbers in place of floats | through `IniFrontEnd` | `IniProofs` |
| `ChannelResolution` | `_resolve_tunerstudio_channel`, `_field_config_for_tunerstudio_channel`, `coerce_rule_value` | through `IniFrontEnd` | `IniProofs` |
| `IniFrontEnd` | `generate_usbmon_config_from_field_map` | `ini_front_end` | `IniProofs` |

`MC*.tla` instantiate the constants for TLC.  Operators whose comment begins with
"Fault" are deliberately wrong variants of the definition that follows them;
`PROJECT.json` lists under `mutants` which property each of them must break.  They
belong to no specification.

### PendingTelemetry, SendLoop, UdpBridge, UsbMonBridge

Each thread has a program counter `pc[t]`.  The steps are cut where the code takes
or leaves the lock, blocks, or touches state the other thread can see:

| Code | Actions |
|---|---|
| `emitter.connect()` | `Connect` (raises: `failed`) |
| `udp.bind`, `sender.start()` / resolve, `open`, `sender.start()` | `BindAndStart`, `BindFails` / `OpenAndStart`, `OpenFails` |
| `while not stop_event.is_set()` | `LoopTest` |
| `recvfrom` and `map_packet` / `read_event` and the decoder | `RecvNothing`, `RecvPacket` / `ReadNoFrame`, `ReadFrame`, `ReadFails` |
| `with lock: merge_patch` | `MergeHeld` (one step: nobody else can hold the lock) |
| `sender.join(timeout=2.0)` | `Join`, which may give up at any time |
| `decoder.flush()` and its merge | `Drain`, then `MergeHeld` |
| `_flush` | `FlushCopy` (takes the lock), `FlushClear` (leaves it), `FlushEmit` (no lock held) |
| `_send_loop` | `SendLoopTest`, `SendLoopWake` |
| `emitter.close()`, `main` returning | `Close`, `Exit` |
| signal handlers | `Signal`, at any moment |

Data.  The n-th merged patch carries the value n in each of its fields, so "older
value" is "smaller number".  Nested dictionaries are heap objects `dicts[k][r]`,
and `pending[k]`, `snap[t][k]` hold references `r`; that is what makes the sharing
of a shallow copy visible.  The number of references is the number of patches:
the reference of a dictionary is the number of the patch that created it.
`link` stands for what the emitter writes to, `kind` for which emitter was chosen:
`DryRunEmitter` writes to stdout, `SocketIoEmitter` to LIVI.  `latest`, `shown`,
`settled`, `raised` and `gaveUp` are history, read by no action of the code.
`settled` is the newest value that some `emit` was called with, `shown` the value
last given to LIVI.

The usbmon bridge sees its decoder only through outcomes: a record gives no frame,
or a frame (all the fields of the layout), or makes it raise; a pending segment
may be left at shutdown.  The decoder itself is `TsDecoder`.

### TsDecoder, UsbCapture

A byte is a record: its role in the response (`hi`, `lo`, `status`, `data`, `crc`,
or `zero` for a block byte never written), and for data the frame offset and the
poll cycle it comes from.  `_extract_response_data` compares bytes with numbers;
data and checksum bytes may have any value, so it becomes the *set* of results for
all their values (`ExtractResponseData`).  An action of the decoder takes any of
them.  `Command`, `DecodeRaises`, `ConsumeInput` and `FlushSegment` are
`decode_usbmon_event` for a read command, the same when `decode_frame_fields`
raises, `_consume_input` and `flush`.

`UsbCapture` adds the three parties the repository does not contain, as the decoder
and its tests expect them: TSDash polls with the reads of `Plan`, repeats a read or
starts over; the ECU answers or refuses; usbmon delivers the response in pieces of
any size.  `Faults` selects what goes wrong: a refused, lost ("silent") or cut
response, a read of another page, which the decoder takes for the realtime block, a
frame that does not decode.  `MaxFaults` bounds how often, so that undisturbed cycles
follow the disturbed ones.  History variables say what happened to each cycle:
`whole` (every response was captured), `disturbed` (a cut response or a foreign
page), `spoiled` (a frame that did not decode).

### FixedFrameDecoder

| Code | Actions |
|---|---|
| `self.buffer.extend(data)` | `Call` |
| `buffer.find(sync)` fails; what is kept of the buffer | `NoSync` |
| the pattern is found, the frame not complete | `Incomplete` |
| a frame is cut off and decoded; its decoding raises | `TakeFrame`; `FrameRaises` |

The buffer is a piece of the stream, from position `start` to `received`, since it
grows at its end and is cut at its beginning only; a frame is known by its position.
`FramesOfTheStream` compares with `IsDecoding`, which speaks of the stream and not
of calls.

### CoverageSweep

One action per outcome of an iteration over `sorted(valid_ranges)`.  `TsDecoder`
uses the answer in one step (`HasRequiredData`, in `Coverage`); `VerdictIsRight` says
the loop gives that answer.

### SerialBridge

The one thread of the serial bridge has a program counter `pc`; its steps are cut
where it waits for bytes, because bytes arrive and time runs out there.

| Code | Actions |
|---|---|
| `emitter.connect`, `reader.open` (which flushes the port) | `Connect`, `OpenPort` |
| loop test, `read_once` begins | `LoopEnd`, `BeginPoll` |
| `min(self.read_size, frame_length - offset)` | `Count` |
| `decode_usbmon_event` of the command, `_write_all` | `SendCommand`, `WriteFails` |
| `_read_exact` of 2 header bytes, the declared payload, 4 checksum bytes | `ReadHeader`, `ReadBody`, `ReadCrc`, `Timeout` |
| `response_status` | `CheckStatus` (raises: the poll is dropped) |
| `decoder.flush`, `merge_patch` | `FlushRead`, `FlushFails` |
| `emit`, `stop_event.wait`, `finally: emitter.close()` | `Emit`, `Wait`, `Close` |

The ECU puts what it answers into `coming`; `Arrive` moves the next bytes of it to the
input buffer `line`, in pieces and at any time, `begun` says that a part of the first
response has arrived.  `Timeout` needs only that the bytes wanted are not there,
whatever is still under way: `_read_exact` drops what it has read, and what arrives
afterwards is found by the next read, whichever that is.  The bytes of a response are those of
`TsDecoder`.  A header made of data or checksum bytes may declare any length
(`HeaderLengths`), zero included, and a status byte that is one of them may pass or
not.  `LineFaults` chooses what else goes wrong; `read_size` is chosen once, from
`ReadSizes`.  `Emit` sends or raises, whatever the reason.

What earlier polls have left to be read decides what a poll can rely on, so history
keeps it: `residue` is "none" from the first poll that begins with a quiet line, "whole"
when reads timed out before any byte of their response had arrived, "parts" when a
part of a response was left behind or lost; `overtaken` counts the polls that ended so.
A poll is *in step* (`InStep`) when nothing was left, or when whole responses were left
and one read is a whole poll; each then answers a poll.  A poll of several
reads behind a response left over is not: each of its reads is given the response to
another offset.  With the default of 121 bytes per read and the generated frame of 130
one late response is enough: the next poll places the response to offset 0 at offset
121, and the one after that leaves a gap in the block and ends without a frame
and without an exception.  Nor is a poll behind a part of a response, which it reads
as the header of another, since the checksum is read and never compared
(`serial_reader.py:128`).  The properties except these polls, and no others.
`sent` keeps, for each payload, the poll that sent it, `overtaken` and `residue`.

### DirectPublisher

| Code | Actions |
|---|---|
| `setCurrentOutputChannelValue`, the mapper | `Callback` |
| `synchronized (lock) { merge }` | `MapPending` |
| a run of the timer: `flushDirect` | `TimerFire`, `TimerCopy`, `TimerEmit` |
| `closePublisher`: unsubscribe; `timer.cancel`, `flushDirect`, `client.close` | `Unsubscribe`, `CancelTimer`, `CloseFlush`, `CloseEmit`, `CloseClient` |

The pending telemetry is `PendingTelemetry` again: the Java `merge` and the shallow
`LinkedHashMap` copy do what the Python code does.  The client is `client` ("open",
"closed") and `link`.  `emit` opens a closed client and raises when LIVI is down and it
has to connect; it does not return while LIVI takes no data ("stalled"), since Java
socket writes have no timeout.  A client that takes itself for connected may also write
to a connection that is lost: the system accepts the data, nothing is raised and the
payload is gone, whether LIVI is down or up again (`vanished`; `WritePayload` of
`SocketIoClient` is the same write).  One callback is in progress at a time, as
TunerStudio makes them.

### ChannelMapping, PluginLifecycle

| Code | Actions, operators |
|---|---|
| the default rules of the two mappers | `PluginDefaults`, `ConsoleDefaults` |
| `loadTsv`; the search for a rule | `WithRows`; `RuleFor` |
| `Rule.apply`; `coerce_rule_value` for a default rule | `PluginValue`; `ConsoleValue` |
| `initialize`, `close`, `closePublisher` | `Initialize`, `Close`, `UnsubscribeCurrent`, `ClosePublisher` |
| settings, ECU configuration and server | `Load` |
| `new TelemetryPublisher`, which may throw | `Construct` |
| `subscribeOutputChannels` | `ListChannels`, `Skip` (the settings leave the channel out), `Describe`, `Put`, `Subscribe`, `Streaming`; a `ControllerException` is `Raises` |
| `setCurrentOutputChannelValue`, `mapPending`, `sendBridgePacket` | `BeginCallback`, `Deliver` |
| a run of the timer that `close` did not wait for, which emits and so connects again | `StraySend` |

A publisher is a number; `resource[p]` is its connection or UDP socket, `units[p]`
its `unitsByChannel`, `subs` what TunerStudio was asked to call back.  TunerStudio
itself, one thread for `initialize` and `close` and another for the callbacks, is
modelled from its use here.  `unitsByChannel` is a `HashMap` without a lock: while
`put` is under way a callback may miss an entry that is there (`Lookup`).  Raw values
are counted in quarters, so that there are values at and around a half, where the two
languages round differently; a converted number is its raw value with the name of the
formula.  What becomes of a payload in direct mode is `DirectPublisher`.

### SocketIoClient

| Code | Actions |
|---|---|
| `emit`: the test of `connected` | `BeginEmit` |
| `connect`: `closeSocketOnly`; TCP; upgrade and handshakes | `ConnectCloses`; `ConnectOpens`, `ConnectRefused`; `Handshake`, `HandshakeFails` |
| `writeTextFrame` in `emit`; its catch clause | `WritePayload`, `WriteFails` (then `connect` again) |
| `close` | `CloseByCaller` |
| `readTextFrame` of a reader thread: the look at `input`; the frame | `Fetch`; `ReadMessage`, `ReadPing`, `ReadCloseFrame`, `ReadOpcode9` then `Answer` or `AnswerFails`, `ReadGarbled`, `ReadFails` |
| `synchronized (this)` in `readLoop` | `Pong`, `PongFails`, `Reset` |

Its definitions have names of their own (`ClientInit`, `clientVars` and so on), so that
one module can be about it and the plugin.  `place[t]` is where caller t stands,
`monitor` Java's monitor of the client: `emit` keeps it through a reconnection,
readers need it for `Pong` and `Reset` but not for `Fetch`, nor for the assignment
that a close frame causes.  The fields `input` and `output` hold the number of the
connection they belong to.  `Fetch` reads `input` without the monitor, so it may
get a value from before, or null.  A reader that reads the stream of another
connection takes bytes out of frames its owner reads; `ReadGarbled` is what a
wrong length then does to either of them.  `peer[c]` says what LIVI and the network
have made of connection c; `spurned` and `shared` are history.

### Preprocessor, LinearExpressions, ChannelResolution, IniFrontEnd

| Code | Actions, operators |
|---|---|
| one line of `_select_known_preprocessor_branches` | `SelectLine` (`IfLine`, `ElseLine`, `EndifLine`, `OtherLine`) |
| `calculated_by_name.update` after a section | `SectionEnd` |
| `_parse_linear_expression` and the test for one source | `Linear`, `Parsed` |
| the loop over the field map | `SkipEntry`, `BeginEntry`, `EndEntry` |
| `_resolve_tunerstudio_channel` | `FoundScalar`, `Descend`, `Fail`, `Return` |
| `_field_config_for_tunerstudio_channel` | `FieldConfig` |
| `_read_inc_table`: the first directory that has the file | `ReadTable` |
| `coerce_rule_value` | `Decoded` |

The recursion of `_resolve_tunerstudio_channel` is unrolled: `path` holds the calls
in progress, `channel` and `seen` the arguments of the innermost one, `resolved`
what the last call returned.  An expression is a tree, as Python's `ast` makes it;
a unary plus is left out.  `Expressions` are those that may occur, with all their parts,
and `Depth` says how deep each is nested; that is what `Linear`, `Names` and the others
recurse along, as functions and not as operators, so that they can be proved about.  Numbers are fractions, so a property is about the
formulas and not about the rounding of floats.  Lines are records: what the
properties tell apart is whether a line is a directive, a scalar or a calculated
channel, and not how it is spelled.

The properties do not repeat this resolution.  `Selected` says from the positions
of the directives alone which lines count (`FormulasOf` the formulas in them);
`Meaning` evaluates these expressions and tables for a raw value, as often as there
are channels (`Known`, round by round); and
`FieldsDecodeRight` compares that with what the generated entry decodes to.

### TelemetryFeed and the refinement

The abstract feed has only `latest`, `shown` and `orderly`: values are accepted,
LIVI is given accepted values, never an older one than before, until a shutdown
gives up waiting for the sender.  The bridges implement it under the mapping
`latest`, `shown` by name, `orderly <- ~gaveUp`, the Java publisher under
`orderly <- ~overlap`: checked as the property `FeedSpec`, and proved.

## 3. Runs

| Run | Question | Bounds |
|---|---|---|
| `udp_bridge` | can two threads, signals, a lost LIVI or a join that times out lose, alter, reorder or repeat telemetry; does a signal always end it, does merged telemetry always arrive | 3 patches, one scalar key, one nested key with two fields |
| `usbmon_bridge` | the same for frames, which must stay whole and be drained at shutdown, when the read of the device may block for ever | 3 frames, one scalar, one nested field |
| `usb_capture` | are frames whole, in place, in order and complete, with refused, lost, cut and repeated reads, reads of another page and undecodable frames, and again in the cycle after | block of 3 bytes, 2 reads (the second reaches beyond the block), 2 reads of another page, 3 cycles, 3 faults |
| `truncated_response` | (violation) does a packet have to be present to be accepted | the same, cut responses only |
| `fixed_frames` | are the frames found those of the undivided stream; how much is kept in the buffer | streams of 7 bits in any pieces; no pattern, patterns of 1, 2 (one that overlaps itself) and 3 bytes (longer than the frame) |
| `coverage_sweep` | is the sweep right for every set of ranges | block of 4, required 4 |
| `serial_bridge` | does every poll send a whole frame, how old may it be, does an answered poll have a frame, does a signal end the bridge, when responses come in parts, late, refused or not at all and frames do not decode | block of 3 bytes, read in one piece or in two, 3 polls; a response arrives whole or in pieces of 4 bytes; bytes that are no header declare 0 or 4 |
| `direct_publisher` | do callbacks, timer and close lose, alter or reorder telemetry; does it arrive, does `close()` return | 3 patches, one scalar key, one nested key with two fields |
| `socketio_client` | what becomes of connections and readers when emit, close, readers and failures interleave; is a connection that LIVI ended given up without an emit | 2 callers, 2 connections |
| `ini_front_end` | do the right definitions count, does each field decode to what its channel means, is a channel only given up with reason, does the recursion end | main sections of up to 5 directives and formulas or up to 3 definitions, 4 custom sections, every expression two operators deep over two channels, 0, 2 and what Python's parser accepts besides; raw values 0 to 3 |
| `plugin` | what stays subscribed and open when the plugin is initialised and closed again and again and anything fails; do units reach the mapper; do the two modes give the same readings | 2 publishers, 2 servers, 5 channels, 3 settings |
| `plugin_field_map` | (violation) does every row of a field map feed its field | the same |

Why these bounds are enough.  A payload can be copied, be overtaken and be flushed
again by the other thread with two values in flight; the third patch is the one
that meets the shared dictionary of the first two.  Two nested fields tell an
update in place from a replacement.  Two reads per cycle are the least with a
frame made of two responses; three cycles are the least where a mix of an old and
a new one could follow a good one, and where an undisturbed cycle follows two
disturbed ones.  Seven bytes hold two frames and what surrounds them, with a pattern
across any cut.  The sweep's behaviour depends only on the
order and overlap of ranges; in a block of 4 nested, adjacent, overlapping,
disjoint and equal-start ranges all occur.  Two connections are the least
where the reader of the first spoils the second; that the next `connect` then closes
the second is a step before a third is opened.  Longer chains are not in the run;
the proved properties cover them.  Five lines hold two nested
conditionals with an `#else`; two linear functions are equal on four values only if
they are the same, and the values reach below, into and beyond each table.  Three
polls let two late responses pile up before the third reads the first of them, and are
enough for the two traces above (a frame that is not whole, an answered poll without one):
without an exception for such polls the run finds both.  A response of the
run has 7 to 10 bytes, so a piece of 4 is the header and the beginning of the data and
leaves a rest that is neither empty nor a whole response; a header misread as 0
ends the poll, as 4 it waits for a body.  The second
publisher is the one that must not meet anything of the first; the channels of
`plugin` are a name with a second spelling, levels in litres and in percent, a flag
and one that no rule knows.  `MaxPatches`, `MaxPolls`, `MaxConnections`,
`Pieces`, `ArbitraryLengths`, `MaxCycles`, `MaxFaults`, `MaxStream` and `MaxPublishers` are the only
bounds that the code does not have.  `plugin` does not check for deadlock, because
with the last publisher used up the model stops where the code does not.

Fairness.  `UdpBridge`: weak fairness of each thread.  `recvfrom` has a 0.25 s
timeout, `join` 2 s, `sleep` ends, so a thread that can step does; nothing is
assumed of signals, datagrams or LIVI.  `UsbMonBridge`: the same except for the
`os.read` of the device, which waits for a record that may never come; `FairSpec`
leaves it out.  That is why the second bridge has only `StopEndsOrWaits`: a signal
ends the process, or the main thread stays in `os.read` for good.  `SerialBridge`:
weak fairness of the thread, whose every wait has a deadline, and no other: the ECU and
the line owe nothing.  `DirectPublisher`: the timer fires
until it is cancelled and `close()` goes on, both as long as LIVI does not stall.
`SocketIoClient`: a caller inside the monitor goes on, since connect and handshake
have timeouts and writes return while LIVI takes data; readers go on, and get the
monitor if it is free again and again (strong fairness of `Reset` and `Pong`), which
the flush timer ensures by its pauses.

### What the runs show

* Both bridges keep every merged value until it is handed over (`NoLostUpdate`),
  never alter a payload being emitted (`PayloadFrozen`: a merge after
  `pending.clear()` creates new nested dictionaries), and lose nothing at shutdown
  unless `join` gave up or `emit` raised (`ShutdownLosesNothing`).
* After a `join` that gave up, the sender may emit an old payload after the final
  one and after `close()`.  The properties say so: `ClosedIsSilent` and `orderly`
  end there.
* A payload whose `emit` raises is lost: it counts as settled, not as shown, and
  the sender is over.  The main thread goes on merging until it is stopped.
* The decoder never mixes cycles.  With cut responses, or a read of another page, it
  decodes wrong bytes in that cycle (the first is a finding below), but the next
  undisturbed cycle is decoded right and once, and nothing of the disturbed one is
  left in it (`CoveredBytesInPlace`, `FramesAreWhole`, `WholeCyclesAreDecoded`).  A
  frame that does not decode costs the frame and the response to the command that
  completed it.
* The fixed frame decoder finds the frames of the stream however it is cut.  When a
  frame raises, the frames before it in the same call are lost with it, and the rest
  of the buffer waits for the next call.  With a pattern of one byte the buffer is
  never trimmed while the pattern does not come: `BufferStaysSmall` excepts it.
* The serial bridge sends whole frames as long as nothing of an earlier response is
  left to be read.  After a timeout whose response still comes, and with one read per
  poll, every poll sends the frame of the poll before (`SentIsWholeAndRecent`): the
  port is not flushed, and the delay grows by one with each such timeout.  With several
  reads per poll, the default, the polls after it may send frames that are not whole, or
  none without an exception, and so may those behind a part of a response.  Either is
  over with the first poll that begins with a quiet line.  Whatever is misread as a
  header, `stop` ends the process (`StopEndsProcess`).
* A `close()` of the plugin that overlaps a run of the flush timer can leave the
  Socket.IO client connected again, and emit an older payload last; the properties
  `ClosedStaysClosed`, `CloseLosesNothing` and `FeedSpec` hold for every other
  `close()`.  A payload whose `emit` fails is lost, as in the bridges; so is one
  written to a lost connection, and of that nobody in the plugin learns: that LIVI
  shows what was merged, at `close()` (`CloseLosesNothing`) or later
  (`MergedIsShown`), holds with that exception.
* The Java client never leaks a connection, and every reader of a replaced
  connection wakes.  But a reader that needs the monitor during a reconnection gets
  it afterwards and then resets `connected` of the new, working connection, so that
  the next `emit` replaces that one too, and its reader may do the same again; or it
  goes on to read from the new connection, beside its owner.
  `ReplacedOnlyWhenSpurned` says that there is no other reason for replacing a
  working connection, `ConnectedIsWatched` that a client that thinks it is connected
  has its reader, except when two readers share a stream.
* Whatever fails in `initialize`, only the current publisher is ever subscribed, and
  only it holds a connection or socket, with two exceptions: a constructor that
  throws after opening one, and a `close()` that overlapped a run of the timer
  (`OnlyCurrentLives`).
* Units are registered before a channel is subscribed, so only a look at the map
  while another channel is put into it can miss them (`UnitsReachTheMapper`).
* Direct and bridge mode give LIVI the same readings except where the programs
  differ: `batteryVoltage` and `benzina` are known to the plugin only, only the plugin
  turns litres into percent, a gear halfway above an even one is rounded up by Java
  and to the even one by Python; and gear numbers are integers in one mode, texts in the
  other (`ModesAgree`).
* Every generated field decodes to what its channel means, for chains in any order
  of scalars, formulas and one table, with two exceptions.  A formula applied to a
  channel that comes out of a table is multiplied into the *index* of the table
  (`FormulaOverTable`).  Gear, turn signal and switches take the raw value or the
  table entry: `coerce_rule_value` applies a formula only without a transform, and a
  transform only without a table (`FormulaUnderTransform`).  No document says what
  such channels yield, so they are excluded and listed as a hazard.
* A formula with one channel that is added to, multiplied with or divided by
  numbers other than 0 always counts; one that loses its channel (`x - x`) does
  not, and then an earlier definition of the name is used.  Scalars count even
  inside a branch that `#if` drops, since only calculated channels go through the
  preprocessor.
* Each field is resolved with a `seen` of its own, so what failed for one field
  does not spoil the next (`WarningsAreDue`).

### Findings

`usbmon_decoder.py` says of `_extract_response_data` that the packet is accepted
"once the declared payload is present".  When the response is cut short the code
falls through to the fallback for raw data, which takes the length prefix (without
its first, zero, byte), the status and whatever follows for frame bytes.  The run
`truncated_response` shows a block filled that way.

The plugin keeps one rule per channel, so of two rows of a field map with the same
channel the last one wins.  `livi-tunerstudio-field-map.tsv`, which the plugin's
properties file offers as its field map, has two rows for `iat`: with it, direct mode sends
the intake air temperature as `ambientC` and never as `iatC`.  The run
`plugin_field_map` shows it.

## 4. Proofs

`UsbMonBridgeProofs` proves of the usbmon bridge what `UdpBridgeProofs` proves of the
UDP bridge, and that frames are shown whole.  Each theorem holds for every value of
the constants and every number of steps.

Assumptions: those named in the modules (`KeysAssumption`: no key is both scalar
and nested; the bounds are natural numbers; read sizes are positive; ranges are pairs of naturals;
`CallersAssumption`: the value for a free monitor is no caller; `PlanAssumption`: a
cycle has reads, the first at offset 0, and no other begins there, since that offset
is what tells the decoder of a new cycle; `ChannelListAssumption`: the channels
TunerStudio lists have units; `SpellingsAssumption`: a canonical name is its own
canonical name; `LiterUnitsAssumption`: a channel without units is not in litres).
Two theorems have a hypothesis of their own.
That of `CaptureWholeCyclesDecoded` is `PlanCoversFields`: TSDash's reads reach every
field of the layout.  Where they do not, no cycle can be decoded.  That of
`SerialAnsweredHasFrame` is `RequiredLength \in 1..FrameLength`: the layout has
fields, and all of them lie within the block, which is what the bridge reads.  Those of the INI
modules say what the data are: known symbols have a value (`SymbolsAssumption`), inputs
are sections of lines, the main one at least (`InputsAssumption`), expressions are nested
to a finite depth, as Python's parser makes them, and contain channels and numbers
(`ExpressionsAssumption`), there are finitely many channels (`ChannelsAssumption`), the
entries of the field map ask for a channel or for none (`FieldMapAssumption`), tables are
not empty and hold integers (`DirectoriesAssumption`), a table has a file
(`FilesAssumption`), and raw values are integers (`RawsAssumption`).

* `UdpTypeCorrect`, `UdpNoLostUpdate`, `UdpPayloadFrozen` (`UdpBridgeProofs`).  The
  inductive invariant `LoopInv` (`SendLoopProofs`) adds to the type invariant: the
  thread at `clear` holds the lock, and holds it only there; what it copied is
  still what is pending; no value is newer than `latest`; and the heart of the
  argument, payloads at `emit` share no nested dictionary with `pending`.  Without
  the last part `PayloadFrozen` is not inductive, and without it the value that
  `NoLostUpdate` finds in a payload could be overwritten.  Each step that the two
  bridges share is a lemma; `UdpBridgeProofs` adds `BridgeInv` (only the main thread
  merges, and with room for its patch) and one case per action.
* `UsbTypeCorrect`, `UsbNoLostUpdate`, `UsbPayloadFrozen` (`UsbMonBridgeProofs`), the
  same way, with `MonitorInv`, whose addition is that the main thread holds a whole
  frame wherever it merges.  `UsbFramesStayWhole` from `WholeInv`: all fields of the
  layout have one value in `pending`, in each payload inside `_flush`, and in what
  LIVI was shown.  A merge gives all of them the new value at once and, by the
  isolation of payloads, changes none that is being emitted.  The run
  `usbmon_bridge` leaves the first three to these proofs.
* `UdpShutdownLosesNothing`, `UdpImplementsFeed`, `UsbShutdownLosesNothing`,
  `UsbImplementsFeed`.  What was emitted last has to be the newest, which
  `NoLostUpdate` does not say: two threads carry payloads.  `OrderInv`
  (`SendLoopProofs`) adds that, unless `join` gave up, the sender is over before the
  main thread flushes; that no payload inside `_flush` is older than what was emitted, and
  what is pending is the newest; and that LIVI was shown what was emitted unless
  an `emit` raised.  Then nothing is left in a payload or pending at the end, and
  `NoLostUpdate` says where the newest values must be.  For the usbmon bridge
  `Drained` adds that the decoder's last segment was merged before.  For the
  refinement every step is mapped: a merge is the abstract acceptance, an `emit` that
  succeeds shows values that, by `OrderInv`, are never older; every other step is a stutter.
* `UdpClosedIsSilent`: only the last step of the main thread closes the emitter, and
  by `OrderInv` the sender is over by then unless `join` gave up.
* `PublisherTypeCorrect`, `PublisherNoLostUpdate`, `PublisherPayloadFrozen`,
  `PublisherStaysClosed`, `PublisherLosesNothing`, `PublisherImplementsFeed`
  (`PluginProofs`).  `PublisherInv` adds to the type invariant: room for
  the patch a callback holds, payloads in `flushDirect` that share no nested map with the pending one, and nothing newer than `latest`.
  `TimerSilenced` is what makes the fourth inductive: after `timer.cancel` no run of
  the timer begins, and none is in progress unless `close` overlapped it.  The last
  two rest on an `OrderInv` of the same parts as that of the bridges, with
  `TimerSilenced` in the place of the join; that LIVI was shown what was emitted is then
  bound to `~failed /\ ~vanished`.
* `PluginTypeCorrect`, `PluginOnlyCurrentLives`, `PluginUnitsReachTheMapper`
  (`PluginProofs`), for any channels, settings, servers and number of publishers.
  `LifeInv` adds to the type invariant what the thread may rely on where it stands
  (`StagesInv`: between unsubscribing and the first subscription there is none), that
  of the selected channels already looked at none is missing from the subscriptions
  (`SubscriptionsInv`, whose end is the second conjunct of `OnlyCurrentLives`), and
  that a publisher not yet made holds nothing (`ResourcesInv`).  `UnitsInv` says that
  the units a publisher has of a channel are the right ones or none yet, and the right ones
  from the moment before the channel is subscribed.
* `PluginModesAgree` (`PluginProofs`), for any spellings, channels, units and values.
  `ReadingInv` says that the last reading is what the mapper of its publisher's mode
  makes of the value with the units of its channel or none, and that the publisher was
  constructed, so that its settings do not change any more.  The rest is about
  operators.  A channel that shares no canonical name with those only the plugin
  knows has the same rule in both programs (`CommonRule`), and one rule makes the same
  of a value but for litres and halves (`SameValue`), since no default rule rounds
  anything but gears.
* `CaptureTypeCorrect`, `CaptureBytesInPlace`, `CaptureFramesWhole`,
  `CaptureFramesInOrder`, `CaptureWholeCyclesDecoded` (`DecoderProofs`), for every
  length of block, plan of reads, number and kind of faults, and way in which the
  responses are cut into pieces.  None of the properties is inductive: they speak of the block
  and the frames, and these depend on bytes still in the segment and on the wire.
  `CaptureInv` ties the four together.  `WireInv` is the core: in a cycle without a cut
  response or a read of another page, what the segment holds followed by what is on the wire is
  one whole response to the read in progress, a refusal or nothing.  From that a lemma
  per result of `_extract_response_data` (`AnswerExtract`, `RefusalExtract`, and
  `ExtractIsPart` for what is cut: it yields only bytes of this cycle) gives
  `FinalizationSound`, which says of the block and ranges after a finalized segment
  what `BlockInv` and `RangesInv` say before it.  `WholeInv` adds that every
  response captured in the cycle is in the block or in the segment.
* `SerialTypeCorrect`, `SerialSentWholeAndRecent`, `SerialAnsweredHasFrame`
  (`SerialBridgeProofs`), for every length of block, read size, number of polls,
  way in which responses arrive and choice of faults.  The last two say nothing of polls
  that are not in step, as the properties say.  `SerialInv` has one part per thing a
  poll relies on.  `StageInv` says how far the poll and `transact` have got, in step or
  not; everything else is bound to what earlier polls have left.
  `HeaderInv`: in step, the header is that of a response.  While nothing was left,
  `OnTimeInv`: no byte is on the line when a request is
  written, and while its response is read, what was read, what is in the input buffer
  and what is under way are, in this order, the beginning of one response to it.
  While whole responses to whole polls were left (`Queued`), `LateInv`: what was read,
  the input buffer and the rest of a response that is just arriving are a queue of
  *whole* responses, one for each of the polls `here`, and one for each of the polls
  `there` is still to come, in the order of the polls; `InTurn` bounds how
  late each of them is by `overtaken`.  A queue is defined without recursion, as a member
  of every relation that contains the empty queue and is closed under adding a
  response (`IsQueue`); its lemmas take the first response off and add one at the end.
  A timeout keeps the queue only when none of its responses was broken off; the proof
  (`NothingWaits`) is that with a whole response on the line no read runs dry.
  `TakenInv` says which response the poll is taking, `SegmentInv` and `FilledInv` what
  of it is in the decoder's segment and block, `PendingInv` and `SentInv` that the frame
  to emit and those emitted are whole, of the polls that `InTurn` allows, and in order.
  `SentIsWholeAndRecent` is the last part; without the queue nothing says which
  poll the next response on the line answers.
* `FixedTypeCorrect`, `DecodingIsIndependentOfPieces`, `BufferBounded`
  (`DecoderProofs`).  `FixedInv` says of the frames cut so far that each is the
  first at or after the end of the one before (`Greedy`), and that between the last
  of them and the buffer no pattern begins, *not even one whose end has not arrived*:
  that is what the `len(sync) - 1` bytes are kept for, and what makes it inductive.
* The lemmas about a merge that all three publishers of telemetry rest on are in
  `PendingTelemetryProofs`: a merge gives exactly the fields of the patch the new
  value, keeps the others, and changes no payload that shares no dictionary.
* `SweepTypeCorrect`, `SweepCorrect` (`DecoderProofs`).  `SweepInv`: every
  position below `covered` lies in a range, and every range already passed ends at
  or before `covered`.  If the next range in order starts later, no range contains
  position `covered`.  This holds for every block length and set of ranges.
* `ClientTypeCorrect`, `ClientLeaksNoConnection`, `ClientLeavesNoReader`,
  `ClientIsWatched`, `ClientReplacesWithReason` (`PluginProofs`).
  `ClientInv` adds that only the holder of the monitor is inside a method, that `socket`, `input` and `output` belong to
  one connection that is not closed, that between `closeSocketOnly` and the new
  socket there is none and `connected` is false, and that live readers read
  connections that exist.  The first part is what lets the steps of a caller be
  proved apart from those of the others.  The exclusion of shared streams in
  `ConnectedIsWatched` is needed because a garbled frame can end the
  thread of the owner while `connected` stays true.  `ReplaceInv` gives the reasons
  for which a connection is given up: the reader of the current connection reads from
  no other, it goes to reset `connected` only if the connection is lost or shared, and
  a client with a connection that once worked is unconnected only if that is so, or a
  reader of an earlier one reset it.

* `LastSelectedDefinition` (`IniProofs`), for every input: any number of sections and
  lines, conditionals nested in any way, any formulas.  `StackInv` says what the stack
  is: there is a sequence of the lines whose `#if` is open, the frame of each says
  whether the lines around it are selected and whether its other branch would be, and the
  level of each line (`Level`, which counts directives and knows no stack) is its place
  from the top.  With it the line in hand is kept exactly when `Selected` says so
  (`OutputInv`), and `CalculatedInv` says of each calculated channel that it is the last of its
  definitions in the sections that are through.  That a simple formula always counts is
  an induction over expressions: one without channels that has a value is read as that constant
  (`ConstantValue`), so a simple one keeps its channel with a coefficient other than 0
  (`SimpleIsOneTerm`).
* `ResolutionEnds` and `WarningsDue`.  The calls in progress are the beginning of a
  `Walk`: channels without repetition, each calculated from the next, at most as many as
  there are channels.  `Outcome` says what a call that returned nothing means: two
  tables on the walk, or a channel that is `Doomed`, a member of a set of channels each of which
  is barren (undefined, not usable, or from a table that is not there) or calculated from
  another one in the set.  A circle of definitions is such a set.  `DoomedNoValue` shows, round
  by round of `Known`, that no channel of such a set has a value; it needs that an
  expression has no value when its source has none (`ValueStrict`).
* `FieldsDecode`.  `DecodeInv` says that what the last call returned is `Right` for its
  channel: for every raw value, what the scalar, the scale, the translation and the
  table found so far make of it is the value the channel has by the definitions, and
  it has one.  A call that returns adds one definition of the walk to this, a formula
  (`FormulaValue`) or a table.  `FieldsInv` says the same of the fields generated so
  far.  The core is `LinearEvaluates`, by induction over expressions: the value of an
  expression is that of the linear form it was read as.  That is a sum over the channels,
  which is defined without recursion over sets, as the last of the partial sums along a
  numbering of the channels (`Evaluates`).  Fractions are compared by `Same`, since
  one number has several.  The exceptions of the property appear as channels on the
  walk: a formula over a table, and a definition that cancels its channel.

Induction over data.  The library's induction theorems take an operator as a
parameter, which none of the installed provers can instantiate.  `IniProofs` states induction with
sets instead: `ExpressionInduction` says that a set of expressions that contains every
expression whose parts it contains is the set of all, and follows from the library's `WFMin`.
`Recursion` says in the same way that a function defined by recursion along a rank exists.

Only model-checked: liveness (`StopEndsProcess`, `StopEndsOrWaits`, `MergedIsShown`,
`CloseReturns`, `EndedIsGivenUp`), since the prover handles neither fairness nor ENABLED.
Every invariant and every action property of a passing run is stated by a theorem.

The type invariants of the bridges, the sweep, the capture, the client, the publisher,
the plugin, the serial bridge and the fixed frame decoder are proved and therefore in
no run.

## 5. Not modelled

* python-socketio: `emit` is accepted or raises; its own queue and reconnection are
  reduced to `link`.
* The record layout of usbmon, JSON parsing, the limits of `coerce_rule_value`, the
  arithmetic of unit conversions (their formulas are the same in both programs), URL
  normalisation, option parsing: data or pure input checking.
* Mapping rules from a configuration file of the Linux console: the field map of the plugin
  is modelled, and the rules that the INI front end generates.
* The text of INI lines (comments, lists, the syntax of expressions), the
  percentages of a fuel gauge, and `generate_usbmon_config_from_ini`, which walks the
  scalars instead of a field map.  (It computes the scale of a formula and then does
  not put it into the entry.)
* The demo bridge: one thread, no shared state, trigonometric sample values.
* The one-shot tools, and `decode_bytes` of the serial decoder, which only the replay
  tool calls.
* The panel and the search for the properties file of the plugin, the parsing of its
  numbers, the writing of JSON.
* The Windows serial port, the search for a serial port.
* The bytes of WebSocket frames; TLS is the same to the model as plain TCP.
* The packet's own `ts`: the bridges ignore it and merge in the order of arrival.

## 6. Plan

Done, in this order: the bridges, the serial decoder with its capture, the sweep, the
publisher, the Socket.IO client, the serial bridge, the INI front end, the fixed frame
decoder, the plugin; the proofs of the bridges and the publisher up to the refinement
of the abstract feed, of the client, the capture, the plugin, the serial bridge and the
INI front end.

Left: pure operators checked against reference definitions (comment and list
splitting, the limits of `coerce_rule_value`, `generate_usbmon_config_from_ini`).
