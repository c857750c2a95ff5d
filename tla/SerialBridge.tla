----------------------------- MODULE SerialBridge -----------------------------
(***************************************************************************)
(* SerialBridge with ActiveTunerStudioSerialReader and PosixSerialPort:    *)
(* one thread polls the ECU with reads of readSize bytes, gives commands   *)
(* and responses to the serial decoder and emits the frame of the poll.    *)
(* A read that times out ends the poll; the port is not flushed then, so   *)
(* what the ECU still sends is found by the next read, whichever read that *)
(* is: a response does not name the command it answers, and its checksum   *)
(* is read, not checked.                                                   *)
(*                                                                         *)
(* A response arrives in pieces, at any time, before or after the deadline *)
(* of the read that asked for it.  LineFaults chooses what else the ECU    *)
(* and the line may do: "refused" (an error status), "silent" (no          *)
(* response, or the request is not written), "cut" (the rest of a response *)
(* is lost) and "undecodable" frames.                                      *)
(***************************************************************************)
EXTENDS TsDecoder

CONSTANTS
    ReadSizes,          \* what read_size may be
    LineFaults,
    Pieces,             \* bound: sizes of the pieces of a response but the last
    ArbitraryLengths,   \* bound: the lengths that arbitrary bytes declare
    MaxPolls            \* bound on the number of polls

ASSUME ReadSizesAssumption == ReadSizes \subseteq Nat \ {0}
ASSUME LineFaultsAssumption == LineFaults \subseteq {"refused", "silent", "cut", "undecodable"}
ASSUME PollsAssumption == Pieces \subseteq Nat \ {0} /\ ArbitraryLengths \subseteq Nat /\ MaxPolls \in Nat

VARIABLES
    readSize,   \* self.read_size
    pc,
    offset,     \* of the read in progress
    want,       \* how many bytes _read_exact waits for
    response,   \* what transact has read
    line,       \* bytes in the input buffer of the port
    coming,     \* responses the ECU has still to send
    begun,      \* of the first of them a part has been sent
    pending,    \* index in frames of the frame to emit, 0 for an empty payload
    emitter,    \* "new", "open", "closed"
    stop,       \* stop_event
    running,    \* the process exists
    \* history
    poll,       \* number of the current poll
    overtaken,  \* polls that ended with a response still to be read, since nothing was
    residue,    \* what polls have left to be read since: "none", "whole", "parts"
    sent        \* the payloads emitted: records [frame, poll, overtaken, residue]

portVars == <<want, response, line, coming, begun>>
bridgeVars == <<offset, pending, emitter, stop, running>>
pollVars == <<poll, overtaken, residue, sent>>
serialVars == <<decoderVars, portVars, bridgeVars, pollVars, readSize, pc>>

SerialInit ==
    /\ DecoderInit
    /\ readSize \in ReadSizes
    /\ pc = "connect"
    /\ offset = 0
    /\ want = 0
    /\ response = <<>>
    /\ line = <<>>
    /\ coming = <<>>
    /\ begun = FALSE
    /\ pending = 0
    /\ emitter = "new"
    /\ stop = FALSE
    /\ running = TRUE
    /\ poll = 0
    /\ overtaken = 0
    /\ residue = "none"
    /\ sent = <<>>

\* One step of the thread; the reader keeps its read_size.
Goto(from, to) ==
    /\ running
    /\ pc = from
    /\ pc' = to
    /\ UNCHANGED readSize

\* The locals of read_once and of transact are gone.
PollOver ==
    /\ offset' = 0
    /\ pending' = 0
    /\ want' = 0
    /\ response' = <<>>

\* An exception that run() catches around read_once: the payload is dropped.
DropPoll(from) ==
    /\ Goto(from, "wait")
    /\ PollOver

------------------------------------------------------------------------------
(* run() *)

\* emitter.connect(), outside the try statement.
Connect ==
    /\ \/ /\ Goto("connect", "open")
          /\ emitter' = "open"
       \/ /\ Goto("connect", "failed")
          /\ UNCHANGED emitter
    /\ UNCHANGED <<decoderVars, portVars, offset, pending, stop, running, pollVars>>

\* self.reader.open(): flushes the port, or raises.
OpenPort ==
    /\ \/ Goto("open", "test")
       \/ Goto("open", "close")
    /\ line' = <<>>
    /\ UNCHANGED <<decoderVars, want, response, coming, begun, bridgeVars, pollVars>>

LoopEnd ==
    /\ stop
    /\ Goto("test", "close")
    /\ UNCHANGED <<decoderVars, portVars, bridgeVars, pollVars>>

\* Nothing of an earlier read is there or to come.
LineIsQuiet == line = <<>> /\ coming = <<>>

\* read_once begins.
BeginPoll ==
    /\ ~stop
    /\ poll < MaxPolls
    /\ Goto("test", "command")
    /\ poll' = poll + 1
    /\ overtaken' = IF LineIsQuiet THEN 0 ELSE overtaken
    /\ residue' = IF LineIsQuiet THEN "none" ELSE residue
    /\ UNCHANGED <<decoderVars, portVars, bridgeVars, sent>>

\* emitter.emit may raise: the finally clause closes the emitter, run() ends.
Emit ==
    /\ \/ /\ pending = 0
          /\ Goto("emit", "wait")
          /\ UNCHANGED sent
       \/ /\ pending # 0
          /\ Goto("emit", "wait")
          /\ sent' = Append(sent, [frame |-> pending, poll |-> poll,
                                    overtaken |-> overtaken, residue |-> residue])
       \/ /\ pending # 0
          /\ Goto("emit", "close")
          /\ UNCHANGED sent
    /\ PollOver
    /\ UNCHANGED <<decoderVars, line, coming, begun, emitter, stop, running, poll, overtaken, residue>>

\* stop_event.wait(delay)
Wait ==
    /\ Goto("wait", "test")
    /\ UNCHANGED <<decoderVars, portVars, bridgeVars, pollVars>>

Close ==
    /\ Goto("close", "done")
    /\ emitter' = "closed"
    /\ UNCHANGED <<decoderVars, portVars, offset, pending, stop, running, pollVars>>

Exit ==
    /\ running
    /\ pc \in {"done", "failed"}
    /\ running' = FALSE
    /\ UNCHANGED <<decoderVars, portVars, offset, pending, emitter, stop, pollVars, readSize, pc>>

------------------------------------------------------------------------------
(* read_once, with transact *)

\* The length of this read: min(read_size, frame_length - offset)
Count == Smaller(readSize, FrameLength - offset)

\* What the ECU does with a request.
Reactions ==
    {<<Answer(offset, Count, poll)>>}
    \cup (IF "refused" \in LineFaults THEN {<<Refusal>>} ELSE {})
    \cup (IF "silent" \in LineFaults THEN {<<>>} ELSE {})

\* The decoder is told of the command, transact writes it.
SendCommand ==
    /\ Goto("command", "header")
    /\ Command(offset, Count)
    /\ want' = 2
    /\ response' = <<>>
    /\ \E r \in Reactions : coming' = coming \o r
    /\ UNCHANGED <<line, begun, bridgeVars, pollVars>>

\* The same when _write_all times out: the ECU does not get the request.
WriteFails ==
    /\ "silent" \in LineFaults
    /\ DropPoll("command")
    /\ Command(offset, Count)
    /\ overtaken' = IF LineIsQuiet THEN overtaken ELSE overtaken + 1
    /\ UNCHANGED <<line, coming, begun, emitter, stop, running, poll, residue, sent>>

\* _read_exact(want) returns.
Wanted == SubSeq(line, 1, want)
TakeWanted ==
    /\ Len(line) >= want
    /\ line' = SubSeq(line, want + 1, Len(line))

\* What two bytes of the line may declare.
HeaderLengths(h) ==
    IF IsKnown(h[1]) /\ IsKnown(h[2]) THEN {256 * h[1].at + h[2].at} ELSE ArbitraryLengths

\* The header; a declared length of zero counts as a timeout.
ReadHeader ==
    /\ pc = "header"
    /\ TakeWanted
    /\ \E n \in HeaderLengths(Wanted) :
         \/ /\ n > 0
            /\ Goto("header", "body")
            /\ want' = n
            /\ response' = Wanted
            /\ UNCHANGED <<offset, pending>>
         \/ /\ n = 0
            /\ DropPoll("header")
    /\ UNCHANGED <<decoderVars, coming, begun, emitter, stop, running, pollVars>>

ReadBody ==
    /\ Goto("body", "crc")
    /\ TakeWanted
    /\ response' = response \o Wanted
    /\ want' = 4
    /\ UNCHANGED <<decoderVars, coming, begun, bridgeVars, pollVars>>

\* Fault: the checksum is left in the input buffer.
ReadNoCrc ==
    /\ Goto("crc", "answer")
    /\ UNCHANGED <<decoderVars, portVars, bridgeVars, pollVars>>

ReadCrc ==
    /\ Goto("crc", "answer")
    /\ TakeWanted
    /\ response' = response \o Wanted
    /\ UNCHANGED <<decoderVars, want, coming, begun, bridgeVars, pollVars>>

\* What a read leaves to later ones when it times out: the response to it, or
\* the rest of one, where it is still to come.
LeaveRest ==
    \/ /\ coming = <<>>
       /\ UNCHANGED <<overtaken, residue>>
    \/ /\ coming # <<>>
       /\ overtaken' = overtaken + 1
       /\ residue' = IF begun \/ residue = "parts" THEN "parts" ELSE "whole"

\* Fault: on a timeout the poll goes on with the next read.
TimeoutGoesOn ==
    /\ Len(line) < want
    /\ running
    /\ pc \in {"header", "body", "crc"}
    /\ offset' = offset + readSize
    /\ pc' = IF offset' < FrameLength THEN "command" ELSE "emit"
    /\ line' = <<>>
    /\ LeaveRest
    /\ UNCHANGED <<decoderVars, want, response, coming, begun, pending, emitter, stop, running, poll, sent, readSize>>

\* Fault: the deadline is only looked at after a read.
TimeoutAfterBytes ==
    /\ 0 < Len(line) /\ Len(line) < want
    /\ \E from \in {"header", "body", "crc"} : DropPoll(from)
    /\ line' = <<>>
    /\ LeaveRest
    /\ UNCHANGED <<decoderVars, coming, begun, emitter, stop, running, poll, sent>>

\* _read_exact times out: the bytes it has read are dropped, those that are under
\* way are not.
Timeout ==
    /\ Len(line) < want
    /\ \E from \in {"header", "body", "crc"} : DropPoll(from)
    /\ line' = <<>>
    /\ LeaveRest
    /\ UNCHANGED <<decoderVars, coming, begun, emitter, stop, running, poll, sent>>

\* response_status of the packet.
CheckStatus ==
    /\ pc = "answer"
    /\ \E zero \in ZeroTests(response[3]) :
         \/ /\ zero
            /\ Goto("answer", "flush")
            /\ ConsumeInput(response)
            /\ UNCHANGED <<want, response, offset, pending>>
         \/ /\ ~zero
            /\ DropPoll("answer")
            /\ UNCHANGED decoderVars
    /\ UNCHANGED <<line, coming, begun, emitter, stop, running, pollVars>>

\* Fault: a frame is taken for granted after every read.
FlushReadBlind ==
    /\ offset' = offset + readSize
    /\ Goto("flush", IF offset' < FrameLength THEN "command" ELSE "emit")
    /\ FlushSegment
    /\ pending' = Len(frames) + 1
    /\ UNCHANGED <<portVars, emitter, stop, running, pollVars>>

\* decoder.flush(), merge_patch for the frame it returns, next read.
FlushRead ==
    /\ offset' = offset + readSize
    /\ Goto("flush", IF offset' < FrameLength THEN "command" ELSE "emit")
    /\ FlushSegment
    /\ pending' = IF frames' # frames THEN Len(frames') ELSE pending
    /\ UNCHANGED <<portVars, emitter, stop, running, pollVars>>

FlushFails ==
    /\ "undecodable" \in LineFaults
    /\ DropPoll("flush")
    /\ DecodeRaises
    /\ UNCHANGED <<line, coming, begun, emitter, stop, running, pollVars>>

Transact == ReadHeader \/ ReadBody \/ ReadCrc \/ Timeout
ReadOnce == SendCommand \/ WriteFails \/ Transact \/ CheckStatus \/ FlushRead \/ FlushFails

------------------------------------------------------------------------------
(* The ECU and the user *)

\* The with statement of run() is entered: the port is open.
PortOpen == pc \notin {"connect", "open", "close", "done", "failed"}

\* The next k bytes reach the port.  With "cut" the rest of their response may be
\* lost; the read that gets them then waits in vain, and if it is not the one
\* they are the response to, what follows is no longer whole for it.
Arrive(k) ==
    /\ PortOpen
    /\ coming # <<>>
    /\ k = Len(Head(coming)) \/ k \in Pieces
    /\ k <= Len(Head(coming))
    /\ line' = line \o SubSeq(Head(coming), 1, k)
    /\ \/ /\ k = Len(Head(coming))
          /\ coming' = Tail(coming)
          /\ begun' = FALSE
          /\ UNCHANGED residue
       \/ /\ k < Len(Head(coming))
          /\ coming' = <<SubSeq(Head(coming), k + 1, Len(Head(coming)))>> \o Tail(coming)
          /\ begun' = TRUE
          /\ UNCHANGED residue
       \/ /\ k < Len(Head(coming))
          /\ "cut" \in LineFaults
          /\ coming' = Tail(coming)
          /\ begun' = FALSE
          /\ residue' = IF residue = "none" THEN "none" ELSE "parts"
    /\ UNCHANGED <<decoderVars, want, response, bridgeVars, poll, overtaken, sent, readSize, pc>>

Signal ==
    /\ running
    /\ stop' = TRUE
    /\ UNCHANGED <<decoderVars, portVars, offset, pending, emitter, running, pollVars, readSize, pc>>

\* The process is gone.
Gone ==
    /\ ~running
    /\ UNCHANGED serialVars

Bridge ==
    \/ Connect \/ OpenPort \/ LoopEnd \/ BeginPoll \/ ReadOnce
    \/ Emit \/ Wait \/ Close \/ Exit

PacketLengths == 1..(FrameLength + 7)

SerialNext ==
    \/ Bridge
    \/ \E k \in PacketLengths : Arrive(k)
    \/ Signal \/ Gone

SerialSpec == SerialInit /\ [][SerialNext]_serialVars

\* Every wait of the one thread has a deadline.  The ECU and the line owe nothing.
SerialFairSpec == SerialSpec /\ WF_serialVars(Bridge)

------------------------------------------------------------------------------
(* Properties *)

Locations == {"connect", "open", "test", "command", "header", "body", "crc",
              "answer", "flush", "emit", "wait", "close", "done", "failed"}

Residues == {"none", "whole", "parts"}

\* Every variable has its type.
SerialTypeOK ==
    /\ DecoderTypeOK
    /\ readSize \in ReadSizes
    /\ pc \in Locations
    /\ offset \in Nat
    /\ want \in Nat
    /\ response \in Seq(Bytes)
    /\ line \in Seq(Bytes)
    /\ coming \in Seq(Seq(Bytes))
    /\ begun \in BOOLEAN
    /\ pending \in 0..Len(frames)
    /\ emitter \in {"new", "open", "closed"}
    /\ stop \in BOOLEAN
    /\ running \in BOOLEAN
    /\ poll \in 0..MaxPolls
    /\ overtaken \in Nat
    /\ residue \in Residues
    /\ sent \in Seq([frame : 1..Len(frames), poll : 0..MaxPolls, overtaken : Nat, residue : Residues])

\* The poll cycle a frame comes from, when it is whole.
IsFrameOf(f, c) == \A p \in 0..(RequiredLength - 1) : frames[f][p] = DataByte(p, c)

\* Where a poll stands whose reads get responses to themselves, or, where one read
\* is a whole poll, whole responses to earlier ones.  It does not when the poll is
\* made of several reads and begins while a response is still to come or unread
\* (each of its reads is then given the response to another offset), and when a
\* part of a response was left behind (it is then read as the header of another).
\* Such a poll may send a frame that is not whole, or none, and raise nothing.  It
\* is over with the first poll that begins with a quiet line.
InStep(r) == r = "none" \/ (r = "whole" /\ readSize >= FrameLength)

\* What a poll in step sends to LIVI is a whole frame.  When the line was quiet at
\* its beginning, it is the poll's own; with one read per poll it is otherwise that
\* of an earlier poll, but only by as many polls as had ended with a response still
\* to be read: the port is never flushed, so each of them delays all later answers
\* by one poll.  Of the frames that polls in step send, none is sent twice, and
\* none after a newer one.  Polls that are not in step are excepted.
SentIsWholeAndRecent ==
    LET Sent == {i \in DOMAIN sent : InStep(sent[i].residue)} IN
    /\ \A i \in Sent :
         \E c \in 1..sent[i].poll :
             /\ c + sent[i].overtaken >= sent[i].poll
             /\ IsFrameOf(sent[i].frame, c)
             /\ sent[i].residue = "none" => c = sent[i].poll
    /\ \A i, j \in Sent : i < j =>
         frames[sent[i].frame][0].cyc < frames[sent[j].frame][0].cyc

\* A poll in step that no timeout, refusal or exception ended has a frame to send,
\* whatever the polls before it went through.  Polls that are not in step, those
\* of several reads with a response left over from an earlier one, are excepted.
AnsweredPollHasFrame == pc = "emit" /\ InStep(residue) => pending # 0

\* Whatever arrives or fails to arrive on the line, late, in part or taken for
\* something else, stop() ends the process.
StopEndsProcess == stop ~> ~running
==============================================================================
