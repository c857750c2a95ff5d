------------------------------ MODULE TsDecoder ------------------------------
(***************************************************************************)
(* TunerStudioSerialDecoder: rebuilds the ECU's realtime block from the    *)
(* read commands and the responses seen on the wire.  A read command opens *)
(* a segment, responses are appended to it, the next command (or flush)    *)
(* finalizes it: its data go to the block at the segment's offset.  The    *)
(* block is decoded once its first RequiredLength bytes are covered, at    *)
(* most once until a command reads from offset 0 again.                    *)
(*                                                                         *)
(* A byte is known by the role it has in the response it comes from:       *)
(*   tag "hi", "lo": the length prefix, of value at;                       *)
(*   tag "status":   the status byte, of value at (0 is success);          *)
(*   tag "data":     the byte polled at frame offset at, in poll cycle cyc;   *)
(*   tag "crc":      a byte of the checksum;                               *)
(*   tag "zero":     a byte of the block that nothing was written to.      *)
(* Data and checksum bytes have any value.                                 *)
(***************************************************************************)
EXTENDS Coverage, Sequences, FiniteSets

CONSTANT FrameLength        \* ochBlockSize, the length of the block

ASSUME FrameLengthAssumption == FrameLength \in Nat \ {0}

VARIABLES
    block,      \* self.block
    ranges,     \* self.valid_ranges, pairs <<start, end>>
    segment,    \* self.pending_segment, or NoSegment
    emitted,    \* self.emitted_current_block
    frames      \* history: the blocks decoded so far, in order

decoderVars == <<block, ranges, segment, emitted, frames>>

Positions == 0..(FrameLength - 1)
Tags == {"hi", "lo", "status", "data", "crc", "zero"}
Bytes == [tag : Tags, at : Nat, cyc : Nat]
ZeroByte == [tag |-> "zero", at |-> 0, cyc |-> 0]
Blank == [p \in Positions |-> ZeroByte]

NoSegment == [offset |-> 0, count |-> 0, data |-> <<>>, open |-> FALSE]
NewSegment(o, c) == [offset |-> o, count |-> c, data |-> <<>>, open |-> TRUE]

DecoderInit ==
    /\ block = Blank
    /\ ranges = {}
    /\ segment = NoSegment
    /\ emitted = FALSE
    /\ frames = <<>>

------------------------------------------------------------------------------
(* The packets of the ECU, which is not part of the repository: u16 length, *)
(* status, data, u32 checksum.                                              *)

Byte(tag, n) == [tag |-> tag, at |-> n, cyc |-> 0]
DataByte(p, c) == [tag |-> "data", at |-> p, cyc |-> c]

Packet(payload) ==
    <<Byte("hi", 0), Byte("lo", Len(payload))>> \o payload
        \o [i \in 1..4 |-> Byte("crc", 0)]

\* The answer to a read of n bytes at offset o in poll cycle c.
Answer(o, n, c) ==
    Packet(<<Byte("status", 0)>> \o [k \in 1..n |-> DataByte(o + k - 1, c)])

Refusal == Packet(<<Byte("status", 130)>>)

------------------------------------------------------------------------------
(* _extract_response_data.  Where it depends on bytes of any value, the     *)
(* operators return the set of the possible results.                        *)

IsKnown(b) == b.tag \in {"hi", "lo", "status", "zero"}

\* Whether byte b may be zero, and may be another value.
ZeroTests(b) == IF IsKnown(b) THEN {b.at = 0} ELSE BOOLEAN

\* int.from_bytes(data[:2], "big"); any length beyond the data is Len(d).
DeclaredLengths(d) ==
    IF IsKnown(d[1]) /\ IsKnown(d[2]) THEN {256 * d[1].at + d[2].at} ELSE 0..Len(d)

\* Fault: the status byte is left in front of the data.
PayloadsWithStatus(p) == {IF z THEN p ELSE <<>> : z \in ZeroTests(p[1])}

\* payload[1:] of a payload that starts with a zero status, else nothing.
PayloadsAfterStatus(p) == {IF z THEN Tail(p) ELSE <<>> : z \in ZeroTests(p[1])}

\* The fallback: data[1:] when data starts with zero, else data.
FallbackResults(d) == {IF z THEN Tail(d) ELSE d : z \in ZeroTests(d[1])}

\* Whether the length prefix d may declare has its payload in d.
PresentLengths(d) ==
    IF Len(d) >= 7 THEN DeclaredLengths(d) \cap 1..(Len(d) - 2) ELSE {}

FallsThrough(d) == Len(d) < 7 \/ ~(DeclaredLengths(d) \subseteq 1..(Len(d) - 2))

ExtractResponseData(d) ==
    IF d = <<>> THEN {<<>>}
    ELSE (UNION {PayloadsAfterStatus(SubSeq(d, 3, n + 2)) : n \in PresentLengths(d)})
         \cup (IF FallsThrough(d) THEN FallbackResults(d) ELSE {})

------------------------------------------------------------------------------
(* _finalize_pending_segment *)

Smaller(m, n) == IF m < n THEN m ELSE n

\* Fault: one byte short of the end of the block.
UsableCountShort(s, x) ==
    IF s.offset >= FrameLength THEN 0
    ELSE Smaller(Smaller(s.count, Len(x)), FrameLength - s.offset - 1)

\* min(segment.count, len(segment_data), max(0, frame_length - segment.offset))
UsableCount(s, x) ==
    IF s.offset >= FrameLength THEN 0
    ELSE Smaller(Smaller(s.count, Len(x)), FrameLength - s.offset)

\* Fault: the slice takes all of x, which makes the block grow.
WrittenUncut(o, n, x) ==
    [p \in 0..(IF n > 0 /\ o + Len(x) > FrameLength THEN o + Len(x) ELSE FrameLength) - 1 |->
        IF n > 0 /\ o <= p /\ p < o + Len(x) THEN x[p - o + 1] ELSE block[p]]

\* self.block after n bytes of x are written at offset o.
Written(o, n, x) ==
    [p \in Positions |-> IF o <= p /\ p < o + n THEN x[p - o + 1] ELSE block[p]]

\* Fault: emitted_current_block is not looked at.
DepositAgain(x) ==
    LET n == UsableCount(segment, x)
        o == segment.offset
        r == IF n > 0 THEN ranges \cup {<<o, o + n>>} ELSE ranges
    IN [block |-> Written(o, n, x),
        ranges |-> r,
        completes |-> n > 0 /\ HasRequiredData(r)]

\* The block and ranges after the segment's bytes x are finalized, and
\* whether this completes a frame.
Deposit(x) ==
    LET n == UsableCount(segment, x)
        o == segment.offset
        r == IF n > 0 THEN ranges \cup {<<o, o + n>>} ELSE ranges
    IN [block |-> Written(o, n, x),
        ranges |-> r,
        completes |-> n > 0 /\ ~emitted /\ HasRequiredData(r)]

Untouched == [block |-> block, ranges |-> ranges, completes |-> FALSE]

Finalizations ==
    IF segment.open THEN {Deposit(x) : x \in ExtractResponseData(segment.data)}
    ELSE {Untouched}

\* self.emitted_current_block = True, and the frame decoded.
EmitFrame(f) == frames' = IF f.completes THEN Append(frames, f.block) ELSE frames

------------------------------------------------------------------------------
(* decode_usbmon_event *)

\* Fault: a read from offset 0 keeps the ranges of the block before.
CommandKeepsRanges(o, c) == \E f \in Finalizations :
    /\ EmitFrame(f)
    /\ segment' = NewSegment(o, c)
    /\ block' = f.block
    /\ ranges' = f.ranges
    /\ emitted' = (o # 0 /\ (emitted \/ f.completes))

\* A read command (offset o, count c) leaves the host.
Command(o, c) == \E f \in Finalizations :
    /\ EmitFrame(f)
    /\ segment' = NewSegment(o, c)
    /\ \/ /\ o = 0
          /\ block' = Blank
          /\ ranges' = {}
          /\ emitted' = FALSE
       \/ /\ o # 0
          /\ block' = f.block
          /\ ranges' = f.ranges
          /\ emitted' = (emitted \/ f.completes)

\* The frame that a command or flush() completes cannot be decoded (a NaN for a
\* gear): the segment is gone, the exception leaves the command unrecorded.
DecodeRaises == \E f \in Finalizations :
    /\ f.completes
    /\ block' = f.block
    /\ ranges' = f.ranges
    /\ emitted' = TRUE
    /\ segment' = NoSegment
    /\ UNCHANGED frames

\* A completed input transfer carries data.
ConsumeInput(data) ==
    /\ segment' = IF segment.open THEN [segment EXCEPT !.data = @ \o data] ELSE segment
    /\ UNCHANGED <<block, ranges, emitted, frames>>

\* flush()
FlushSegment == \E f \in Finalizations :
    /\ EmitFrame(f)
    /\ block' = f.block
    /\ ranges' = f.ranges
    /\ emitted' = (emitted \/ f.completes)
    /\ segment' = NoSegment

------------------------------------------------------------------------------
DecoderTypeOK ==
    /\ block \in [Positions -> Bytes]
    /\ ranges \subseteq Nat \X Nat
    /\ segment \in [offset : Nat, count : Nat, data : Seq(Bytes), open : BOOLEAN]
    /\ emitted \in BOOLEAN
    /\ frames \in Seq([Positions -> Bytes])
==============================================================================
