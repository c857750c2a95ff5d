-------------------------- MODULE SerialBridgeProofs --------------------------
(***************************************************************************)
(* Proofs about the active serial bridge, for every plan of reads, every   *)
(* way a response may arrive in pieces and every choice of faults.         *)
(*                                                                         *)
(* SerialInv says what the responses under way, the input buffer, the      *)
(* block and the pending frame may hold at each point of a poll, by what   *)
(* earlier polls have left to be read.  While that is nothing, no byte of  *)
(* an earlier read is there when a request is written, and at most one     *)
(* response, whole or cut, is under way.  While it is whole responses to   *)
(* whole polls, the input buffer is a queue of such responses, in the      *)
(* order of the polls, and each comes as late as `overtaken` accounts for. *)
(* Otherwise the bytes of the line may be anything, and what is read of    *)
(* them has nothing but its type.                                          *)
(***************************************************************************)
EXTENDS DecoderProofs, SerialBridge

------------------------------------------------------------------------------
(* Responses and queues of responses *)

\* The responses to the read of n bytes at offset o in poll c.
Responses(o, n, c) == {Answer(o, n, c), Refusal}

\* A response: a prefix that tells the truth, a status, data, a checksum.
LEMMA ResponseShape ==
    ASSUME NEW o \in Nat, NEW n \in Nat, NEW c \in Nat, NEW P \in Responses(o, n, c)
    PROVE  /\ P \in Seq(Bytes)
           /\ P[1] = Byte("hi", 0)
           /\ P[2].tag = "lo" /\ P[2].at \in Nat /\ P[2].at > 0
           /\ Len(P) = P[2].at + 6
           /\ P[3].tag = "status" /\ (P[3].at = 0 <=> P # Refusal)
<1>1. CASE P = Answer(o, n, c)
  <2>1. /\ P \in Seq(Bytes) /\ Len(P) = n + 7 /\ P[1] = Byte("hi", 0)
        /\ P[2] = Byte("lo", n + 1) /\ P[3] = Byte("status", 0)
    BY <1>1, AnswerShape
  <2>2. P # Refusal
    BY <2>1, RefusalShape DEF Byte
  <2> QED
    BY <2>1, <2>2 DEF Byte
<1>2. CASE P = Refusal
  BY <1>2, RefusalShape DEF Byte
<1> QED
  BY <1>1, <1>2 DEF Responses

\* Every response to the read of a whole block enqueues another.
Enqueues(R) ==
    /\ <<<<>>, <<>>>> \in R
    /\ \A q \in R : \A c \in Nat : \A P \in Responses(0, FrameLength, c) :
         <<q[1] \o P, Append(q[2], c)>> \in R

\* Line l consists of one response to the read of a whole block for each of the
\* polls cs, in that order: the least relation that enqueues them.
IsQueue(l, cs) ==
    /\ l \in Seq(Bytes) /\ cs \in Seq(Nat)
    /\ \A R \in SUBSET (Seq(Bytes) \X Seq(Nat)) : Enqueues(R) => <<l, cs>> \in R

LEMMA NoQueue == IsQueue(<<>>, <<>>)
BY DEF IsQueue, Enqueues

LEMMA Enqueued ==
    ASSUME NEW l, NEW cs, IsQueue(l, cs), NEW c \in Nat, NEW P \in Responses(0, FrameLength, c)
    PROVE  IsQueue(l \o P, Append(cs, c))
<1>1. P \in Seq(Bytes)
  BY ResponseShape, FrameLengthAssumption
<1>2. l \o P \in Seq(Bytes) /\ Append(cs, c) \in Seq(Nat)
  BY <1>1 DEF IsQueue
<1>3. ASSUME NEW R \in SUBSET (Seq(Bytes) \X Seq(Nat)), Enqueues(R)
      PROVE  <<l \o P, Append(cs, c)>> \in R
  <2> DEFINE q == <<l, cs>>
  <2>1. q \in R
    BY <1>3 DEF IsQueue
  <2>2. q[1] = l /\ q[2] = cs
    OBVIOUS
  <2> HIDE DEF q
  <2>3. <<q[1] \o P, Append(q[2], c)>> \in R
    BY <1>3, <2>1 DEF Enqueues
  <2> QED
    BY <2>2, <2>3
<1> QED
  BY <1>2, <1>3 DEF IsQueue

\* A queue is empty, or begins with a response to its first poll.
QueueBegins(l, cs) ==
    \/ l = <<>> /\ cs = <<>>
    \/ /\ cs # <<>>
       /\ \E P \in Responses(0, FrameLength, Head(cs)), t \in Seq(Bytes) :
            IsQueue(t, Tail(cs)) /\ l = P \o t

LEMMA Dequeued ==
    ASSUME NEW l, NEW cs, IsQueue(l, cs)
    PROVE  QueueBegins(l, cs)
<1> DEFINE R == {q \in Seq(Bytes) \X Seq(Nat) : IsQueue(q[1], q[2]) /\ QueueBegins(q[1], q[2])}
<1>1. R \in SUBSET (Seq(Bytes) \X Seq(Nat))
  OBVIOUS
<1>2. <<<<>>, <<>>>> \in R
  <2> DEFINE q == <<<<>>, <<>>>>
  <2>0. <<>> \in Seq(Bytes) /\ <<>> \in Seq(Nat)
    BY Emptiness
  <2>1. q[1] = <<>> /\ q[2] = <<>> /\ q \in Seq(Bytes) \X Seq(Nat)
    BY <2>0
  <2> HIDE DEF q
  <2>2. q \in R
    BY <2>1, NoQueue DEF QueueBegins
  <2> QED
    BY <2>2 DEF q
<1>3. ASSUME NEW q \in R, NEW c \in Nat, NEW P \in Responses(0, FrameLength, c)
      PROVE  <<q[1] \o P, Append(q[2], c)>> \in R
  <2>1. IsQueue(q[1], q[2]) /\ QueueBegins(q[1], q[2])
        /\ q[1] \in Seq(Bytes) /\ q[2] \in Seq(Nat)
    OBVIOUS
  <2> HIDE DEF R
  <2> DEFINE l2 == q[1] \o P
             cs2 == Append(q[2], c)
  <2>2. IsQueue(l2, cs2)
    BY <2>1, Enqueued
  <2>3. P \in Seq(Bytes)
    BY ResponseShape, FrameLengthAssumption
  <2>4. l2 \in Seq(Bytes) /\ cs2 \in Seq(Nat)
    BY <2>2 DEF IsQueue
  <2>5. QueueBegins(l2, cs2)
    <3>1. CASE q[1] = <<>> /\ q[2] = <<>>
      <4>1. l2 = P \o <<>>
        BY <2>3, <3>1, ConcatEmptySeq
      <4>2. Head(cs2) = c /\ Tail(cs2) = <<>> /\ cs2 # <<>>
        BY <3>1
      <4> QED
        BY <4>1, <4>2, NoQueue, Emptiness DEF QueueBegins
    <3>2. CASE ~(q[1] = <<>> /\ q[2] = <<>>)
      <4>1. q[2] # <<>>
        BY <2>1, <3>2 DEF QueueBegins
      <4>2. PICK F \in Responses(0, FrameLength, Head(q[2])), t \in Seq(Bytes) :
              IsQueue(t, Tail(q[2])) /\ q[1] = F \o t
        BY <2>1, <3>2 DEF QueueBegins
      <4>3. F \in Seq(Bytes)
        <5>1. Head(q[2]) \in Nat
          BY <2>1, <4>1, HeadTailProperties
        <5> QED
          BY <5>1, ResponseShape, FrameLengthAssumption
      <4>4. l2 = F \o (t \o P)
        BY <2>3, <4>2, <4>3, ConcatAssociative
      <4>5. /\ cs2 # <<>>
            /\ Head(cs2) = Head(q[2])
            /\ Tail(cs2) = Append(Tail(q[2]), c)
        <5>1. c \in Nat /\ q[2] \in Seq(Nat)
          BY <2>1
        <5>2. cs2 # <<>>
          <6>1. \A s \in Seq(Nat), e \in Nat : Append(s, e) # <<>>
            BY AppendProperties
          <6> QED
            BY <5>1, <6>1
        <5>3. /\ Head(cs2) = IF q[2] = <<>> THEN c ELSE Head(q[2])
              /\ Tail(cs2) = IF q[2] = <<>> THEN <<>> ELSE Append(Tail(q[2]), c)
          BY <5>1, HeadTailAppend
        <5> QED
          BY <4>1, <5>2, <5>3
      <4>6. IsQueue(t \o P, Tail(cs2))
        BY <4>2, <4>5, Enqueued
      <4> QED
        <5>1. t \o P \in Seq(Bytes)
          BY <4>6 DEF IsQueue
        <5>2. F \in Responses(0, FrameLength, Head(cs2))
          BY <4>2, <4>5
        <5> QED
          BY <4>4, <4>5, <4>6, <5>1, <5>2 DEF QueueBegins
    <3> QED
      BY <3>1, <3>2
  <2> HIDE DEF l2, cs2
  <2>6. <<l2, cs2>> \in Seq(Bytes) \X Seq(Nat)
        /\ <<l2, cs2>>[1] = l2 /\ <<l2, cs2>>[2] = cs2
    BY <2>4
  <2>7. <<l2, cs2>> \in R
    BY <2>2, <2>5, <2>6 DEF R
  <2> QED
    BY <2>7 DEF l2, cs2
<1>4. Enqueues(R)
  BY <1>2, <1>3 DEF Enqueues
<1>5. <<l, cs>> \in R
  BY <1>1, <1>4 DEF IsQueue
<1> QED
  BY <1>5

\* A queue with at least one response, taken apart.
LEMMA FirstResponse ==
    ASSUME NEW l, NEW cs, IsQueue(l, cs), cs # <<>>
    PROVE  \E P \in Responses(0, FrameLength, Head(cs)), t \in Seq(Bytes) :
             /\ IsQueue(t, Tail(cs)) /\ l = P \o t
             /\ Len(l) = Len(P) + Len(t)
             /\ \A i \in 1..Len(P) : l[i] = P[i]
<1>1. PICK P \in Responses(0, FrameLength, Head(cs)), t \in Seq(Bytes) :
        IsQueue(t, Tail(cs)) /\ l = P \o t
  BY Dequeued DEF QueueBegins
<1>2. Head(cs) \in Nat
  BY HeadTailProperties DEF IsQueue
<1>3. P \in Seq(Bytes)
  BY <1>2, ResponseShape, FrameLengthAssumption
<1>4. /\ Len(P \o t) = Len(P) + Len(t)
      /\ \A i \in 1..Len(P) : (P \o t)[i] = P[i]
  BY <1>3, Concat
<1> QED
  BY <1>1, <1>4

\* Less than a header is nothing.
LEMMA ShortQueue ==
    ASSUME NEW l, NEW cs, IsQueue(l, cs), Len(l) < 2
    PROVE  l = <<>> /\ cs = <<>>
<1>1. ASSUME cs # <<>> PROVE FALSE
  <2>1. PICK P \in Responses(0, FrameLength, Head(cs)), t \in Seq(Bytes) :
          Len(l) = Len(P) + Len(t)
    BY <1>1, FirstResponse
  <2>2. Head(cs) \in Nat
    BY <1>1, HeadTailProperties DEF IsQueue
  <2>3. Len(P) = P[2].at + 6 /\ P[2].at \in Nat
    BY <2>2, ResponseShape, FrameLengthAssumption
  <2> QED
    BY <2>1, <2>3
<1> QED
  BY <1>1, Dequeued DEF QueueBegins

Reading == {"header", "body", "crc"}
Polling == {"command", "answer", "flush", "emit"} \cup Reading

\* What the thread has taken of a response and what waits in the input buffer.
Stream == IF pc \in Reading THEN response \o line ELSE line

\* Earlier polls have left nothing to be read; or whole responses to whole polls.
InTime == residue = "none"
Queued == residue = "whole" /\ readSize >= FrameLength

\* The stream with the rest of the response that has begun to arrive, and the
\* responses of which nothing has arrived.
Whole == Stream \o (IF begun THEN Head(coming) ELSE <<>>)
Rest == IF begun THEN Tail(coming) ELSE coming

\* Sequence s is P or the beginning of it.
Begins(s, P) == Len(s) <= Len(P) /\ \A i \in DOMAIN s : s[i] = P[i]

\* The poll that the response taken last answers.
Answered == response[4].cyc

\* The poll that the frame of this poll comes from.
Origin == IF InTime THEN poll ELSE Answered

CycleOf(f) == frames[f][0].cyc

\* The payloads that polls in step have sent.
SentInStep == {i \in DOMAIN sent : InStep(sent[i].residue)}

------------------------------------------------------------------------------
(* The inductive invariant *)

\* How far the poll and the response in progress have got.
StageInv ==
    /\ pc \in {"connect", "open"} => line = <<>>
    /\ pc \notin Polling => offset = 0 /\ pending = 0
    /\ pc \in Polling => poll > 0
    /\ pc \in Polling /\ pc # "emit" =>
         offset < FrameLength /\ (readSize >= FrameLength => offset = 0)
    /\ pc = "emit" => offset >= FrameLength
    /\ pc = "header" => response = <<>> /\ want = 2
    /\ pc = "body" => Len(response) = 2 /\ want > 0
    /\ pc = "crc" => Len(response) >= 2 /\ want = 4

\* In step, the header is that of a response.
HeaderInv ==
    InStep(residue) =>
        /\ pc \in {"body", "crc"} => response[2].at > 0
        /\ pc = "body" => want = response[2].at
        /\ pc = "crc" => Len(response) = response[2].at + 2

\* Where nothing was left to be read, at most one response is under way, to the
\* read in progress, whole or cut short.
OnTimeInv ==
    InTime =>
        /\ pc \notin Reading => line = <<>> /\ coming = <<>>
        /\ pc \in Reading =>
             /\ Len(coming) <= 1
             /\ \A j \in DOMAIN coming : coming[j] # <<>>
             /\ ~begun /\ coming # <<>> =>
                  Stream = <<>> /\ Head(coming) \in Responses(offset, Count, poll)
             /\ \E P \in Responses(offset, Count, poll) :
                  Begins(Stream \o (IF coming = <<>> THEN <<>> ELSE Head(coming)), P)

\* The poll whose response is read next, if the responses come in turn.
Turn == IF pc \in {"command"} \cup Reading THEN poll ELSE poll + 1

\* The responses still to be read, as the polls they answer, are in order; each
\* is as late as the polls account for that ended with a response to be read.
InTurn(due) ==
    /\ Len(due) <= overtaken + (IF pc \in Reading THEN 1 ELSE 0)
    /\ \A j \in DOMAIN due :
         /\ due[j] + overtaken >= Turn + j - 1
         /\ 0 < due[j] /\ due[j] <= (IF pc = "command" THEN poll - 1 ELSE poll)
         /\ pc \in {"answer", "flush", "emit"} => Answered < due[j]
         /\ \A i \in SentInStep : CycleOf(sent[i].frame) < due[j]
    /\ \A i, j \in DOMAIN due : i < j => due[i] < due[j]

\* Where whole responses to whole polls were left to be read, the input buffer
\* holds nothing but such, to the polls "here", of which the last may still be
\* arriving; of those to the polls "there" nothing has arrived yet.
QueueInv(here, there) ==
    /\ begun => coming # <<>>
    /\ IsQueue(Whole, here)
    /\ Len(there) = Len(Rest)
    /\ \A j \in DOMAIN there : Rest[j] \in Responses(0, FrameLength, there[j])
    /\ InTurn(here \o there)

LateInv == Queued => \E here, there \in Seq(Nat) : QueueInv(here, there)

\* In step, a response is taken as a whole.
TakenInv ==
    InStep(residue) =>
        /\ pc \in {"answer", "flush"} =>
             Answered \in Nat /\ response \in Responses(offset, Count, Answered)
        /\ pc = "flush" => response = Answer(offset, Count, Answered)
        /\ (pc \in {"answer", "flush"} /\ response # Refusal) \/ pc = "emit" =>
             /\ 0 < Answered /\ Answered <= poll
             /\ Answered + overtaken >= poll
             /\ InTime => Answered = poll
             /\ \A i \in SentInStep : CycleOf(sent[i].frame) < Answered

\* The decoder's segment is that of the read in progress.
SegmentInv ==
    /\ pc \in Reading \cup {"answer"} => segment = NewSegment(offset, Count)
    /\ pc = "flush" => segment = [NewSegment(offset, Count) EXCEPT !.data = response]
    /\ pc \notin Reading \cup {"answer", "flush"} /\ segment.open => segment.data = <<>>

\* In step, the reads of a poll fill the block from the beginning.
FilledInv ==
    InStep(residue) /\ pc \in Polling /\ (pc = "command" => offset > 0) =>
        /\ \A p \in Positions : Covers(ranges, p) <=> p < offset
        /\ \A p \in Positions : pc # "emit" /\ p < offset => block[p] = DataByte(p, poll)
        /\ emitted <=> pending # 0

\* In step, a frame that waits to be sent is whole.
PendingInv ==
    /\ pc = "command" /\ offset = 0 => pending = 0
    /\ InStep(residue) /\ pc \in Polling /\ pending # 0 =>
        /\ RequiredLength > 0
        /\ Queued => pc = "emit"
        /\ IsFrameOf(pending, Origin)

SentInv ==
    /\ SentIsWholeAndRecent
    /\ \A i \in SentInStep :
         CycleOf(sent[i].frame) <= (IF pc \in Polling THEN poll - 1 ELSE poll)

SerialInv ==
    /\ SerialTypeOK /\ RangesInv /\ StageInv /\ HeaderInv /\ OnTimeInv /\ LateInv
    /\ TakenInv /\ SegmentInv /\ FilledInv /\ PendingInv /\ SentInv

------------------------------------------------------------------------------
(* The decoder between two reads *)

\* A segment without data leaves the block as it is.
LEMMA NothingDeposited ==
    ASSUME DecoderTypeOK, segment.open => segment.data = <<>>, NEW f \in Finalizations
    PROVE  f.block = block /\ f.ranges = ranges /\ f.completes = FALSE
<1>1. CASE ~segment.open
  BY <1>1 DEF Finalizations, Untouched
<1>2. CASE segment.open
  <2>1. f = Deposit(<<>>)
    BY <1>2 DEF Finalizations, ExtractResponseData
  <2>2. segment.offset \in Nat /\ segment.count \in Nat /\ block \in [Positions -> Bytes]
    BY DEF DecoderTypeOK
  <2>3. UsableCount(segment, <<>>) = 0
    BY <2>2, FrameLengthAssumption DEF UsableCount, Smaller
  <2>4. \A p \in Positions : p \in Nat
    BY FrameLengthAssumption DEF Positions
  <2>5. Written(segment.offset, 0, <<>>) = block
    <3>1. \A p \in Positions : ~(segment.offset <= p /\ p < segment.offset + 0)
      BY <2>2, <2>4
    <3>2. Written(segment.offset, 0, <<>>) = [p \in Positions |-> block[p]]
      BY <3>1 DEF Written
    <3> QED
      BY <2>2, <3>2
  <2> DEFINE n == UsableCount(segment, <<>>)
             o == segment.offset
  <2>6. /\ f.block = Written(o, n, <<>>)
        /\ f.ranges = IF n > 0 THEN ranges \cup {<<o, o + n>>} ELSE ranges
        /\ f.completes = (n > 0 /\ ~emitted /\ HasRequiredData(f.ranges))
    BY <2>1 DEF Deposit
  <2>7. n = 0
    BY <2>3
  <2> HIDE DEF n
  <2>8. f.block = block /\ f.ranges = ranges
    BY <2>5, <2>6, <2>7
  <2>9. ~(n > 0)
    BY <2>7
  <2>10. f.completes = FALSE
    BY <2>6, <2>9
  <2> QED
    BY <2>8, <2>10
<1> QED
  BY <1>1, <1>2

\* A command that finds no data in the segment.
LEMMA CommandResult ==
    ASSUME DecoderTypeOK, RangesInv, segment.open => segment.data = <<>>,
           NEW o \in Nat, NEW n \in Nat, Command(o, n)
    PROVE  /\ frames' = frames /\ segment' = NewSegment(o, n)
           /\ o = 0 => block' = Blank /\ ranges' = {} /\ emitted' = FALSE
           /\ o # 0 => block' = block /\ ranges' = ranges /\ emitted' = emitted
           /\ DecoderTypeOK' /\ RangesInv'
<1>1. PICK f \in Finalizations :
        /\ EmitFrame(f)
        /\ segment' = NewSegment(o, n)
        /\ \/ /\ o = 0
              /\ block' = Blank
              /\ ranges' = {}
              /\ emitted' = FALSE
           \/ /\ o # 0
              /\ block' = f.block
              /\ ranges' = f.ranges
              /\ emitted' = (emitted \/ f.completes)
  BY DEF Command
<1>2. f.block = block /\ f.ranges = ranges /\ f.completes = FALSE
  BY NothingDeposited
<1>3. frames' = frames /\ emitted \in BOOLEAN
  BY <1>1, <1>2 DEF EmitFrame, DecoderTypeOK
<1>4. DecoderTypeOK'
  BY <1>1, <1>2, <1>3, BlankType, SegmentTypes DEF DecoderTypeOK
<1>5. ~HasRequiredData({})
  <2>1. ASSUME RequiredLength > 0 PROVE 0 \in 0..(RequiredLength - 1)
    BY <2>1, RequiredLengthAssumption
  <2>2. \A p : ~Covers({}, p)
    BY DEF Covers
  <2> QED
    BY <2>1, <2>2 DEF HasRequiredData
<1>6. RangesInv'
  BY <1>1, <1>2, <1>3, <1>5 DEF RangesInv
<1> QED
  BY <1>1, <1>2, <1>3, <1>4, <1>6

\* The length of a read that begins inside the block.
LEMMA CountFits ==
    ASSUME readSize \in ReadSizes, offset \in Nat, offset < FrameLength
    PROVE  /\ Count \in Nat /\ Count > 0 /\ offset + Count <= FrameLength
           /\ \A p \in Nat : p < FrameLength => (p < offset + Count <=> p < offset + readSize)
           /\ readSize \in Nat /\ readSize > 0
           /\ readSize >= FrameLength /\ offset = 0 => Count = FrameLength
BY ReadSizesAssumption, FrameLengthAssumption DEF Count, Smaller

\* A poll is in step for one of two reasons.
LEMMA Regimes ==
    /\ InStep(residue) <=> InTime \/ Queued
    /\ ~(InTime /\ Queued)
BY DEF InStep, InTime, Queued

\* What is taken, what waits, and the rest of what has begun to arrive.
LEMMA StreamShape ==
    ASSUME SerialTypeOK, begun => coming # <<>>
    PROVE  /\ Stream \in Seq(Bytes) /\ Len(Stream) \in Nat
           /\ Whole \in Seq(Bytes) /\ Len(Whole) \in Nat /\ Len(Stream) <= Len(Whole)
           /\ \A i \in 1..Len(Stream) : Whole[i] = Stream[i]
           /\ ~begun => Whole = Stream
           /\ Rest \in Seq(Seq(Bytes)) /\ Len(Rest) \in Nat
<1>0. response \in Seq(Bytes) /\ line \in Seq(Bytes) /\ coming \in Seq(Seq(Bytes)) /\ begun \in BOOLEAN
  BY DEF SerialTypeOK
<1>1. Stream \in Seq(Bytes) /\ Len(Stream) \in Nat
  <2>1. response \o line \in Seq(Bytes)
    BY <1>0, Concat
  <2>2. Stream \in Seq(Bytes)
    BY <1>0, <2>1 DEF Stream
  <2> QED
    BY <2>2, LenProperties
<1> DEFINE more == IF begun THEN Head(coming) ELSE <<>>
<1>2. more \in Seq(Bytes)
  BY <1>0, Emptiness, HeadTailProperties
<1>3. Whole = Stream \o more /\ (~begun => more = <<>>)
  BY DEF Whole
<1> HIDE DEF more
<1>4. /\ Whole \in Seq(Bytes) /\ Len(Whole) = Len(Stream) + Len(more) /\ Len(more) \in Nat
      /\ \A i \in 1..Len(Stream) : Whole[i] = Stream[i]
  BY <1>1, <1>2, <1>3, Concat, LenProperties
<1>5. ~begun => Whole = Stream
  BY <1>1, <1>3, ConcatEmptySeq
<1>6. Rest \in Seq(Seq(Bytes))
  BY <1>0, HeadTailProperties DEF Rest
<1> QED
  BY <1>1, <1>4, <1>5, <1>6, LenProperties

------------------------------------------------------------------------------
(* Every step keeps the invariant *)

LEMMA SerialInitially == SerialInit => SerialInv
<1> SUFFICES ASSUME SerialInit PROVE SerialInv
  OBVIOUS
<1> USE DEF SerialInit, DecoderInit
<1>1. SerialTypeOK
  <2>1. DecoderTypeOK
    BY BlankType, SegmentTypes, Emptiness DEF DecoderTypeOK
  <2>2. /\ <<>> \in Seq(Bytes) /\ <<>> \in Seq(Seq(Bytes))
        /\ sent \in Seq([frame : 1..Len(frames), poll : 0..MaxPolls, overtaken : Nat, residue : Residues])
    BY Emptiness
  <2>3. pending \in 0..Len(frames) /\ poll \in 0..MaxPolls /\ pc \in Locations /\ residue \in Residues
    BY PollsAssumption, EmptySeq DEF Locations, Residues
  <2> QED
    BY <2>1, <2>2, <2>3 DEF SerialTypeOK
<1>2. InTime /\ ~Queued
  BY DEF InTime, Queued
<1>3. StageInv /\ HeaderInv /\ OnTimeInv /\ LateInv /\ TakenInv /\ FilledInv /\ PendingInv
  BY <1>2 DEF StageInv, HeaderInv, OnTimeInv, LateInv, TakenInv, FilledInv, PendingInv, Reading, Polling
<1>4. SegmentInv
  BY SegmentTypes DEF SegmentInv, Reading
<1>5. RangesInv
  <2>1. ~HasRequiredData({})
    BY RequiredLengthAssumption DEF HasRequiredData, Covers
  <2> QED
    BY <2>1 DEF RangesInv
<1>6. SentInv
  BY DEF SentInv, SentIsWholeAndRecent, SentInStep
<1> QED
  BY <1>1, <1>3, <1>4, <1>5, <1>6 DEF SerialInv

\* A step that leaves the decoder, the port and the poll alone.
LEMMA QuietSerialStep ==
    ASSUME SerialInv, SerialTypeOK',
           UNCHANGED <<decoderVars, portVars, offset, pending, pollVars, readSize>>,
           \/ pc' = pc
           \/ pc \notin Polling /\ pc' \notin Polling /\ pc' # "connect" /\ (pc' = "open" => pc = "connect")
    PROVE  SerialInv'
<1> USE DEF decoderVars, portVars, pollVars
<1>1. /\ pc' \in Reading <=> pc \in Reading
      /\ pc' \in Polling <=> pc \in Polling
      /\ \A l \in Polling : pc' = l <=> pc = l
  BY DEF Reading, Polling
<1>2. StageInv' /\ HeaderInv'
  BY <1>1 DEF SerialInv, StageInv, HeaderInv, InStep, Polling, Reading
<1>3. /\ Stream' = Stream /\ Count' = Count /\ Turn' = Turn /\ Answered' = Answered
      /\ Origin' = Origin /\ InTime' = InTime /\ Queued' = Queued /\ SentInStep' = SentInStep
      /\ InStep(residue)' = InStep(residue)
  BY <1>1 DEF Stream, Count, Turn, Answered, Origin, InTime, Queued, SentInStep, InStep, Polling, Reading
<1>4. OnTimeInv'
  BY <1>1, <1>3 DEF SerialInv, OnTimeInv
<1>5. LateInv'
  <2>1. ASSUME NEW here \in Seq(Nat), NEW there \in Seq(Nat), QueueInv(here, there)
        PROVE  QueueInv(here, there)'
    <3>1. Whole' = Whole /\ Rest' = Rest
      BY <1>3 DEF Whole, Rest
    <3>2. InTurn(here \o there)'
      BY <1>1, <1>3, <2>1 DEF QueueInv, InTurn, CycleOf, Polling, Reading
    <3> QED
      BY <2>1, <3>1, <3>2 DEF QueueInv
  <2> QED
    BY <1>3, <2>1 DEF SerialInv, LateInv
<1>6. TakenInv'
  BY <1>1, <1>3 DEF SerialInv, TakenInv, CycleOf, Polling, Reading
<1>7. SegmentInv'
  BY <1>1, <1>3 DEF SerialInv, SegmentInv, Polling, Reading
<1>8. FilledInv' /\ RangesInv'
  BY <1>1, <1>3 DEF SerialInv, FilledInv, RangesInv, Polling, Reading
<1>9. PendingInv'
  BY <1>1, <1>3 DEF SerialInv, PendingInv, IsFrameOf, Polling, Reading
<1>10. SentInv'
  BY <1>1, <1>3 DEF SerialInv, SentInv, SentIsWholeAndRecent, IsFrameOf, CycleOf, InStep
<1> QED
  BY <1>2, <1>4, <1>5, <1>6, <1>7, <1>8, <1>9, <1>10 DEF SerialInv

\* The poll cycles of the frames that were sent are numbers.
LEMMA SentTypes ==
    ASSUME SerialTypeOK, NEW i \in DOMAIN sent
    PROVE  /\ i \in Nat
           /\ sent[i].frame \in 1..Len(frames)
           /\ CycleOf(sent[i].frame) \in Nat
<1> DEFINE Payloads == [frame : 1..Len(frames), poll : 0..MaxPolls, overtaken : Nat, residue : Residues]
<1>1. sent \in Seq(Payloads) /\ frames \in Seq([Positions -> Bytes])
  BY DEF SerialTypeOK, DecoderTypeOK
<1> HIDE DEF Payloads
<1>2. i \in 1..Len(sent) /\ i \in Nat
  BY <1>1, LenProperties
<1>3. sent[i] \in Payloads
  BY <1>1, <1>2, ElementOfSeq
<1>4. sent[i].frame \in 1..Len(frames)
  BY <1>3 DEF Payloads
<1>5. frames[sent[i].frame] \in [Positions -> Bytes]
  BY <1>1, <1>4, ElementOfSeq
<1>6. frames[sent[i].frame][0] \in Bytes
  BY <1>5, FrameLengthAssumption DEF Positions
<1> QED
  BY <1>2, <1>4, <1>6 DEF CycleOf, Bytes

\* The polls that the responses still to be read answer.
LEMMA DueTypes ==
    ASSUME SerialInv, NEW here \in Seq(Nat), NEW there \in Seq(Nat)
    PROVE  /\ here \o there \in Seq(Nat)
           /\ Len(here \o there) = Len(here) + Len(there)
           /\ Len(here) \in Nat /\ Len(there) \in Nat
           /\ \A j \in DOMAIN (here \o there) : j \in Nat /\ (here \o there)[j] \in Nat
           /\ poll \in Nat /\ overtaken \in Nat /\ Turn \in Nat
<1>1. here \o there \in Seq(Nat) /\ Len(here \o there) = Len(here) + Len(there)
  BY Concat
<1>2. poll \in Nat /\ overtaken \in Nat
  BY PollsAssumption DEF SerialInv, SerialTypeOK
<1>3. Turn \in Nat
  BY <1>2 DEF Turn
<1> DEFINE due == here \o there
<1>4. \A j \in DOMAIN due : j \in Nat /\ due[j] \in Nat
  <2> HIDE DEF due
  <2>1. due \in Seq(Nat)
    BY <1>1 DEF due
  <2> QED
    BY <2>1, LenProperties, ElementOfSeq
<1> QED
  BY <1>1, <1>2, <1>3, <1>4

\* With a quiet line nothing is left to be read.
LEMMA NothingDue ==
    ASSUME SerialInv, pc \notin Reading, LineIsQuiet,
           NEW here \in Seq(Nat), NEW there \in Seq(Nat), QueueInv(here, there)
    PROVE  Len(here \o there) = 0
<1>1. line = <<>> /\ coming = <<>> /\ ~begun
  BY DEF LineIsQuiet, QueueInv
<1>2. Whole = <<>> /\ Rest = <<>>
  <2>1. Stream = <<>>
    BY <1>1 DEF Stream
  <2>2. Whole = Stream /\ Rest = coming
    BY <1>1, StreamShape DEF SerialInv, Rest
  <2> QED
    BY <1>1, <2>1, <2>2
<1>3. here = <<>> /\ Len(there) = 0
  BY <1>2, ShortQueue DEF QueueInv
<1> QED
  BY <1>3, DueTypes

\* read_once begins: whatever was read before, this poll has nothing yet.  With a
\* quiet line it is as if nothing had ever been left to be read.
LEMMA BeginStep ==
    ASSUME SerialInv, BeginPoll
    PROVE  SerialInv'
<1> USE DEF BeginPoll, Goto, decoderVars, portVars, bridgeVars, Polling, Reading
<1>0. /\ poll \in Nat /\ overtaken \in Nat /\ offset = 0 /\ pending = 0
      /\ pc = "test" /\ pc' = "command"
  BY PollsAssumption DEF SerialInv, SerialTypeOK, StageInv
<1>1. SerialTypeOK'
  BY PollsAssumption DEF SerialInv, SerialTypeOK, DecoderTypeOK, Locations, Residues
<1>2. StageInv' /\ HeaderInv' /\ TakenInv' /\ FilledInv' /\ PendingInv'
  BY <1>0, FrameLengthAssumption DEF SerialInv, StageInv, HeaderInv, TakenInv, FilledInv, PendingInv
<1>3. OnTimeInv'
  BY <1>0 DEF SerialInv, OnTimeInv, InTime, LineIsQuiet
<1>4. SentInStep' = SentInStep /\ \A f : CycleOf(f)' = CycleOf(f)
  BY DEF SentInStep, InStep, CycleOf
<1>5. LateInv'
  <2> SUFFICES ASSUME Queued' PROVE \E here, there \in Seq(Nat) : QueueInv(here, there)'
    BY DEF LateInv
  <2>1. Queued /\ ~LineIsQuiet
    BY DEF Queued
  <2>2. ASSUME NEW here \in Seq(Nat), NEW there \in Seq(Nat), QueueInv(here, there)
        PROVE  QueueInv(here, there)'
    <3>1. Turn' = Turn /\ Whole' = Whole /\ Rest' = Rest /\ overtaken' = overtaken
      BY <1>0, <2>1 DEF Turn, Whole, Rest, Stream
    <3> DEFINE due == here \o there
    <3>2. due \in Seq(Nat) /\ Len(due) \in Nat /\ \A j \in DOMAIN due : j \in Nat /\ due[j] \in Nat
      BY DueTypes
    <3>3. InTurn(due)
      BY <2>2 DEF QueueInv
    <3> HIDE DEF due
    <3>4. InTurn(due)'
      BY <1>0, <1>4, <3>1, <3>2, <3>3 DEF InTurn
    <3> QED
      BY <2>2, <3>1, <3>4 DEF QueueInv, due
  <2> QED
    BY <2>1, <2>2 DEF SerialInv, LateInv
<1>6. SegmentInv' /\ RangesInv'
  BY DEF SerialInv, SegmentInv, RangesInv
<1>7. SentInv'
  BY <1>0, <1>4 DEF SerialInv, SentInv, SentIsWholeAndRecent, IsFrameOf, CycleOf, InStep
<1> QED
  BY <1>1, <1>2, <1>3, <1>5, <1>6, <1>7 DEF SerialInv

\* The frame of this poll comes from the poll that the last response answers.
LEMMA FrameToEmit ==
    ASSUME SerialInv, pc = "emit", pending # 0, InStep(residue)
    PROVE  /\ IsFrameOf(pending, Answered) /\ CycleOf(pending) = Answered
           /\ Answered \in 1..poll /\ Answered + overtaken >= poll
           /\ residue = "none" => Answered = poll
           /\ \A i \in SentInStep : CycleOf(sent[i].frame) < Answered
<1>1. /\ 0 < Answered /\ Answered <= poll
      /\ Answered + overtaken >= poll
      /\ InTime => Answered = poll
      /\ \A i \in SentInStep : CycleOf(sent[i].frame) < Answered
  BY DEF SerialInv, TakenInv
<1>2. Origin = Answered
  BY <1>1 DEF Origin
<1>3. IsFrameOf(pending, Answered) /\ RequiredLength > 0
  BY <1>2 DEF SerialInv, PendingInv, Polling
<1>4. 0 \in 0..(RequiredLength - 1)
  BY <1>3, RequiredLengthAssumption
<1>5. frames[pending][0] = DataByte(0, Answered)
  BY <1>3, <1>4 DEF IsFrameOf
<1>6. CycleOf(pending) = Answered
  BY <1>5 DEF CycleOf, DataByte
<1>7. Answered \in Nat
  <2>1. pending \in 1..Len(frames) /\ frames \in Seq([Positions -> Bytes])
    BY DEF SerialInv, SerialTypeOK, DecoderTypeOK
  <2>2. frames[pending] \in [Positions -> Bytes]
    BY <2>1, ElementOfSeq
  <2>3. frames[pending][0] \in Bytes
    BY <2>2, FrameLengthAssumption DEF Positions
  <2> QED
    BY <1>6, <2>3 DEF CycleOf, Bytes
<1>8. poll \in Nat
  BY PollsAssumption DEF SerialInv, SerialTypeOK
<1> QED
  BY <1>1, <1>3, <1>6, <1>7, <1>8 DEF InTime

\* The payload is sent, or emit raises.
LEMMA SendStep ==
    ASSUME SerialInv, Emit
    PROVE  SerialInv'
<1> USE DEF Emit, Goto, PollOver, decoderVars
<1> DEFINE payload == [frame |-> pending, poll |-> poll, overtaken |-> overtaken, residue |-> residue]
           Payloads == [frame : 1..Len(frames), poll : 0..MaxPolls, overtaken : Nat, residue : Residues]
<1>0. /\ poll \in Nat /\ overtaken \in Nat /\ SerialTypeOK /\ sent \in Seq(Payloads)
      /\ pending \in 0..Len(frames) /\ poll \in 0..MaxPolls /\ residue \in Residues
  BY PollsAssumption DEF SerialInv, SerialTypeOK
<1>1. sent' = sent \/ (pending # 0 /\ sent' = Append(sent, payload))
  OBVIOUS
<1>2. /\ pc = "emit" /\ pc' \in {"wait", "close"} /\ poll' = poll /\ overtaken' = overtaken
      /\ offset' = 0 /\ pending' = 0 /\ response' = <<>> /\ want' = 0
      /\ UNCHANGED <<decoderVars, line, coming, begun, residue, readSize>>
  OBVIOUS
<1>3. payload \in Payloads \/ pending = 0
  BY <1>0
<1> HIDE DEF payload, Payloads
<1>4. ASSUME pending # 0, sent' = Append(sent, payload)
      PROVE  /\ sent' \in Seq(Payloads)
             /\ DOMAIN sent' = DOMAIN sent \cup {Len(sent) + 1}
             /\ \A i \in DOMAIN sent : sent'[i] = sent[i] /\ i \in Nat /\ i < Len(sent) + 1
             /\ sent'[Len(sent) + 1] = payload
  <2>1. /\ sent' \in Seq(Payloads) /\ Len(sent') = Len(sent) + 1
        /\ \A i \in 1..Len(sent) : sent'[i] = sent[i]
        /\ sent'[Len(sent) + 1] = payload
    BY <1>0, <1>3, <1>4, AppendedTo
  <2>2. DOMAIN sent = 1..Len(sent) /\ DOMAIN sent' = 1..(Len(sent) + 1) /\ Len(sent) \in Nat
    BY <1>0, <2>1, LenProperties
  <2> QED
    BY <2>1, <2>2
<1>5. SerialTypeOK'
  <2>1. sent' \in Seq(Payloads)'
    BY <1>0, <1>1, <1>4 DEF Payloads
  <2>2. pending' \in 0..Len(frames')
    <3>1. Len(frames) \in Nat
      BY <1>0, LenProperties DEF SerialTypeOK, DecoderTypeOK
    <3> QED
      BY <1>2, <3>1
  <2> QED
    BY <1>0, <2>1, <2>2, Emptiness DEF SerialTypeOK, DecoderTypeOK, Locations, Payloads
<1>6. StageInv' /\ HeaderInv' /\ OnTimeInv' /\ TakenInv' /\ FilledInv' /\ PendingInv'
  BY <1>2 DEF SerialInv, StageInv, HeaderInv, OnTimeInv, TakenInv, FilledInv, PendingInv, InTime, Polling, Reading
<1>7. SegmentInv' /\ RangesInv'
  BY <1>2 DEF SerialInv, SegmentInv, RangesInv, Polling, Reading
<1>8. /\ \A f, c : IsFrameOf(f, c)' <=> IsFrameOf(f, c)
      /\ \A f : CycleOf(f)' = CycleOf(f)
      /\ \A other : InStep(other)' <=> InStep(other)
  BY DEF IsFrameOf, CycleOf, InStep
<1>9. ASSUME pending # 0, InStep(residue)
      PROVE  /\ IsFrameOf(payload.frame, Answered) /\ CycleOf(payload.frame) = Answered
             /\ payload.frame = pending /\ payload.poll = poll /\ payload.overtaken = overtaken
             /\ Answered \in 1..poll /\ Answered + overtaken >= poll
             /\ payload.residue = "none" => Answered = payload.poll
             /\ \A i \in SentInStep : CycleOf(sent[i].frame) < Answered
  BY <1>2, <1>9, FrameToEmit DEF payload
<1>10. /\ payload.residue = residue
       /\ \A i \in SentInStep' :
            \/ i \in SentInStep /\ sent'[i] = sent[i]
            \/ /\ pending # 0 /\ sent' = Append(sent, payload) /\ InStep(residue)
               /\ i = Len(sent) + 1 /\ sent'[i] = payload
  <2>1. payload.residue = residue
    BY DEF payload
  <2>2. ASSUME NEW i \in SentInStep', ~(i \in SentInStep /\ sent'[i] = sent[i])
        PROVE  pending # 0 /\ sent' = Append(sent, payload) /\ InStep(residue)
                 /\ i = Len(sent) + 1 /\ sent'[i] = payload
    <3>1. i \in DOMAIN sent' /\ InStep(sent'[i].residue)
      BY <1>8, <2>2 DEF SentInStep
    <3>2. ~(i \in DOMAIN sent /\ sent'[i] = sent[i])
      BY <2>2, <3>1 DEF SentInStep
    <3> QED
      BY <1>1, <1>4, <2>1, <3>1, <3>2
  <2> QED
    BY <2>1, <2>2
<1>11. LateInv'
  <2>1. ASSUME Queued, NEW here \in Seq(Nat), NEW there \in Seq(Nat), QueueInv(here, there)
        PROVE  QueueInv(here, there)'
    <3>1. Turn' = Turn /\ Whole' = Whole /\ Rest' = Rest
      BY <1>2 DEF Turn, Whole, Rest, Stream, Reading
    <3> DEFINE due == here \o there
    <3>0. /\ Len(due) \in Nat /\ \A j \in DOMAIN due : j \in Nat /\ due[j] \in Nat
          /\ InTurn(due)
      BY <2>1, DueTypes DEF QueueInv
    <3> HIDE DEF due
    <3>2. /\ Len(due) <= overtaken
          /\ \A j \in DOMAIN due :
               /\ due[j] + overtaken >= Turn + j - 1
               /\ 0 < due[j] /\ due[j] <= poll
               /\ Answered < due[j]
               /\ \A i \in SentInStep : CycleOf(sent[i].frame) < due[j]
          /\ \A i, j \in DOMAIN due : i < j => due[i] < due[j]
      BY <1>0, <1>2, <3>0 DEF InTurn, Reading
    <3>3. ASSUME NEW j \in DOMAIN due, NEW i \in SentInStep'
          PROVE  CycleOf(sent'[i].frame) < due[j]
      BY <1>9, <1>10, <3>2, <3>3
    <3>4. InTurn(due)'
      BY <1>0, <1>2, <1>8, <3>1, <3>2, <3>3 DEF InTurn, Reading
    <3> QED
      BY <1>2, <2>1, <3>1, <3>4 DEF QueueInv, due
  <2>2. Queued' <=> Queued
    BY <1>2 DEF Queued
  <2> QED
    BY <2>1, <2>2 DEF SerialInv, LateInv
<1>12. SentIsWholeAndRecent'
  <2>1. /\ \A i \in SentInStep :
             \E c \in 1..sent[i].poll :
                 /\ c + sent[i].overtaken >= sent[i].poll
                 /\ IsFrameOf(sent[i].frame, c)
                 /\ sent[i].residue = "none" => c = sent[i].poll
        /\ \A i, j \in SentInStep : i < j => CycleOf(sent[i].frame) < CycleOf(sent[j].frame)
    BY DEF SerialInv, SentInv, SentIsWholeAndRecent, SentInStep, CycleOf
  <2>2. ASSUME NEW i \in SentInStep'
        PROVE  \E c \in 1..sent'[i].poll :
                 /\ c + sent'[i].overtaken >= sent'[i].poll
                 /\ IsFrameOf(sent'[i].frame, c)
                 /\ sent'[i].residue = "none" => c = sent'[i].poll
    <3>1. CASE i \in SentInStep /\ sent'[i] = sent[i]
      BY <2>1, <3>1
    <3>2. CASE pending # 0 /\ InStep(residue) /\ sent'[i] = payload
      BY <1>9, <3>2
    <3> QED
      BY <1>10, <2>2, <3>1, <3>2
  <2>3. ASSUME NEW i \in SentInStep', NEW j \in SentInStep', i < j
        PROVE  CycleOf(sent'[i].frame) < CycleOf(sent'[j].frame)
    <3>1. CASE j \in SentInStep /\ sent'[j] = sent[j]
      <4>1. i \in SentInStep /\ sent'[i] = sent[i]
        <5>1. ASSUME i = Len(sent) + 1 PROVE FALSE
          <6>1. j \in 1..Len(sent) /\ Len(sent) \in Nat
            BY <1>0, <3>1, LenProperties DEF SentInStep
          <6> QED
            BY <2>3, <5>1, <6>1
        <5> QED
          BY <1>10, <2>3, <5>1
      <4> QED
        BY <2>1, <2>3, <3>1, <4>1
    <3>2. CASE /\ pending # 0 /\ sent' = Append(sent, payload) /\ InStep(residue)
               /\ j = Len(sent) + 1 /\ sent'[j] = payload
      <4>1. i \in SentInStep /\ sent'[i] = sent[i]
        <5>1. Len(sent) \in Nat
          BY <1>0, LenProperties
        <5>2. i # Len(sent) + 1
          BY <2>3, <3>2, <5>1
        <5> QED
          BY <1>10, <2>3, <5>2
      <4> QED
        BY <1>9, <3>2, <4>1
    <3> QED
      BY <1>10, <2>3, <3>1, <3>2
  <2> QED
    BY <1>8, <2>2, <2>3 DEF SentIsWholeAndRecent, SentInStep, CycleOf
<1>13. SentInv'
  <2>1. ASSUME NEW i \in SentInStep' PROVE CycleOf(sent'[i].frame) <= poll
    <3>1. \A k \in SentInStep : CycleOf(sent[k].frame) <= poll
      <4>1. \A k \in SentInStep : CycleOf(sent[k].frame) <= poll - 1
        BY <1>2 DEF SerialInv, SentInv, Polling
      <4>2. \A k \in SentInStep : CycleOf(sent[k].frame) \in Nat
        BY <1>0, SentTypes DEF SentInStep
      <4> QED
        BY <1>0, <4>1, <4>2
    <3> QED
      BY <1>0, <1>9, <1>10, <2>1, <3>1
  <2> QED
    BY <1>2, <1>8, <1>12, <2>1 DEF SentInv, Polling, Reading
<1> QED
  BY <1>5, <1>6, <1>7, <1>11, <1>12, <1>13 DEF SerialInv

\* Elements at the end.
LEMMA AppendedConcat ==
    ASSUME NEW S, NEW s \in Seq(S), NEW t \in Seq(S), NEW e \in S
    PROVE  s \o Append(t, e) = Append(s \o t, e)
<1>1. <<e>> \in Seq(S) /\ Append(t, e) = t \o <<e>>
  BY AppendIsConcat
<1>2. s \o t \in Seq(S) /\ Append(s \o t, e) = (s \o t) \o <<e>>
  BY AppendIsConcat, Concat
<1> QED
  BY <1>1, <1>2, ConcatAssociative

\* A sequence is its first element and the rest.
LEMMA HeadThenTail ==
    ASSUME NEW S, NEW s \in Seq(S), s # <<>>
    PROVE  /\ <<Head(s)>> \in Seq(S) /\ Tail(s) \in Seq(S)
           /\ <<Head(s)>> \o Tail(s) = s
<1>1. /\ Head(s) \in S /\ Head(s) = s[1] /\ Tail(s) \in Seq(S)
      /\ Len(s) \in Nat /\ Len(s) # 0
  BY HeadTailProperties, EmptySeq, LenProperties
<1>2. /\ Len(Tail(s)) = Len(s) - 1
      /\ \A k \in 1..(Len(s) - 1) : Tail(s)[k] = s[k + 1]
  BY TailOf
<1> DEFINE h == <<Head(s)>>
           t == Tail(s)
<1>3. h \in Seq(S) /\ Len(h) = 1 /\ h[1] = s[1]
  BY <1>1
<1> HIDE DEF h, t
<1>4. /\ h \o t \in Seq(S) /\ Len(h \o t) = Len(h) + Len(t)
      /\ \A k \in 1..Len(h) : (h \o t)[k] = h[k]
      /\ \A k \in 1..Len(t) : (h \o t)[Len(h) + k] = t[k]
  <2>1. t \in Seq(S)
    BY <1>1 DEF t
  <2>2. h \in Seq(S)
    BY <1>3
  <2> QED
    BY <2>1, <2>2, Concat
<1>5. Len(h \o t) = Len(s)
  BY <1>1, <1>2, <1>3, <1>4 DEF t
<1>6. ASSUME NEW i \in 1..Len(s) PROVE (h \o t)[i] = s[i]
  <2>1. CASE i = 1
    BY <1>3, <1>4, <2>1
  <2>2. CASE i # 1
    <3> DEFINE k == i - 1
    <3>1. k \in 1..(Len(s) - 1) /\ i = 1 + k /\ i = k + 1
      BY <1>1, <1>6, <2>2
    <3> HIDE DEF k
    <3>2. (h \o t)[1 + k] = t[k] /\ t[k] = s[k + 1]
      BY <1>2, <1>3, <1>4, <3>1 DEF t
    <3> QED
      BY <3>1, <3>2
  <2> QED
    BY <2>1, <2>2
<1>7. h \o t = s
  BY <1>4, <1>5, <1>6, SeqEqual
<1> QED
  BY <1>1, <1>3, <1>7 DEF h, t

\* An element in front of a sequence.
LEMMA PutFirst ==
    ASSUME NEW S, NEW e \in S, NEW t \in Seq(S)
    PROVE  <<e>> \o t # <<>> /\ Head(<<e>> \o t) = e /\ Tail(<<e>> \o t) = t
<1> DEFINE s == <<e>> \o t
<1>1. <<e>> \in Seq(S) /\ Len(<<e>>) = 1 /\ <<e>>[1] = e /\ Len(t) \in Nat
  BY LenProperties
<1>2. /\ s \in Seq(S) /\ Len(s) = 1 + Len(t) /\ s[1] = e
      /\ \A k \in 1..Len(t) : s[1 + k] = t[k]
  <2>1. /\ s \in Seq(S) /\ Len(s) = Len(<<e>>) + Len(t)
        /\ \A k \in 1..Len(<<e>>) : s[k] = <<e>>[k]
        /\ \A k \in 1..Len(t) : s[Len(<<e>>) + k] = t[k]
    BY <1>1, Concat
  <2> QED
    BY <1>1, <2>1
<1> HIDE DEF s
<1>3. s # <<>>
  BY <1>1, <1>2
<1>4. /\ Head(s) = e /\ Tail(s) \in Seq(S) /\ Len(Tail(s)) = Len(t)
      /\ \A k \in 1..Len(t) : Tail(s)[k] = t[k]
  <2>1. /\ Tail(s) \in Seq(S) /\ Len(Tail(s)) = Len(s) - 1
        /\ \A k \in 1..(Len(s) - 1) : Tail(s)[k] = s[k + 1]
    BY <1>2, <1>3, TailOf
  <2>2. Head(s) = s[1]
    BY <1>2, <1>3, HeadTailProperties
  <2>3. \A k \in 1..Len(t) : k + 1 = 1 + k
    BY <1>1
  <2> QED
    BY <1>1, <1>2, <2>1, <2>2, <2>3
<1>5. Tail(s) = t
  BY <1>4, SeqEqual
<1> QED
  BY <1>3, <1>4, <1>5 DEF s

\* A command changes nothing of the decoder but the segment, and the block, when
\* the read is the first of its poll.
LEMMA ReadBegins ==
    ASSUME SerialInv, pc = "command", Command(offset, Count), pc' \in {"header", "wait"},
           UNCHANGED <<readSize, sent, poll, residue>>,
           pc' = "header" => UNCHANGED <<offset, pending>>
    PROVE  /\ DecoderTypeOK' /\ RangesInv' /\ frames' = frames
           /\ InTime' = InTime /\ Queued' = Queued /\ SentInStep' = SentInStep
           /\ InStep(residue)' = InStep(residue)
           /\ Count \in Nat /\ (pc' = "header" => Count' = Count)
           /\ SegmentInv' /\ FilledInv' /\ SentInv'
           /\ pc' = "header" => PendingInv'
           /\ \A f : CycleOf(f)' = CycleOf(f)
<1>0. /\ DecoderTypeOK /\ RangesInv /\ readSize \in ReadSizes /\ offset \in Nat /\ offset < FrameLength
      /\ segment.open => segment.data = <<>>
  BY DEF SerialInv, SerialTypeOK, SegmentInv, StageInv, Polling, Reading
<1>1. /\ Count \in Nat /\ (pc' = "header" => Count' = Count)
      /\ InTime' = InTime /\ Queued' = Queued /\ SentInStep' = SentInStep
      /\ InStep(residue)' = InStep(residue)
  BY <1>0, CountFits DEF Count, InTime, Queued, SentInStep, InStep
<1>2. /\ frames' = frames /\ segment' = NewSegment(offset, Count)
      /\ offset = 0 => block' = Blank /\ ranges' = {} /\ emitted' = FALSE
      /\ offset # 0 => block' = block /\ ranges' = ranges /\ emitted' = emitted
      /\ DecoderTypeOK' /\ RangesInv'
  BY <1>0, <1>1, CommandResult
<1>3. SegmentInv'
  BY <1>0, <1>1, <1>2, SegmentTypes DEF SegmentInv, Reading
<1>4. FilledInv'
  <2>1. InStep(residue) =>
        /\ offset = 0 => pending = 0
        /\ offset > 0 =>
             /\ \A p \in Positions : Covers(ranges, p) <=> p < offset
             /\ \A p \in Positions : p < offset => block[p] = DataByte(p, poll)
             /\ emitted <=> pending # 0
    BY DEF SerialInv, FilledInv, PendingInv, Polling
  <2>2. CASE pc' = "wait"
    BY <1>2, <2>2 DEF FilledInv, Polling, Reading
  <2>3. CASE pc' = "header" /\ InStep(residue)
    <3>1. /\ \A p \in Positions : Covers(ranges', p) <=> p < offset
          /\ \A p \in Positions : p < offset => block'[p] = DataByte(p, poll)
          /\ emitted' <=> pending' # 0
      <4>1. CASE offset = 0
        <5>1. \A p \in Positions : p \in Nat /\ ~(p < 0) /\ ~Covers({}, p)
          BY FrameLengthAssumption DEF Positions, Covers
        <5> QED
          BY <1>2, <2>1, <2>3, <4>1, <5>1
      <4>2. CASE offset # 0
        BY <1>0, <1>2, <2>1, <2>3, <4>2
      <4> QED
        BY <4>1, <4>2
    <3> QED
      BY <1>0, <1>1, <1>2, <2>1, <2>3, <3>1 DEF FilledInv, Polling, Reading
  <2>4. CASE ~InStep(residue)
    BY <1>1, <2>4 DEF FilledInv
  <2> QED
    BY <2>2, <2>3, <2>4
<1>5. ASSUME pc' = "header" PROVE PendingInv'
  <2>1. InStep(residue) /\ pending # 0 => RequiredLength > 0 /\ ~Queued /\ IsFrameOf(pending, Origin)
    BY DEF SerialInv, PendingInv, Polling
  <2>2. InStep(residue) /\ ~Queued => Origin' = Origin
    BY <1>1, Regimes DEF Origin
  <2> QED
    BY <1>1, <1>2, <1>5, <2>1, <2>2 DEF PendingInv, IsFrameOf, Polling, Reading
<1>6. SentInv'
  <2>1. /\ SentIsWholeAndRecent
        /\ \A i \in SentInStep : CycleOf(sent[i].frame) <= poll - 1
    BY DEF SerialInv, SentInv, Polling
  <2>2. SentIsWholeAndRecent'
    BY <1>2, <2>1 DEF SentIsWholeAndRecent, IsFrameOf, InStep
  <2>3. \A i \in SentInStep : CycleOf(sent[i].frame) \in Nat /\ CycleOf(sent[i].frame)' = CycleOf(sent[i].frame)
    BY <1>2, SentTypes DEF SerialInv, CycleOf, SentInStep
  <2>4. poll \in Nat
    BY PollsAssumption DEF SerialInv, SerialTypeOK
  <2> QED
    BY <1>1, <2>1, <2>2, <2>3, <2>4 DEF SentInv
<1> QED
  BY <1>1, <1>2, <1>3, <1>4, <1>5, <1>6 DEF CycleOf

\* The request is written: the ECU sends an answer, a refusal or nothing.
LEMMA SendCommandStep ==
    ASSUME SerialInv, SendCommand
    PROVE  SerialInv'
<1>0. /\ pc = "command" /\ pc' = "header" /\ Command(offset, Count) /\ want' = 2 /\ response' = <<>>
      /\ UNCHANGED <<readSize, line, begun, offset, pending, emitter, stop, running, poll, overtaken, residue, sent>>
  BY DEF SendCommand, Goto, bridgeVars, pollVars
<1>1. PICK r \in Reactions : coming' = coming \o r
  BY DEF SendCommand
<1>2. /\ DecoderTypeOK' /\ RangesInv' /\ frames' = frames
      /\ InTime' = InTime /\ Queued' = Queued /\ SentInStep' = SentInStep
      /\ Count' = Count /\ Count \in Nat
      /\ SegmentInv' /\ FilledInv' /\ PendingInv' /\ SentInv'
  BY <1>0, ReadBegins
<1>3. /\ poll \in Nat /\ poll > 0 /\ overtaken \in Nat /\ offset \in Nat /\ offset < FrameLength
      /\ line \in Seq(Bytes) /\ coming \in Seq(Seq(Bytes)) /\ readSize \in ReadSizes
      /\ Queued => offset = 0 /\ Count = FrameLength
  <2>1. Queued => offset = 0 /\ readSize >= FrameLength
    BY <1>0 DEF SerialInv, StageInv, Polling, Queued
  <2>2. /\ poll \in Nat /\ poll > 0 /\ overtaken \in Nat /\ offset \in Nat /\ offset < FrameLength
        /\ line \in Seq(Bytes) /\ coming \in Seq(Seq(Bytes)) /\ readSize \in ReadSizes
    BY <1>0, PollsAssumption DEF SerialInv, SerialTypeOK, StageInv, Polling
  <2> QED
    BY <2>1, <2>2, CountFits
<1>4. /\ r \in Seq(Seq(Bytes))
      /\ r = <<>> \/ \E P \in Responses(offset, Count, poll) : r = <<P>>
  <2>1. r = <<>> \/ \E P \in Responses(offset, Count, poll) : r = <<P>>
    BY <1>1 DEF Reactions, Responses
  <2>2. ASSUME NEW P \in Responses(offset, Count, poll) PROVE <<P>> \in Seq(Seq(Bytes))
    <3>1. P \in Seq(Bytes)
      BY <1>2, <1>3, ResponseShape
    <3> QED
      BY <3>1
  <2> QED
    BY <2>1, <2>2, Emptiness
<1>5. coming' \in Seq(Seq(Bytes))
  BY <1>1, <1>3, <1>4, Concat
<1>6. SerialTypeOK'
  BY <1>0, <1>2, <1>5, Emptiness DEF SerialInv, SerialTypeOK, Locations
<1>7. StageInv' /\ HeaderInv' /\ TakenInv'
  BY <1>0, <1>3 DEF SerialInv, StageInv, HeaderInv, TakenInv, Polling, Reading
<1>8. Stream' = line
  BY <1>0, <1>3, EmptyConcat DEF Stream, Reading
<1>9. OnTimeInv'
  <2> SUFFICES ASSUME InTime
               PROVE  /\ Len(coming') <= 1
                      /\ \A j \in DOMAIN coming' : coming'[j] # <<>>
                      /\ coming' # <<>> =>
                           Stream' = <<>> /\ Head(coming') \in Responses(offset, Count, poll)
                      /\ \E P \in Responses(offset, Count, poll) :
                           Begins(Stream' \o (IF coming' = <<>> THEN <<>> ELSE Head(coming')), P)
    BY <1>0, <1>2 DEF OnTimeInv, Reading
  <2>1. line = <<>> /\ coming = <<>>
    BY <1>0 DEF SerialInv, OnTimeInv, Reading
  <2>2. coming' = r /\ Stream' = <<>>
    BY <1>1, <1>4, <1>8, <2>1, EmptyConcat
  <2>3. CASE r = <<>>
    <3>1. <<>> \o <<>> = <<>> /\ Len(<<>>) = 0
      BY EmptyConcat, Emptiness
    <3>2. Answer(offset, Count, poll) \in Responses(offset, Count, poll) /\ Len(Answer(offset, Count, poll)) = Count + 7
      BY <1>2, <1>3, AnswerShape DEF Responses
    <3>3. Begins(<<>>, Answer(offset, Count, poll))
      BY <1>2, <3>1, <3>2 DEF Begins
    <3> QED
      BY <2>2, <2>3, <3>1, <3>2, <3>3
  <2>4. ASSUME NEW P \in Responses(offset, Count, poll), r = <<P>>
        PROVE  /\ Len(coming') <= 1
               /\ \A j \in DOMAIN coming' : coming'[j] # <<>>
               /\ Stream' = <<>> /\ Head(coming') \in Responses(offset, Count, poll)
               /\ Begins(Stream' \o (IF coming' = <<>> THEN <<>> ELSE Head(coming')), P)
    <3>1. P \in Seq(Bytes) /\ Len(P) = P[2].at + 6 /\ P[2].at \in Nat
      BY <1>2, <1>3, ResponseShape
    <3>2. P # <<>> /\ Len(P) \in Nat
      BY <3>1
    <3>3. <<>> \o P = P
      BY <3>1, EmptyConcat
    <3>4. coming' # <<>> /\ Head(coming') = P /\ Len(coming') = 1 /\ \A j \in DOMAIN coming' : coming'[j] = P
      BY <2>2, <2>4
    <3>5. Begins(P, P)
      BY <3>2 DEF Begins
    <3> QED
      BY <2>2, <3>2, <3>3, <3>4, <3>5
  <2> QED
    BY <1>4, <2>3, <2>4
<1>10. LateInv'
  <2> SUFFICES ASSUME Queued
               PROVE  \E here, there \in Seq(Nat) : QueueInv(here, there)'
    BY <1>2 DEF LateInv
  <2>1. PICK here \in Seq(Nat), there \in Seq(Nat) : QueueInv(here, there)
    BY DEF SerialInv, LateInv
  <2> DEFINE due == here \o there
  <2>2. /\ due \in Seq(Nat) /\ Len(due) = Len(here) + Len(there) /\ Len(due) \in Nat
        /\ \A j \in DOMAIN due : j \in Nat /\ due[j] \in Nat
        /\ DOMAIN due = 1..Len(due)
    BY DueTypes, LenProperties
  <2>3. InTurn(due) /\ IsQueue(Whole, here) /\ Len(there) = Len(Rest)
        /\ (\A j \in DOMAIN there : Rest[j] \in Responses(0, FrameLength, there[j]))
        /\ (begun => coming # <<>>)
    BY <2>1 DEF QueueInv
  <2>8. /\ Rest \in Seq(Seq(Bytes)) /\ Rest' = Rest \o r
        /\ begun => coming' # <<>> /\ Head(coming') = Head(coming)
    <3>1. CASE ~begun
      BY <1>0, <1>1, <1>3, <3>1 DEF Rest
    <3>2. CASE begun
      <4> DEFINE h == Head(coming)
                 t == Tail(coming)
      <4>1. h \in Seq(Bytes) /\ t \in Seq(Seq(Bytes)) /\ <<h>> \in Seq(Seq(Bytes)) /\ coming = <<h>> \o t
        BY <1>3, <2>3, <3>2, HeadThenTail, HeadTailProperties
      <4> HIDE DEF h, t
      <4>2. coming' = <<h>> \o (t \o r) /\ t \o r \in Seq(Seq(Bytes))
        BY <1>1, <1>4, <4>1, ConcatAssociative, Concat
      <4>3. coming' # <<>> /\ Head(coming') = h /\ Tail(coming') = t \o r
        BY <4>1, <4>2, PutFirst
      <4> QED
        BY <1>0, <3>2, <4>1, <4>3 DEF Rest, h, t
    <3> QED
      BY <1>3, <3>1, <3>2
  <2>9. Whole' = Whole
    <3>1. Stream = line
      BY <1>0 DEF Stream, Reading
    <3> QED
      BY <1>0, <1>8, <2>8, <3>1 DEF Whole
  <2> HIDE DEF due
  <2>4. /\ Len(due) <= overtaken
        /\ \A j \in DOMAIN due :
             /\ due[j] + overtaken >= poll + j - 1
             /\ 0 < due[j] /\ due[j] <= poll - 1
             /\ \A i \in SentInStep : CycleOf(sent[i].frame) < due[j]
        /\ \A i, j \in DOMAIN due : i < j => due[i] < due[j]
    BY <1>0, <1>3, <2>2, <2>3 DEF InTurn, Turn, Reading
  <2>5. \A f : CycleOf(f)' = CycleOf(f)
    BY <1>2 DEF CycleOf
  <2>6. CASE r = <<>>
    <3>1. Rest' = Rest
      BY <2>6, <2>8, ConcatEmptySeq
    <3>2. InTurn(due)'
      <4>1. Len(due) <= overtaken + 1 /\ \A j \in DOMAIN due : due[j] <= poll
        BY <1>3, <2>2, <2>4
      <4> QED
        BY <1>0, <1>2, <2>4, <2>5, <4>1 DEF InTurn, Turn, Reading
    <3> QED
      BY <1>0, <2>3, <2>8, <2>9, <3>1, <3>2 DEF QueueInv, due
  <2>7. ASSUME NEW P \in Responses(offset, Count, poll), r = <<P>>
        PROVE  \E t \in Seq(Nat) : QueueInv(here, t)'
    <3>0. PICK there2 : there2 = Append(there, poll)
      OBVIOUS
    <3>9. PICK due2 : due2 = here \o there2
      OBVIOUS
    <3>1. /\ there2 \in Seq(Nat) /\ Len(there2) = Len(there) + 1
          /\ \A i \in 1..Len(there) : there2[i] = there[i]
          /\ there2[Len(there) + 1] = poll
      BY <1>3, <3>0, AppendedTo
    <3>2. P \in Seq(Bytes) /\ P \in Responses(0, FrameLength, poll)
      BY <1>2, <1>3, <2>7, ResponseShape
    <3>3. /\ Len(Rest') = Len(Rest) + 1
          /\ \A i \in 1..Len(Rest) : Rest'[i] = Rest[i]
          /\ Rest'[Len(Rest) + 1] = P
      <4>1. <<P>> \in Seq(Seq(Bytes)) /\ Len(<<P>>) = 1 /\ <<P>>[1] = P
        BY <3>2
      <4>2. /\ Len(Rest \o <<P>>) = Len(Rest) + Len(<<P>>)
            /\ \A i \in 1..Len(Rest) : (Rest \o <<P>>)[i] = Rest[i]
            /\ \A i \in 1..Len(<<P>>) : (Rest \o <<P>>)[Len(Rest) + i] = <<P>>[i]
        BY <2>8, <4>1, Concat
      <4>3. Rest' = Rest \o <<P>>
        BY <2>7, <2>8
      <4>4. (Rest \o <<P>>)[Len(Rest) + 1] = P
        BY <4>1, <4>2
      <4> QED
        BY <4>1, <4>2, <4>3, <4>4
    <3>4. Len(there2) = Len(Rest')
      BY <2>3, <3>1, <3>3
    <3>5. \A j \in DOMAIN there2 : Rest'[j] \in Responses(0, FrameLength, there2[j])
      <4>1. /\ DOMAIN there2 = 1..(Len(there) + 1) /\ DOMAIN there = 1..Len(there) /\ Len(there) \in Nat
            /\ Len(there) = Len(Rest)
        BY <2>3, <3>1, LenProperties
      <4>2. ASSUME NEW j \in 1..Len(there) PROVE Rest'[j] \in Responses(0, FrameLength, there2[j])
        BY <2>3, <3>1, <3>3, <4>1, <4>2
      <4>3. Rest'[Len(there) + 1] \in Responses(0, FrameLength, there2[Len(there) + 1])
        BY <3>1, <3>2, <3>3, <4>1
      <4>4. \A j \in 1..(Len(there) + 1) : j \in 1..Len(there) \/ j = Len(there) + 1
        BY <4>1
      <4> QED
        BY <4>1, <4>2, <4>3, <4>4
    <3>6. /\ due2 \in Seq(Nat) /\ Len(due2) = Len(due) + 1
          /\ \A i \in DOMAIN due : due2[i] = due[i]
          /\ due2[Len(due) + 1] = poll
          /\ DOMAIN due2 = 1..(Len(due) + 1)
      <4>1. due2 = Append(due, poll)
        BY <1>3, <3>0, <3>9, AppendedConcat DEF due
      <4>2. /\ due2 \in Seq(Nat) /\ Len(due2) = Len(due) + 1
            /\ \A i \in 1..Len(due) : due2[i] = due[i]
            /\ due2[Len(due) + 1] = poll
        <5>1. due \in Seq(Nat) /\ poll \in Nat
          BY <1>3, <2>2
        <5> QED
          BY <4>1, <5>1, AppendedTo
      <4>3. DOMAIN due2 = 1..(Len(due) + 1)
        BY <2>2, <4>2, LenProperties
      <4>4. \A i \in DOMAIN due : due2[i] = due[i]
        BY <2>2, <4>2
      <4> QED
        BY <4>2, <4>3, <4>4
    <3>10. \A j \in DOMAIN due2 :
              j \in Nat /\ ((j \in DOMAIN due /\ j < Len(due) + 1) \/ j = Len(due) + 1)
      <4>1. \A j \in 1..(Len(due) + 1) :
              j \in Nat /\ ((j \in 1..Len(due) /\ j < Len(due) + 1) \/ j = Len(due) + 1)
        BY <2>2
      <4> QED
        BY <2>2, <3>6, <4>1
    <3>7. InTurn(due2)'
      <4>1. \A i \in SentInStep : CycleOf(sent[i].frame) \in Nat /\ CycleOf(sent[i].frame) <= poll - 1
        BY <1>0, SentTypes DEF SerialInv, SentInv, Polling, SentInStep
      <4>2. Len(due2) <= overtaken + 1
        BY <1>3, <2>2, <2>4, <3>6
      <4>3. ASSUME NEW j \in DOMAIN due2
            PROVE  /\ due2[j] + overtaken >= poll + j - 1
                   /\ 0 < due2[j] /\ due2[j] <= poll
                   /\ \A i \in SentInStep : CycleOf(sent[i].frame) < due2[j]
        <5>1. CASE j = Len(due) + 1
          BY <1>3, <2>2, <2>4, <3>6, <4>1, <5>1
        <5>2. CASE j # Len(due) + 1
          <6>1. j \in DOMAIN due /\ due2[j] = due[j]
            BY <3>6, <3>10, <4>3, <5>2
          <6>2. /\ due[j] + overtaken >= poll + j - 1
                /\ 0 < due[j] /\ due[j] <= poll - 1 /\ due[j] \in Nat
                /\ \A i \in SentInStep : CycleOf(sent[i].frame) < due[j]
            BY <2>2, <2>4, <6>1
          <6> QED
            BY <1>3, <6>1, <6>2
        <5> QED
          BY <5>1, <5>2
      <4>4. ASSUME NEW i \in DOMAIN due2, NEW j \in DOMAIN due2, i < j
            PROVE  due2[i] < due2[j]
        <5>1. i \in DOMAIN due /\ due2[i] = due[i] /\ due[i] \in Nat /\ due[i] <= poll - 1
          <6>1. i # Len(due) + 1
            BY <2>2, <3>10, <4>4
          <6>2. i \in DOMAIN due
            BY <3>10, <4>4, <6>1
          <6> QED
            BY <2>2, <2>4, <3>6, <6>2
        <5>2. CASE j \in DOMAIN due
          BY <2>4, <3>6, <4>4, <5>1, <5>2
        <5>3. CASE j = Len(due) + 1
          BY <1>3, <3>6, <5>1, <5>3
        <5> QED
          BY <3>10, <4>4, <5>2, <5>3
      <4> QED
        BY <1>0, <1>2, <1>3, <2>2, <2>5, <3>6, <4>2, <4>3, <4>4 DEF InTurn, Turn, Reading
    <3> QED
      BY <1>0, <2>3, <2>8, <2>9, <3>1, <3>4, <3>5, <3>7, <3>9 DEF QueueInv
  <2> QED
    BY <1>4, <2>6, <2>7
<1> QED
  BY <1>2, <1>6, <1>7, <1>9, <1>10 DEF SerialInv

\* The ECU does not get the request, what it sent before stays to be read.
LEMMA WriteFailsStep ==
    ASSUME SerialInv, WriteFails
    PROVE  SerialInv'
<1>0. /\ pc = "command" /\ pc' = "wait" /\ Command(offset, Count)
      /\ offset' = 0 /\ pending' = 0 /\ want' = 0 /\ response' = <<>>
      /\ UNCHANGED <<readSize, line, coming, begun, emitter, stop, running, poll, residue, sent>>
      /\ overtaken' = IF LineIsQuiet THEN overtaken ELSE overtaken + 1
  BY DEF WriteFails, DropPoll, Goto, PollOver
<1>1. /\ DecoderTypeOK' /\ RangesInv' /\ frames' = frames
      /\ InTime' = InTime /\ Queued' = Queued /\ SentInStep' = SentInStep
      /\ SegmentInv' /\ FilledInv' /\ SentInv'
      /\ \A f : CycleOf(f)' = CycleOf(f)
  BY <1>0, ReadBegins
<1>2. poll \in Nat /\ overtaken \in Nat /\ overtaken' \in Nat
  BY <1>0, PollsAssumption DEF SerialInv, SerialTypeOK
<1>3. SerialTypeOK'
  <2>1. pending' \in 0..Len(frames')
    <3>1. Len(frames) \in Nat
      BY LenProperties DEF SerialInv, SerialTypeOK, DecoderTypeOK
    <3> QED
      BY <1>0, <1>1, <3>1
  <2> QED
    BY <1>0, <1>1, <1>2, <2>1, Emptiness DEF SerialInv, SerialTypeOK, Locations
<1>4. StageInv' /\ HeaderInv' /\ TakenInv' /\ PendingInv'
  BY <1>0 DEF StageInv, HeaderInv, TakenInv, PendingInv, Polling, Reading
<1>5. OnTimeInv'
  BY <1>0, <1>1 DEF SerialInv, OnTimeInv, Reading
<1>6. LateInv'
  <2> SUFFICES ASSUME Queued, NEW here \in Seq(Nat), NEW there \in Seq(Nat), QueueInv(here, there)
               PROVE  QueueInv(here, there)'
    BY <1>1 DEF SerialInv, LateInv
  <2> DEFINE due == here \o there
  <2>1. /\ Len(due) \in Nat /\ \A j \in DOMAIN due : j \in Nat /\ due[j] \in Nat
        /\ DOMAIN due = 1..Len(due)
        /\ InTurn(due)
    BY DueTypes, LenProperties DEF QueueInv
  <2>2. Whole' = Whole /\ Rest' = Rest
    BY <1>0 DEF Whole, Rest, Stream, Reading
  <2>3. LineIsQuiet => Len(due) = 0
    BY <1>0, NothingDue DEF Reading
  <2> HIDE DEF due
  <2>4. /\ Len(due) <= overtaken
        /\ \A j \in DOMAIN due :
             /\ due[j] + overtaken >= poll + j - 1
             /\ 0 < due[j] /\ due[j] <= poll - 1
             /\ \A i \in SentInStep : CycleOf(sent[i].frame) < due[j]
        /\ \A i, j \in DOMAIN due : i < j => due[i] < due[j]
    BY <1>0, <1>2, <2>1 DEF InTurn, Turn, Reading
  <2>5. InTurn(due)'
    <3>1. CASE Len(due) = 0
      <4>1. DOMAIN due = {}
        BY <2>1, <3>1
      <4> QED
        BY <1>0, <1>2, <3>1, <4>1 DEF InTurn, Reading
    <3>2. CASE Len(due) # 0
      <4>1. overtaken' = overtaken + 1
        BY <1>0, <2>3, <3>2
      <4>2. \A j \in DOMAIN due : due[j] + overtaken' >= Turn' + j - 1 /\ due[j] <= poll
        BY <1>0, <1>2, <2>1, <2>4, <4>1 DEF Turn, Reading
      <4> QED
        BY <1>0, <1>1, <1>2, <2>1, <2>4, <4>1, <4>2 DEF InTurn, Reading
    <3> QED
      BY <3>1, <3>2
  <2> QED
    BY <1>0, <2>2, <2>5 DEF QueueInv, due
<1> QED
  BY <1>1, <1>3, <1>4, <1>5, <1>6 DEF SerialInv

\* A poll that ends without a payload, whatever is left to be read.
LEMMA PollEnds ==
    ASSUME SerialInv, pc \in Polling, pc' = "wait", PollOver,
           UNCHANGED <<frames, sent, poll, readSize>>
    PROVE  /\ StageInv' /\ HeaderInv' /\ TakenInv' /\ FilledInv' /\ PendingInv' /\ SentInv'
           /\ SentInStep' = SentInStep /\ \A f : CycleOf(f)' = CycleOf(f)
           /\ offset' = 0 /\ want' = 0 /\ response' \in Seq(Bytes) /\ pending' \in 0..Len(frames')
<1> USE DEF PollOver
<1>1. StageInv' /\ HeaderInv' /\ TakenInv' /\ FilledInv' /\ PendingInv'
  BY DEF StageInv, HeaderInv, TakenInv, FilledInv, PendingInv, Polling, Reading
<1>2. SentInStep' = SentInStep /\ \A f : CycleOf(f)' = CycleOf(f)
  BY DEF SentInStep, InStep, CycleOf
<1>3. SentInv'
  <2>1. /\ SentIsWholeAndRecent
        /\ \A i \in SentInStep : CycleOf(sent[i].frame) <= poll - 1
    BY DEF SerialInv, SentInv
  <2>2. SentIsWholeAndRecent'
    BY <2>1 DEF SentIsWholeAndRecent, IsFrameOf, InStep
  <2>3. \A i \in SentInStep : CycleOf(sent[i].frame) \in Nat
    BY SentTypes DEF SerialInv, SentInStep
  <2>4. poll \in Nat
    BY PollsAssumption DEF SerialInv, SerialTypeOK
  <2> QED
    BY <1>2, <2>1, <2>2, <2>3, <2>4 DEF SentInv, Polling, Reading
<1>4. response' \in Seq(Bytes) /\ pending' \in 0..Len(frames')
  <2>1. Len(frames) \in Nat
    BY LenProperties DEF SerialInv, SerialTypeOK, DecoderTypeOK
  <2> QED
    BY <2>1, Emptiness
<1> QED
  BY <1>1, <1>2, <1>3, <1>4

------------------------------------------------------------------------------
(* Reading a response *)

\* What _read_exact returns, and what it leaves in the input buffer.
LEMMA Taken ==
    ASSUME SerialTypeOK, TakeWanted, want > 0
    PROVE  /\ Wanted \in Seq(Bytes) /\ Len(Wanted) = want
           /\ response \o Wanted \in Seq(Bytes) /\ line' \in Seq(Bytes)
           /\ Len(response \o Wanted) = Len(response) + want
           /\ Len(response) \in Nat /\ Len(line') \in Nat
           /\ (response \o Wanted) \o line' = response \o line
           /\ \A i \in 1..Len(response) : (response \o Wanted)[i] = response[i]
<1> DEFINE b == SubSeq(line, want + 1, Len(line))
<1>1. /\ response \in Seq(Bytes) /\ line \in Seq(Bytes) /\ want \in 1..Len(line)
      /\ Len(line) \in Nat /\ Len(response) \in Nat
  BY LenProperties DEF SerialTypeOK, TakeWanted
<1>2. Wanted \in Seq(Bytes) /\ b \in Seq(Bytes) /\ Wanted \o b = line
  BY <1>1, SplitAt DEF Wanted
<1>3. Len(Wanted) = want
  <2>1. 0 \in Nat /\ want \in Nat /\ 0 + want <= Len(line) /\ 0 + 1 = 1 /\ 0 + want = want
    BY <1>1
  <2>2. Len(SubSeq(line, 0 + 1, 0 + want)) = want
    BY <1>1, <2>1, Slice
  <2> QED
    BY <2>1, <2>2 DEF Wanted
<1>4. line' = b
  BY DEF TakeWanted
<1> HIDE DEF b
<1>5. /\ response \o Wanted \in Seq(Bytes) /\ Len(response \o Wanted) = Len(response) + Len(Wanted)
      /\ \A i \in 1..Len(response) : (response \o Wanted)[i] = response[i]
  BY <1>1, <1>2, Concat
<1>6. (response \o Wanted) \o b = response \o line
  <2>1. response \in Seq(Bytes) /\ Wanted \in Seq(Bytes) /\ b \in Seq(Bytes)
    BY <1>1, <1>2
  <2>2. (response \o Wanted) \o b = response \o (Wanted \o b)
    BY <2>1, ConcatAssociative
  <2> QED
    BY <1>2, <2>2
<1> QED
  BY <1>1, <1>2, <1>3, <1>4, <1>5, <1>6, LenProperties

\* Two ways to take a sequence apart at the same place are the same.
LEMMA SameParts ==
    ASSUME NEW S, NEW s \in Seq(S), NEW t \in Seq(S), NEW u \in Seq(S), NEW v \in Seq(S),
           s \o t = u \o v, Len(s) = Len(u)
    PROVE  s = u /\ t = v
<1> DEFINE Parts(a, b) ==
             /\ Len(a \o b) = Len(a) + Len(b)
             /\ \A k \in 1..Len(a) : (a \o b)[k] = a[k]
             /\ \A k \in 1..Len(b) : (a \o b)[Len(a) + k] = b[k]
<1>0. \A a \in Seq(S), b \in Seq(S) : Parts(a, b)
  BY Concat
<1>1. Parts(s, t) /\ Parts(u, v)
  BY <1>0
<1>2. Len(s) \in Nat /\ Len(t) \in Nat /\ Len(u) \in Nat /\ Len(v) \in Nat
  BY LenProperties
<1>3. Len(t) = Len(v)
  BY <1>1, <1>2
<1>4. \A k \in 1..Len(s) : s[k] = u[k]
  BY <1>1
<1>5. \A k \in 1..Len(t) : t[k] = v[k]
  BY <1>1, <1>3
<1> QED
  BY <1>3, <1>4, <1>5, SeqEqual

\* In step, what is taken and what waits in the input buffer begins like a response
\* to the read in progress, of this poll or of an earlier one; where responses were
\* left to be read, all of it is in the input buffer or arriving.
LEMMA ReadsResponse ==
    ASSUME SerialInv, pc \in Reading, InStep(residue), Len(Stream) >= 2
    PROVE  \E c \in Nat : \E P \in Responses(offset, Count, c) :
             /\ P \in Seq(Bytes)
             /\ \A i \in 1..Len(Stream) : i <= Len(P) => Stream[i] = P[i]
             /\ Queued => Len(P) <= Len(Whole)
<1>0. /\ poll \in Nat /\ offset \in Nat /\ offset < FrameLength /\ readSize \in ReadSizes
      /\ response \in Seq(Bytes) /\ line \in Seq(Bytes) /\ coming \in Seq(Seq(Bytes))
      /\ Queued => offset = 0 /\ readSize >= FrameLength
  BY PollsAssumption DEF SerialInv, SerialTypeOK, StageInv, Polling, Reading, Queued
<1>1. Count \in Nat /\ (Queued => offset = 0 /\ Count = FrameLength)
  BY <1>0, CountFits
<1>2. Stream \in Seq(Bytes) /\ Len(Stream) \in Nat
  BY <1>0, Concat, LenProperties DEF Stream
<1>3. CASE Queued
  <2>1. PICK here \in Seq(Nat), there \in Seq(Nat) : QueueInv(here, there)
    BY <1>3 DEF SerialInv, LateInv
  <2>2. IsQueue(Whole, here) /\ (begun => coming # <<>>)
    BY <2>1 DEF QueueInv
  <2>3. /\ Whole \in Seq(Bytes) /\ Len(Whole) \in Nat /\ Len(Stream) <= Len(Whole)
        /\ \A i \in 1..Len(Stream) : Whole[i] = Stream[i]
    BY <2>2, StreamShape DEF SerialInv
  <2>4. here # <<>>
    <3>1. ASSUME here = <<>> PROVE FALSE
      <4>1. Len(Whole) = 0
        BY <2>2, <3>1, Dequeued DEF QueueBegins
      <4> QED
        BY <1>2, <2>3, <4>1
    <3> QED
      BY <3>1
  <2>5. PICK P \in Responses(0, FrameLength, Head(here)), t \in Seq(Bytes) :
          /\ Len(Whole) = Len(P) + Len(t)
          /\ \A i \in 1..Len(P) : Whole[i] = P[i]
    BY <2>2, <2>4, FirstResponse
  <2>6. Head(here) \in Nat
    BY <2>4, HeadTailProperties
  <2>7. P \in Seq(Bytes) /\ P \in Responses(offset, Count, Head(here))
    BY <1>1, <1>3, <2>5, <2>6, ResponseShape, FrameLengthAssumption
  <2>8. Len(P) \in Nat /\ Len(t) \in Nat
    BY <2>7, LenProperties
  <2>9. \A i \in 1..Len(Stream) : i <= Len(P) => Stream[i] = P[i]
    BY <1>2, <2>3, <2>5, <2>8
  <2>10. Len(P) <= Len(Whole)
    BY <2>5, <2>8
  <2> QED
    BY <2>6, <2>7, <2>9, <2>10
<1>4. CASE InTime
  <2> DEFINE more == IF coming = <<>> THEN <<>> ELSE Head(coming)
  <2>1. more \in Seq(Bytes)
    BY <1>0, Emptiness, HeadTailProperties
  <2>2. PICK P \in Responses(offset, Count, poll) : Begins(Stream \o more, P)
    BY <1>4 DEF SerialInv, OnTimeInv
  <2> HIDE DEF more
  <2>3. P \in Seq(Bytes)
    BY <1>0, <1>1, <2>2, ResponseShape
  <2>4. /\ Stream \o more \in Seq(Bytes)
        /\ Len(Stream \o more) = Len(Stream) + Len(more) /\ Len(more) \in Nat
        /\ \A i \in 1..Len(Stream) : (Stream \o more)[i] = Stream[i]
    BY <1>2, <2>1, Concat, LenProperties
  <2>5. \A i \in 1..Len(Stream) : Stream[i] = P[i]
    <3>1. \A i \in 1..Len(Stream) : i \in DOMAIN (Stream \o more)
      BY <1>2, <2>4, LenProperties
    <3> QED
      BY <2>2, <2>4, <3>1 DEF Begins
  <2>6. ~Queued
    BY <1>4, Regimes
  <2> QED
    BY <1>0, <2>2, <2>3, <2>5, <2>6
<1> QED
  BY <1>3, <1>4, Regimes

\* A part of a response is taken that is not its last.
LEMMA ReadOn ==
    ASSUME SerialInv, pc \in {"header", "body"}, pc' \in {"body", "crc"},
           TakeWanted, response' = response \o Wanted, want > 0, want' \in Nat, StageInv', HeaderInv',
           UNCHANGED <<decoderVars, coming, begun, bridgeVars, pollVars, readSize>>
    PROVE  SerialInv'
<1> USE DEF decoderVars, bridgeVars, pollVars
<1>0. /\ response' \in Seq(Bytes) /\ line' \in Seq(Bytes)
      /\ response' \o line' = response \o line
  BY Taken DEF SerialInv
<1>1. Stream' = Stream
  BY <1>0 DEF Stream, Reading
<1>2. SerialTypeOK'
  BY <1>0 DEF SerialInv, SerialTypeOK, DecoderTypeOK, Locations
<1>3. /\ InTime' = InTime /\ Queued' = Queued /\ InStep(residue)' = InStep(residue)
      /\ SentInStep' = SentInStep /\ Count' = Count /\ Turn' = Turn
      /\ Whole' = Whole /\ Rest' = Rest
  BY <1>1 DEF InTime, Queued, InStep, SentInStep, Count, Turn, Whole, Rest, Reading
<1>4. OnTimeInv'
  BY <1>1, <1>3 DEF SerialInv, OnTimeInv, Reading
<1>5. LateInv'
  <2>1. ASSUME NEW here \in Seq(Nat), NEW there \in Seq(Nat), QueueInv(here, there)
        PROVE  QueueInv(here, there)'
    <3> DEFINE due == here \o there
    <3>1. InTurn(due)
      BY <2>1 DEF QueueInv
    <3> HIDE DEF due
    <3>2. InTurn(due)'
      BY <1>3, <3>1 DEF InTurn, CycleOf, Reading
    <3> QED
      BY <1>3, <2>1, <3>2 DEF QueueInv, due
  <2> QED
    BY <1>3, <2>1 DEF SerialInv, LateInv
<1>6. TakenInv'
  BY DEF TakenInv
<1>7. SegmentInv' /\ RangesInv'
  BY <1>3 DEF SerialInv, SegmentInv, RangesInv, Reading
<1>8. FilledInv'
  BY <1>3 DEF SerialInv, FilledInv, Polling, Reading
<1>9. PendingInv'
  <2>1. InStep(residue) /\ ~Queued => Origin' = Origin
    BY <1>3, Regimes DEF Origin
  <2> QED
    BY <1>3, <2>1 DEF SerialInv, PendingInv, IsFrameOf, Polling, Reading
<1>10. SentInv'
  BY <1>3 DEF SerialInv, SentInv, SentIsWholeAndRecent, IsFrameOf, CycleOf, InStep, Polling, Reading
<1> QED
  BY <1>2, <1>4, <1>5, <1>6, <1>7, <1>8, <1>9, <1>10 DEF SerialInv

\* The header.  In step it is that of a response, which never declares a length of
\* zero; otherwise it may declare anything.
LEMMA ReadHeaderStep ==
    ASSUME SerialInv, ReadHeader
    PROVE  SerialInv'
<1>0. /\ pc = "header" /\ pc \in Reading /\ TakeWanted /\ want = 2 /\ response = <<>>
      /\ Len(response) = 0 /\ poll > 0
      /\ UNCHANGED <<decoderVars, coming, begun, emitter, stop, running, pollVars>>
  BY DEF ReadHeader, SerialInv, StageInv, Polling, Reading
<1>1. PICK n \in HeaderLengths(Wanted) :
         \/ /\ n > 0
            /\ Goto("header", "body")
            /\ want' = n
            /\ response' = Wanted
            /\ UNCHANGED <<offset, pending>>
         \/ /\ n = 0
            /\ DropPoll("header")
  BY DEF ReadHeader
<1>2. /\ Wanted \in Seq(Bytes) /\ Len(Wanted) = 2 /\ line' \in Seq(Bytes) /\ Len(line') \in Nat
      /\ response \o Wanted = Wanted
      /\ Wanted \o line' = response \o line
  <2>1. /\ Wanted \in Seq(Bytes) /\ Len(Wanted) = 2 /\ line' \in Seq(Bytes) /\ Len(line') \in Nat
        /\ (response \o Wanted) \o line' = response \o line
    BY <1>0, Taken DEF SerialInv
  <2>2. response \o Wanted = Wanted
    BY <1>0, <2>1, EmptyConcat
  <2> QED
    BY <2>1, <2>2
<1>3. Wanted[1] \in Bytes /\ Wanted[2] \in Bytes
  BY <1>2, ElementOfSeq
<1>4. n \in Nat
  BY <1>1, <1>3, PollsAssumption DEF HeaderLengths, Bytes
<1>5. ASSUME InStep(residue) PROVE n > 0 /\ Wanted[2].at = n
  <2>1. /\ Stream = Wanted \o line'
        /\ Len(Stream) = 2 + Len(line') /\ \A i \in 1..2 : Stream[i] = Wanted[i]
    <3>1. Stream = Wanted \o line'
      BY <1>0, <1>2 DEF Stream
    <3>2. /\ Len(Wanted \o line') = Len(Wanted) + Len(line')
          /\ \A i \in 1..Len(Wanted) : (Wanted \o line')[i] = Wanted[i]
      BY <1>2, Concat
    <3> QED
      BY <1>2, <3>1, <3>2
  <2>2. PICK c \in Nat : \E P \in Responses(offset, Count, c) :
          \A i \in 1..Len(Stream) : i <= Len(P) => Stream[i] = P[i]
    <3>1. Len(Stream) >= 2
      BY <1>2, <2>1
    <3> QED
      BY <1>0, <1>5, <3>1, ReadsResponse
  <2>3. PICK P \in Responses(offset, Count, c) :
          \A i \in 1..Len(Stream) : i <= Len(P) => Stream[i] = P[i]
    BY <2>2
  <2>4. offset \in Nat /\ Count \in Nat
    BY <1>0, CountFits DEF SerialInv, SerialTypeOK, StageInv, Polling, Reading
  <2>5. /\ P[1] = Byte("hi", 0)
        /\ P[2].tag = "lo" /\ P[2].at \in Nat /\ P[2].at > 0
        /\ Len(P) = P[2].at + 6
    BY <2>4, ResponseShape
  <2>6. Wanted[1] = P[1] /\ Wanted[2] = P[2]
    <3>1. 1 \in 1..Len(Stream) /\ 2 \in 1..Len(Stream) /\ 1 <= Len(P) /\ 2 <= Len(P)
      <4>1. Len(line') \in Nat /\ Len(Stream) = 2 + Len(line')
        BY <1>2, <2>1
      <4>2. P[2].at \in Nat /\ Len(P) = P[2].at + 6
        BY <2>5
      <4> QED
        BY <4>1, <4>2
    <3>2. Stream[1] = P[1] /\ Stream[2] = P[2]
      BY <2>3, <3>1
    <3>3. Stream[1] = Wanted[1] /\ Stream[2] = Wanted[2]
      BY <2>1
    <3> QED
      BY <3>2, <3>3
  <2>7. HeaderLengths(Wanted) = {P[2].at}
    BY <2>5, <2>6 DEF HeaderLengths, IsKnown, Byte
  <2> QED
    BY <1>1, <2>5, <2>6, <2>7
<1>6. CASE n > 0
  <2>1. /\ pc' = "body" /\ want' = n /\ response' = Wanted
        /\ UNCHANGED <<offset, pending, readSize>>
    BY <1>1, <1>4, <1>6 DEF Goto
  <2>2. StageInv' /\ HeaderInv'
    <3>1. offset < FrameLength /\ (readSize >= FrameLength => offset = 0)
      BY <1>0 DEF SerialInv, StageInv, Polling
    <3>2. InStep(residue)' = InStep(residue)
      BY <1>0, <2>1 DEF InStep, pollVars
    <3> QED
      BY <1>0, <1>2, <1>5, <1>6, <2>1, <3>1, <3>2 DEF StageInv, HeaderInv, Polling, Reading, pollVars
  <2> QED
    BY <1>0, <1>2, <1>4, <2>1, <2>2, ReadOn DEF bridgeVars
<1>7. CASE n = 0
  <2>1. pc' = "wait" /\ PollOver /\ readSize' = readSize
    BY <1>1, <1>7 DEF DropPoll, Goto
  <2>2. /\ StageInv' /\ HeaderInv' /\ TakenInv' /\ FilledInv' /\ PendingInv' /\ SentInv'
        /\ offset' = 0 /\ want' = 0 /\ response' \in Seq(Bytes) /\ pending' \in 0..Len(frames')
    BY <1>0, <2>1, PollEnds DEF Polling, decoderVars, pollVars
  <2>3. SerialTypeOK'
    BY <1>0, <1>2, <2>1, <2>2 DEF SerialInv, SerialTypeOK, DecoderTypeOK, Locations, decoderVars, pollVars
  <2>4. OnTimeInv' /\ LateInv'
    <3>1. ~InStep(residue)
      BY <1>5, <1>7
    <3>2. ~InTime' /\ ~Queued'
      BY <1>0, <2>1, <3>1, Regimes DEF InTime, Queued, pollVars
    <3> QED
      BY <3>2 DEF OnTimeInv, LateInv
  <2>5. SegmentInv' /\ RangesInv'
    BY <1>0, <2>1 DEF SerialInv, SegmentInv, RangesInv, NewSegment, Reading, decoderVars
  <2> QED
    BY <2>2, <2>3, <2>4, <2>5 DEF SerialInv
<1> QED
  BY <1>4, <1>6, <1>7

LEMMA ReadBodyStep ==
    ASSUME SerialInv, ReadBody
    PROVE  SerialInv'
<1>0. /\ pc = "body" /\ pc' = "crc" /\ TakeWanted /\ response' = response \o Wanted /\ want' = 4
      /\ Len(response) = 2 /\ want > 0 /\ want \in Nat /\ poll > 0
      /\ offset < FrameLength /\ (readSize >= FrameLength => offset = 0)
      /\ UNCHANGED <<decoderVars, coming, begun, bridgeVars, pollVars, readSize>>
  BY DEF ReadBody, SerialInv, SerialTypeOK, StageInv, Goto, Polling, Reading
<1>1. Len(response') = 2 + want /\ \A i \in 1..2 : response'[i] = response[i]
  BY <1>0, Taken DEF SerialInv
<1>2. response'[2] = response[2]
  BY <1>1
<1>3. StageInv'
  BY <1>0, <1>1 DEF StageInv, Polling, Reading, pollVars, bridgeVars
<1>4. HeaderInv'
  <2>1. InStep(residue) => response[2].at > 0 /\ want = response[2].at
    BY <1>0 DEF SerialInv, HeaderInv
  <2>2. InStep(residue)' = InStep(residue)
    BY <1>0 DEF InStep, pollVars
  <2>3. InStep(residue) => Len(response') = response'[2].at + 2
    BY <1>0, <1>1, <1>2, <2>1
  <2> QED
    BY <1>0, <1>2, <2>1, <2>2, <2>3 DEF HeaderInv
<1> QED
  BY <1>0, <1>3, <1>4, ReadOn

\* A concatenation without its first element.
LEMMA WithoutFirst ==
    ASSUME NEW S, NEW s \in Seq(S), NEW t \in Seq(S), s # <<>>
    PROVE  /\ Tail(s) \in Seq(S) /\ Tail(s) \o t \in Seq(S)
           /\ Len(s \o t) = Len(Tail(s) \o t) + 1 /\ Len(Tail(s) \o t) \in Nat
           /\ Head(s) = (s \o t)[1]
           /\ \A k \in 1..Len(Tail(s) \o t) : (Tail(s) \o t)[k] = (s \o t)[k + 1]
<1>1. /\ Tail(s) \in Seq(S) /\ Len(Tail(s)) = Len(s) - 1 /\ Len(s) \in Nat /\ Len(s) > 0
      /\ Len(t) \in Nat
      /\ \A k \in 1..(Len(s) - 1) : Tail(s)[k] = s[k + 1]
  <2>1. Len(s) \in Nat /\ Len(t) \in Nat /\ Len(s) # 0
    BY EmptySeq, LenProperties
  <2> QED
    BY <2>1, TailOf
<1>2. Head(s) = s[1]
  BY HeadTailProperties
<1> DEFINE u == Tail(s)
<1>3. u \in Seq(S)
  BY <1>1
<1> DEFINE Parts(a, b) ==
             /\ Len(a \o b) = Len(a) + Len(b)
             /\ a \o b \in Seq(S)
             /\ \A k \in 1..Len(a) : (a \o b)[k] = a[k]
             /\ \A k \in 1..Len(b) : (a \o b)[Len(a) + k] = b[k]
<1>4. \A a \in Seq(S), b \in Seq(S) : Parts(a, b)
  BY Concat
<1>5. Parts(s, t) /\ Parts(u, t)
  BY <1>3, <1>4
<1> HIDE DEF u
<1>6. ASSUME NEW k \in 1..Len(u \o t) PROVE (u \o t)[k] = (s \o t)[k + 1]
  <2>1. CASE k <= Len(u)
    <3>1. (u \o t)[k] = u[k] /\ k \in 1..(Len(s) - 1) /\ k + 1 \in 1..Len(s)
      BY <1>1, <1>5, <1>6, <2>1 DEF u
    <3>2. (s \o t)[k + 1] = s[k + 1] /\ u[k] = s[k + 1]
      BY <1>1, <1>5, <3>1 DEF u
    <3> QED
      BY <3>1, <3>2
  <2>2. CASE k > Len(u)
    <3> DEFINE m == k - Len(u)
    <3>1. m \in 1..Len(t) /\ k = Len(u) + m /\ k + 1 = Len(s) + m
      BY <1>1, <1>5, <1>6, <2>2 DEF u
    <3> HIDE DEF m
    <3>2. (u \o t)[Len(u) + m] = t[m] /\ (s \o t)[Len(s) + m] = t[m]
      BY <1>5, <3>1
    <3> QED
      BY <3>1, <3>2
  <2>3. k <= Len(u) \/ k > Len(u)
    <3>1. k \in Nat /\ Len(u) \in Nat
      BY <1>1, <1>5, <1>6 DEF u
    <3> QED
      BY <3>1
  <2> QED
    BY <2>1, <2>2, <2>3
<1>7. /\ Len(s \o t) = Len(u \o t) + 1 /\ Len(u \o t) \in Nat
      /\ (s \o t)[1] = s[1]
  BY <1>1, <1>5 DEF u
<1> QED
  BY <1>1, <1>2, <1>5, <1>6, <1>7 DEF u

\* The fourth byte of a response: the first of its data, or of its checksum.
LEMMA ResponseCycle ==
    ASSUME NEW o \in Nat, NEW n \in Nat \ {0}, NEW c \in Nat, NEW P \in Responses(o, n, c)
    PROVE  /\ P[4].cyc = IF P = Refusal THEN 0 ELSE c
           /\ P # Refusal => P = Answer(o, n, c)
<1>1. CASE P = Refusal
  <2>1. 3 + 1 = 4 /\ 1 \in 1..4
    OBVIOUS
  <2>2. P[4] = Byte("crc", 0)
    BY <1>1, <2>1, RefusalShape
  <2> QED
    BY <1>1, <2>2 DEF Byte
<1>2. CASE P = Answer(o, n, c) /\ P # Refusal
  <2>1. 3 + 1 = 4 /\ 1 \in 1..n /\ n \in Nat
    OBVIOUS
  <2>2. \A k \in 1..n : Answer(o, n, c)[3 + k] = DataByte(o + k - 1, c)
    BY <2>1, AnswerShape
  <2>3. P[4] = DataByte(o + 1 - 1, c)
    BY <1>2, <2>1, <2>2
  <2> QED
    BY <1>2, <2>3 DEF DataByte
<1> QED
  BY <1>1, <1>2 DEF Responses

\* In step, with the checksum the whole response is taken, and nothing of another.
LEMMA WholeResponse ==
    ASSUME SerialInv, ReadCrc, InStep(residue)
    PROVE  /\ InTime =>
                response' \in Responses(offset, Count, poll) /\ line' = <<>> /\ coming = <<>>
           /\ Queued =>
                \E here, there \in Seq(Nat) :
                    /\ QueueInv(here, there) /\ here # <<>>
                    /\ response' \in Responses(0, FrameLength, Head(here))
                    /\ IsQueue(Whole', Tail(here))
<1>0. /\ pc = "crc" /\ pc' = "answer" /\ pc \in Reading /\ TakeWanted /\ want = 4
      /\ response' = response \o Wanted
      /\ Len(response) >= 2 /\ response[2].at > 0 /\ Len(response) = response[2].at + 2
      /\ response \in Seq(Bytes) /\ poll \in Nat /\ UNCHANGED <<coming, begun>>
  BY PollsAssumption DEF ReadCrc, SerialInv, StageInv, HeaderInv, SerialTypeOK, Goto, Reading
<1>1. /\ response' \in Seq(Bytes) /\ line' \in Seq(Bytes)
      /\ Len(response') = Len(response) + 4
      /\ Len(response) \in Nat
      /\ response' \o line' = response \o line
      /\ \A i \in 1..Len(response) : response'[i] = response[i]
  <2>1. SerialTypeOK /\ want > 0
    BY <1>0 DEF SerialInv
  <2> QED
    BY <1>0, <2>1, Taken
<1> DEFINE n == response[2].at
<1>2. n \in Nat
  <2>1. 2 \in 1..Len(response)
    BY <1>0, <1>1
  <2>2. response[2] \in Bytes
    BY <1>0, <2>1, ElementOfSeq
  <2> QED
    BY <2>2 DEF Bytes
<1>3. Len(response') = n + 6 /\ response'[2].at = n
  <2>1. Len(response) = n + 2 /\ 2 \in 1..Len(response)
    BY <1>0, <1>1
  <2> QED
    BY <1>1, <1>2, <2>1
<1>4. /\ Stream = response' \o line'
      /\ Len(Stream) = n + 6 + Len(line') /\ Len(line') \in Nat
      /\ \A i \in 1..(n + 6) : Stream[i] = response'[i]
  <2>1. Stream = response' \o line'
    BY <1>0, <1>1 DEF Stream
  <2>2. /\ Len(response' \o line') = Len(response') + Len(line') /\ Len(line') \in Nat
        /\ \A i \in 1..Len(response') : (response' \o line')[i] = response'[i]
    BY <1>1, Concat, LenProperties
  <2> QED
    BY <1>3, <2>1, <2>2
<1>5. Stream[2].at = n
  BY <1>2, <1>3, <1>4
<1> HIDE DEF n
<1>6. ASSUME Queued
      PROVE  \E here, there \in Seq(Nat) :
                /\ QueueInv(here, there) /\ here # <<>>
                /\ response' \in Responses(0, FrameLength, Head(here))
                /\ IsQueue(Whole', Tail(here))
  <2>1. PICK here \in Seq(Nat), there \in Seq(Nat) : QueueInv(here, there)
    BY <1>6 DEF SerialInv, LateInv
  <2>2. IsQueue(Whole, here) /\ (begun => coming # <<>>)
    BY <2>1 DEF QueueInv
  <2> DEFINE more == IF begun THEN Head(coming) ELSE <<>>
  <2>3. more \in Seq(Bytes)
    BY <2>2, Emptiness, HeadTailProperties DEF SerialInv, SerialTypeOK
  <2>4. Whole = (response' \o line') \o more /\ Whole' = line' \o more
    BY <1>0, <1>4 DEF Whole, Stream, Reading
  <2> HIDE DEF more
  <2>5. Whole = response' \o (line' \o more) /\ line' \o more \in Seq(Bytes)
    <3>1. response' \in Seq(Bytes) /\ line' \in Seq(Bytes) /\ more \in Seq(Bytes)
      BY <1>1, <2>3
    <3>2. (response' \o line') \o more = response' \o (line' \o more)
      BY <3>1, ConcatAssociative
    <3>3. line' \o more \in Seq(Bytes)
      BY <3>1, Concat
    <3> QED
      BY <2>4, <3>2, <3>3
  <2>6. /\ Len(Whole) >= 2 /\ Whole[2] = Stream[2]
    <3>1. /\ Len(Whole) \in Nat /\ Len(Stream) <= Len(Whole)
          /\ \A i \in 1..Len(Stream) : Whole[i] = Stream[i]
      BY <2>2, StreamShape DEF SerialInv
    <3>2. Len(Stream) \in Nat /\ Len(Stream) >= 2
      BY <1>2, <1>4
    <3> QED
      BY <3>1, <3>2
  <2>7. here # <<>>
    <3>1. ASSUME here = <<>> PROVE FALSE
      <4>1. Len(Whole) = 0
        BY <2>2, <3>1, Dequeued DEF QueueBegins
      <4> QED
        BY <2>6, <4>1
    <3> QED
      BY <3>1
  <2>8. PICK P \in Responses(0, FrameLength, Head(here)), t \in Seq(Bytes) :
          /\ IsQueue(t, Tail(here)) /\ Whole = P \o t
          /\ \A i \in 1..Len(P) : Whole[i] = P[i]
    BY <2>2, <2>7, FirstResponse
  <2>9. P \in Seq(Bytes) /\ Len(P) = P[2].at + 6 /\ P[2].at \in Nat
    <3>1. Head(here) \in Nat
      BY <2>7, HeadTailProperties
    <3> QED
      BY <3>1, ResponseShape, FrameLengthAssumption
  <2>10. Len(P) = Len(response')
    <3>1. Whole[2] = P[2]
      BY <2>8, <2>9
    <3> QED
      BY <1>3, <1>5, <2>6, <2>9, <3>1
  <2>11. P = response' /\ t = line' \o more
    <3>1. P \o t = response' \o (line' \o more)
      BY <2>5, <2>8
    <3> QED
      BY <1>1, <2>5, <2>9, <2>10, <3>1, SameParts
  <2> QED
    BY <2>1, <2>4, <2>7, <2>8, <2>11
<1>7. ASSUME InTime
      PROVE  response' \in Responses(offset, Count, poll) /\ line' = <<>> /\ coming = <<>>
  <2> DEFINE more == IF coming = <<>> THEN <<>> ELSE Head(coming)
  <2>1. more \in Seq(Bytes) /\ (coming # <<>> => more # <<>>)
    <3>1. coming \in Seq(Seq(Bytes)) /\ \A j \in DOMAIN coming : coming[j] # <<>>
      BY <1>0, <1>7 DEF SerialInv, SerialTypeOK, OnTimeInv
    <3>2. ASSUME coming # <<>> PROVE Head(coming) \in Seq(Bytes) /\ Head(coming) # <<>>
      <4>1. Head(coming) = coming[1] /\ Head(coming) \in Seq(Bytes)
        BY <3>1, <3>2, HeadTailProperties
      <4>2. 1 \in DOMAIN coming
        BY <3>1, <3>2, EmptySeq, LenProperties
      <4> QED
        BY <3>1, <4>1, <4>2
    <3> QED
      BY <3>2, Emptiness
  <2>2. PICK P \in Responses(offset, Count, poll) : Begins(Stream \o more, P)
    BY <1>0, <1>7 DEF SerialInv, OnTimeInv
  <2> HIDE DEF more
  <2>3. P \in Seq(Bytes) /\ Len(P) = P[2].at + 6 /\ P[2].at \in Nat
    <3>1. offset \in Nat /\ Count \in Nat
      BY <1>0, CountFits DEF SerialInv, SerialTypeOK, StageInv, Polling, Reading
    <3> QED
      BY <1>0, <3>1, ResponseShape
  <2>4. Stream \in Seq(Bytes)
    BY <1>1, <1>4, Concat
  <2>5. /\ Len(Stream \o more) = Len(Stream) + Len(more) /\ Len(more) \in Nat
        /\ \A i \in 1..Len(Stream) : (Stream \o more)[i] = Stream[i]
        /\ DOMAIN (Stream \o more) = 1..(Len(Stream) + Len(more))
    <3>1. /\ Stream \o more \in Seq(Bytes)
          /\ Len(Stream \o more) = Len(Stream) + Len(more)
          /\ \A i \in 1..Len(Stream) : (Stream \o more)[i] = Stream[i]
      BY <2>1, <2>4, Concat
    <3>2. Len(more) \in Nat
      BY <2>1, LenProperties
    <3>3. DOMAIN (Stream \o more) = 1..Len(Stream \o more)
      BY <3>1, LenProperties
    <3> QED
      BY <3>1, <3>2, <3>3
  <2>6. \A i \in 1..(n + 6) : response'[i] = P[i]
    <3>1. \A i \in 1..(n + 6) : i \in 1..Len(Stream) /\ i \in DOMAIN (Stream \o more)
      BY <1>2, <1>4, <2>5
    <3> QED
      BY <1>4, <2>2, <2>5, <3>1 DEF Begins
  <2>7. P[2].at = n
    BY <1>2, <1>3, <2>6
  <2>8. Len(line') = 0 /\ Len(more) = 0
    BY <1>2, <1>4, <2>2, <2>3, <2>5, <2>7 DEF Begins
  <2>9. line' = <<>> /\ coming = <<>>
    BY <1>1, <2>1, <2>8, EmptySeq
  <2>10. response' = P
    BY <1>1, <1>3, <2>3, <2>6, <2>7, SeqEqual
  <2> QED
    BY <2>9, <2>10
<1> QED
  BY <1>6, <1>7

\* The checksum is read: the response, in step, is the first of
\* those that were due.
LEMMA ReadCrcStep ==
    ASSUME SerialInv, ReadCrc
    PROVE  SerialInv'
<1> USE DEF decoderVars, bridgeVars, pollVars
<1>0. /\ pc = "crc" /\ pc' = "answer" /\ TakeWanted /\ want = 4 /\ response' = response \o Wanted
      /\ UNCHANGED <<decoderVars, want, coming, begun, bridgeVars, pollVars, readSize>>
  BY DEF ReadCrc, SerialInv, StageInv, Goto
<1>1. response' \in Seq(Bytes) /\ line' \in Seq(Bytes)
  BY <1>0, Taken DEF SerialInv
<1>2. SerialTypeOK'
  BY <1>0, <1>1 DEF SerialInv, SerialTypeOK, DecoderTypeOK, Locations
<1>3. /\ InTime' = InTime /\ Queued' = Queued /\ InStep(residue)' = InStep(residue)
      /\ SentInStep' = SentInStep /\ Count' = Count /\ Rest' = Rest
  BY <1>0 DEF InTime, Queued, InStep, SentInStep, Count, Rest
<1>4. /\ poll \in Nat /\ poll > 0 /\ overtaken \in Nat /\ offset \in Nat
      /\ Count \in Nat \ {0} /\ (Queued => offset = 0 /\ Count = FrameLength)
  <2>1. /\ poll \in Nat /\ poll > 0 /\ overtaken \in Nat /\ offset \in Nat /\ offset < FrameLength
        /\ readSize \in ReadSizes
        /\ Queued => offset = 0 /\ readSize >= FrameLength
    BY <1>0, PollsAssumption DEF SerialInv, SerialTypeOK, StageInv, Polling, Reading, Queued
  <2> QED
    BY <2>1, CountFits
<1>5. StageInv' /\ HeaderInv'
  BY <1>0 DEF SerialInv, StageInv, HeaderInv, Polling, Reading
<1>6. ASSUME Queued
      PROVE  \E here, there \in Seq(Nat) :
               /\ QueueInv(here, there)'
               /\ Answered' \in Nat /\ response' \in Responses(offset, Count, Answered')
               /\ response' # Refusal =>
                    /\ 0 < Answered' /\ Answered' <= poll
                    /\ Answered' + overtaken >= poll
                    /\ \A i \in SentInStep : CycleOf(sent[i].frame) < Answered'
  <2>1. PICK here \in Seq(Nat), there \in Seq(Nat) :
          /\ QueueInv(here, there) /\ here # <<>>
          /\ response' \in Responses(0, FrameLength, Head(here))
          /\ IsQueue(Whole', Tail(here))
    BY <1>6, WholeResponse, Regimes
  <2> DEFINE due == here \o there
             rear == Tail(here) \o there
  <2>2. /\ due \in Seq(Nat) /\ Len(due) \in Nat
        /\ \A j \in DOMAIN due : j \in Nat /\ due[j] \in Nat
        /\ DOMAIN due = 1..Len(due)
        /\ InTurn(due)
    BY <2>1, DueTypes, LenProperties DEF QueueInv
  <2>3. /\ Tail(here) \in Seq(Nat) /\ rear \in Seq(Nat)
        /\ Len(due) = Len(rear) + 1 /\ Len(rear) \in Nat
        /\ Head(here) = due[1]
        /\ \A k \in 1..Len(rear) : rear[k] = due[k + 1]
    BY <2>1, WithoutFirst
  <2>4. DOMAIN rear = 1..Len(rear)
    BY <2>3, LenProperties
  <2> HIDE DEF due, rear
  <2>5. \A k \in DOMAIN rear : k \in Nat /\ k + 1 \in DOMAIN due /\ 1 \in DOMAIN due /\ 1 < k + 1 /\ rear[k] = due[k + 1]
    BY <2>2, <2>3, <2>4
  <2>6. /\ Len(due) <= overtaken + 1
        /\ \A j \in DOMAIN due :
             /\ due[j] + overtaken >= poll + j - 1
             /\ 0 < due[j] /\ due[j] <= poll
             /\ \A i \in SentInStep : CycleOf(sent[i].frame) < due[j]
        /\ \A i, j \in DOMAIN due : i < j => due[i] < due[j]
    BY <1>0, <2>2 DEF InTurn, Turn, Reading
  <2>7. Head(here) \in Nat /\ 1 \in DOMAIN due
    BY <2>2, <2>3
  <2>8. /\ Answered' = IF response' = Refusal THEN 0 ELSE due[1]
        /\ response' # Refusal => response' = Answer(0, FrameLength, Head(here))
    <3>1. 0 \in Nat /\ FrameLength \in Nat \ {0}
      BY FrameLengthAssumption
    <3>2. /\ response'[4].cyc = IF response' = Refusal THEN 0 ELSE Head(here)
          /\ response' # Refusal => response' = Answer(0, FrameLength, Head(here))
      BY <2>1, <2>7, <3>1, ResponseCycle
    <3> QED
      BY <2>3, <3>2 DEF Answered
  <2>9. Answered' \in Nat /\ response' \in Responses(offset, Count, Answered')
    BY <1>4, <1>6, <2>3, <2>7, <2>8 DEF Responses
  <2>10. \A k \in DOMAIN rear : Answered' < rear[k]
    BY <2>2, <2>5, <2>6, <2>8
  <2>11. InTurn(rear)'
    <3>1. Len(rear) <= overtaken
      BY <1>4, <2>2, <2>3, <2>6
    <3>2. ASSUME NEW k \in DOMAIN rear
          PROVE  /\ rear[k] + overtaken >= poll + k
                 /\ 0 < rear[k] /\ rear[k] <= poll
                 /\ \A i \in SentInStep : CycleOf(sent[i].frame) < rear[k]
      BY <1>4, <2>2, <2>5, <2>6, <3>2
    <3>3. ASSUME NEW i \in DOMAIN rear, NEW j \in DOMAIN rear, i < j PROVE rear[i] < rear[j]
      BY <2>5, <2>6, <3>3
    <3>4. Turn' = poll + 1 /\ \A f : CycleOf(f)' = CycleOf(f)
      BY <1>0 DEF Turn, CycleOf, Reading
    <3>5. \A k \in DOMAIN rear : rear[k] + overtaken >= (poll + 1) + k - 1
      BY <1>4, <2>2, <2>5, <3>2
    <3> QED
      BY <1>0, <1>3, <1>4, <2>3, <2>10, <3>1, <3>2, <3>3, <3>4, <3>5 DEF InTurn, Reading
  <2>12. QueueInv(Tail(here), there)'
    <3>1. /\ Len(there) = Len(Rest) /\ (begun => coming # <<>>)
          /\ \A j \in DOMAIN there : Rest[j] \in Responses(0, FrameLength, there[j])
      BY <2>1 DEF QueueInv
    <3> QED
      BY <1>0, <1>3, <2>1, <2>11, <3>1 DEF QueueInv, rear
  <2>13. ASSUME response' # Refusal
         PROVE  /\ 0 < Answered' /\ Answered' <= poll
                /\ Answered' + overtaken >= poll
                /\ \A i \in SentInStep : CycleOf(sent[i].frame) < Answered'
    <3>1. Answered' = due[1] /\ due[1] \in Nat
      BY <2>2, <2>7, <2>8, <2>13
    <3> QED
      BY <1>4, <2>6, <2>7, <3>1
  <2> QED
    BY <2>3, <2>9, <2>12, <2>13
<1>7. ASSUME InTime
      PROVE  /\ Answered' \in Nat /\ response' \in Responses(offset, Count, Answered')
             /\ line' = <<>> /\ coming' = <<>>
             /\ response' # Refusal =>
                  /\ Answered' = poll /\ Answered' + overtaken >= poll
                  /\ \A i \in SentInStep : CycleOf(sent[i].frame) < Answered'
  <2>1. response' \in Responses(offset, Count, poll) /\ line' = <<>> /\ coming' = <<>>
    BY <1>0, <1>7, WholeResponse, Regimes
  <2>2. /\ Answered' = IF response' = Refusal THEN 0 ELSE poll
        /\ response' # Refusal => response' = Answer(offset, Count, poll)
    BY <1>4, <2>1, ResponseCycle DEF Answered
  <2>3. \A i \in SentInStep : CycleOf(sent[i].frame) <= poll - 1 /\ CycleOf(sent[i].frame) \in Nat
    BY <1>0, SentTypes DEF SerialInv, SentInv, SentInStep, Polling, Reading
  <2> QED
    BY <1>4, <2>1, <2>2, <2>3 DEF Responses
<1>8. OnTimeInv'
  BY <1>0, <1>3, <1>7 DEF OnTimeInv, Reading
<1>9. LateInv'
  BY <1>3, <1>6 DEF LateInv
<1>10. TakenInv'
  <2> SUFFICES ASSUME InStep(residue)
               PROVE  /\ Answered' \in Nat /\ response' \in Responses(offset, Count, Answered')
                      /\ response' # Refusal =>
                           /\ 0 < Answered' /\ Answered' <= poll
                           /\ Answered' + overtaken >= poll
                           /\ InTime => Answered' = poll
                           /\ \A i \in SentInStep : CycleOf(sent[i].frame) < Answered'
    <3>1. \A f : CycleOf(f)' = CycleOf(f)
      BY <1>0 DEF CycleOf
    <3> QED
      BY <1>0, <1>3, <3>1 DEF TakenInv
  <2>1. CASE Queued
    BY <1>6, <2>1, Regimes
  <2>2. CASE InTime
    BY <1>4, <1>7, <2>2
  <2> QED
    BY <2>1, <2>2, Regimes
<1>11. SegmentInv' /\ RangesInv'
  BY <1>0, <1>3 DEF SerialInv, SegmentInv, RangesInv, Reading
<1>12. FilledInv'
  BY <1>0, <1>3 DEF SerialInv, FilledInv, Polling, Reading
<1>13. PendingInv'
  <2>1. InStep(residue) /\ ~Queued => Origin' = Origin
    BY <1>0, <1>3, Regimes DEF Origin
  <2> QED
    BY <1>0, <1>3, <2>1 DEF SerialInv, PendingInv, IsFrameOf, Polling, Reading
<1>14. SentInv'
  BY <1>0, <1>3 DEF SerialInv, SentInv, SentIsWholeAndRecent, IsFrameOf, CycleOf, InStep, Polling, Reading
<1> QED
  BY <1>2, <1>5, <1>8, <1>9, <1>10, <1>11, <1>12, <1>13, <1>14 DEF SerialInv

------------------------------------------------------------------------------
(* The ends of a poll *)

\* Where whole responses were left to be read and none is still arriving, a read
\* that has its header does not time out: the input buffer holds whole responses.
LEMMA NothingWaits ==
    ASSUME SerialInv, Queued, ~begun, pc \in Reading, Len(line) < want,
           NEW here \in Seq(Nat), NEW there \in Seq(Nat), QueueInv(here, there)
    PROVE  here = <<>>
<1>0. /\ response \in Seq(Bytes) /\ line \in Seq(Bytes) /\ want \in Nat
      /\ Len(response) \in Nat /\ Len(line) \in Nat
  BY LenProperties DEF SerialInv, SerialTypeOK
<1>1. Stream = response \o line /\ IsQueue(Stream, here) /\ InStep(residue)
  BY StreamShape, Regimes DEF SerialInv, QueueInv, Stream
<1>2. CASE pc = "header"
  <2>1. Stream = line /\ Len(line) < 2
    BY <1>0, <1>1, <1>2, EmptyConcat DEF SerialInv, StageInv
  <2> QED
    BY <1>1, <2>1, ShortQueue
<1>3. CASE pc # "header"
  <2>1. /\ Len(response) >= 2 /\ response[2].at > 0
        /\ pc = "body" => Len(response) = 2 /\ want = response[2].at
        /\ pc = "crc" => Len(response) = response[2].at + 2 /\ want = 4
    BY <1>1, <1>3 DEF SerialInv, StageInv, HeaderInv, Reading
  <2>2. /\ Len(Stream) = Len(response) + Len(line)
        /\ \A i \in 1..Len(response) : Stream[i] = response[i]
    BY <1>0, <1>1, Concat
  <2>3. Len(Stream) >= 2
    BY <1>0, <2>1, <2>2
  <2>4. PICK c \in Nat : \E P \in Responses(offset, Count, c) :
             /\ P \in Seq(Bytes)
             /\ \A i \in 1..Len(Stream) : i <= Len(P) => Stream[i] = P[i]
             /\ Len(P) <= Len(Stream)
    BY <1>1, <2>3, ReadsResponse, StreamShape DEF SerialInv
  <2>5. PICK P \in Responses(offset, Count, c) :
             /\ \A i \in 1..Len(Stream) : i <= Len(P) => Stream[i] = P[i]
             /\ Len(P) <= Len(Stream)
    BY <2>4
  <2>6. Len(P) = P[2].at + 6 /\ P[2].at \in Nat
    <3>1. offset \in Nat /\ Count \in Nat
      BY CountFits DEF SerialInv, SerialTypeOK, StageInv, Polling, Reading
    <3> QED
      BY <3>1, ResponseShape
  <2>7. P[2] = response[2]
    <3>1. 2 \in 1..Len(response) /\ 2 \in 1..Len(Stream) /\ 2 <= Len(P)
      BY <1>0, <2>1, <2>2, <2>6
    <3> QED
      BY <2>2, <2>5, <3>1
  <2>8. Len(response) + Len(line) < response[2].at + 6
    <3>1. response[2].at \in Nat
      BY <2>6, <2>7
    <3>2. CASE pc = "body"
      <4>1. Len(response) = 2 /\ want = response[2].at
        BY <2>1, <3>2
      <4> QED
        BY <1>0, <3>1, <4>1
    <3>3. CASE pc = "crc"
      BY <1>0, <2>1, <3>1, <3>3
    <3> QED
      BY <1>3, <3>2, <3>3 DEF Reading
  <2> QED
    BY <1>0, <2>2, <2>5, <2>6, <2>7, <2>8
<1> QED
  BY <1>2, <1>3

\* A read times out: what it has read is dropped, what has not arrived is left to
\* be read, and that is a whole response only if none of it has arrived.
LEMMA TimeoutStep ==
    ASSUME SerialInv, Timeout
    PROVE  SerialInv'
<1>0. /\ pc \in Reading /\ pc' = "wait" /\ PollOver /\ line' = <<>>
      /\ Len(line) < want /\ LeaveRest
      /\ UNCHANGED <<decoderVars, coming, begun, emitter, stop, running, poll, sent, readSize>>
  BY DEF Timeout, DropPoll, Goto, Reading
<1> USE DEF decoderVars
<1>1. /\ StageInv' /\ HeaderInv' /\ TakenInv' /\ FilledInv' /\ PendingInv' /\ SentInv'
      /\ SentInStep' = SentInStep /\ \A f : CycleOf(f)' = CycleOf(f)
      /\ offset' = 0 /\ want' = 0 /\ response' \in Seq(Bytes) /\ pending' \in 0..Len(frames')
  BY <1>0, PollEnds DEF Polling
<1>2. /\ poll \in Nat /\ poll > 0 /\ overtaken \in Nat /\ coming \in Seq(Seq(Bytes)) /\ residue \in Residues
      /\ readSize \in ReadSizes /\ offset \in Nat /\ offset < FrameLength
      /\ readSize >= FrameLength => offset = 0
  BY <1>0, PollsAssumption DEF SerialInv, SerialTypeOK, StageInv, Polling, Reading
<1>3. /\ coming = <<>> => UNCHANGED <<overtaken, residue>>
      /\ coming # <<>> => overtaken' = overtaken + 1 /\ residue' \in {"whole", "parts"}
      /\ coming # <<>> /\ residue' = "whole" => ~begun /\ residue # "parts"
  BY <1>0 DEF LeaveRest
<1>4. overtaken' \in Nat /\ residue' \in Residues
  BY <1>2, <1>3 DEF Residues
<1>5. SerialTypeOK'
  BY <1>0, <1>1, <1>4, Emptiness DEF SerialInv, SerialTypeOK, DecoderTypeOK, Locations
<1>6. OnTimeInv'
  BY <1>0, <1>3 DEF OnTimeInv, InTime, Reading
<1>7. ASSUME ~begun PROVE Stream' = <<>> /\ Whole' = <<>> /\ Rest' = Rest /\ Rest = coming /\ Turn' = poll + 1
  <2>1. Stream' = <<>>
    BY <1>0 DEF Stream, Reading
  <2>2. <<>> \o <<>> = <<>>
    BY Emptiness, EmptyConcat
  <2> QED
    BY <1>0, <1>7, <2>1, <2>2 DEF Whole, Rest, Turn, Reading
<1>8. LateInv'
  <2> SUFFICES ASSUME Queued' PROVE \E here, there \in Seq(Nat) : QueueInv(here, there)'
    BY DEF LateInv
  <2>0. residue' = "whole" /\ readSize >= FrameLength
    BY <1>0 DEF Queued
  <2>1. CASE InTime
    <3>1. coming # <<>> /\ ~begun /\ overtaken' = overtaken + 1
      BY <1>3, <2>0, <2>1 DEF InTime
    <3>2. /\ Len(coming) <= 1 /\ Head(coming) \in Responses(offset, Count, poll)
      BY <1>0, <2>1, <3>1 DEF SerialInv, OnTimeInv
    <3>3. Head(coming) \in Responses(0, FrameLength, poll) /\ Len(coming) = 1 /\ Head(coming) = coming[1]
      <4>1. offset = 0 /\ Count = FrameLength
        BY <1>2, <2>0, CountFits
      <4>2. Len(coming) \in Nat /\ Len(coming) # 0 /\ Head(coming) = coming[1]
        BY <1>2, <3>1, EmptySeq, LenProperties, HeadTailProperties
      <4> QED
        BY <3>2, <4>1, <4>2
    <3>9. PICK there : there = <<poll>>
      OBVIOUS
    <3>4. there \in Seq(Nat) /\ Len(there) = 1 /\ DOMAIN there = {1} /\ there[1] = poll
      BY <1>2, <3>9
    <3>5. <<>> \o there = there
      BY <3>4, EmptyConcat
    <3>6. \A i \in SentInStep : CycleOf(sent[i].frame) < poll
      <4>1. \A i \in SentInStep : CycleOf(sent[i].frame) <= poll - 1 /\ CycleOf(sent[i].frame) \in Nat
        BY <1>0, SentTypes DEF SerialInv, SentInv, SentInStep, Polling
      <4> QED
        BY <1>2, <4>1
    <3>7. InTurn(there)'
      BY <1>0, <1>1, <1>2, <1>7, <3>1, <3>4, <3>6 DEF InTurn, Reading
    <3>8. QueueInv(<<>>, there)'
      BY <1>0, <1>7, <3>1, <3>3, <3>4, <3>5, <3>7, NoQueue DEF QueueInv
    <3> QED
      BY <3>4, <3>8, Emptiness
  <2>2. CASE ~InTime
    <3>0. Queued /\ InStep(residue)
      BY <1>2, <1>3, <2>0, <2>2, Regimes DEF Queued, InTime, Residues
    <3>1. PICK here \in Seq(Nat), there \in Seq(Nat) : QueueInv(here, there)
      BY <3>0 DEF SerialInv, LateInv
    <3>2. ~begun
      BY <1>3, <2>0, <3>1 DEF QueueInv
    <3>3. here = <<>>
      BY <1>0, <3>0, <3>1, <3>2, NothingWaits
    <3>4. /\ Len(there) = Len(coming)
          /\ \A j \in DOMAIN there : coming[j] \in Responses(0, FrameLength, there[j])
      BY <1>7, <3>1, <3>2 DEF QueueInv
    <3> DEFINE due == here \o there
    <3>5. /\ Len(due) \in Nat /\ \A j \in DOMAIN due : j \in Nat /\ due[j] \in Nat
          /\ DOMAIN due = 1..Len(due)
          /\ InTurn(due)
      BY <3>1, DueTypes, LenProperties DEF QueueInv
    <3>6. coming = <<>> => Len(due) = 0
      <4>1. Len(due) = 0 + Len(there) /\ Len(there) \in Nat
        BY <3>3, DueTypes
      <4>2. coming = <<>> => Len(coming) = 0
        OBVIOUS
      <4> QED
        BY <3>4, <4>1, <4>2
    <3> HIDE DEF due
    <3>7. /\ Len(due) <= overtaken + 1
          /\ \A j \in DOMAIN due :
               /\ due[j] + overtaken >= poll + j - 1
               /\ 0 < due[j] /\ due[j] <= poll
               /\ \A i \in SentInStep : CycleOf(sent[i].frame) < due[j]
          /\ \A i, j \in DOMAIN due : i < j => due[i] < due[j]
      BY <1>0, <1>2, <3>5 DEF InTurn, Turn, Reading
    <3>8. InTurn(due)'
      <4>1. CASE Len(due) = 0
        <5>1. DOMAIN due = {}
          BY <3>5, <4>1
        <5>2. \A n \in Nat : 0 <= n + 0 /\ 0 <= n + 1
          OBVIOUS
        <5>3. Len(due) <= overtaken' + (IF pc' \in Reading THEN 1 ELSE 0)
          BY <1>4, <4>1, <5>2
        <5> QED
          BY <5>1, <5>3 DEF InTurn
      <4>2. CASE Len(due) # 0
        <5>1. overtaken' = overtaken + 1
          BY <1>3, <3>6, <4>2
        <5>2. \A j \in DOMAIN due : due[j] + overtaken' >= Turn' + j - 1
          BY <1>2, <1>7, <3>2, <3>5, <3>7, <5>1
        <5> QED
          BY <1>0, <1>1, <1>2, <3>5, <3>7, <5>1, <5>2 DEF InTurn, Reading
      <4> QED
        BY <4>1, <4>2
    <3>9. QueueInv(here, there)'
      BY <1>0, <1>7, <3>2, <3>3, <3>4, <3>8, NoQueue DEF QueueInv, due
    <3> QED
      BY <3>9
  <2> QED
    BY <2>1, <2>2
<1>9. SegmentInv' /\ RangesInv'
  <2>1. segment = NewSegment(offset, Count)
    BY <1>0 DEF SerialInv, SegmentInv
  <2> QED
    BY <1>0, <2>1 DEF SerialInv, SegmentInv, RangesInv, NewSegment, Reading
<1> QED
  BY <1>1, <1>5, <1>6, <1>8, <1>9 DEF SerialInv

\* A step after the last read of a response leaves what is to be read as it is.
LEMMA SameQueue ==
    ASSUME SerialInv, pc \in {"answer", "flush"}, pc' \in {"flush", "command", "emit", "wait"},
           pc' = "command" => ~Queued, pc' = "wait" \/ response' = response,
           SentInStep' = SentInStep,
           \A i \in SentInStep : CycleOf(sent[i].frame)' = CycleOf(sent[i].frame),
           UNCHANGED <<line, coming, begun, poll, overtaken, residue, sent, readSize>>
    PROVE  OnTimeInv' /\ LateInv'
<1>1. /\ Stream' = Stream /\ Queued' = Queued /\ InTime' = InTime
      /\ Whole' = Whole /\ Rest' = Rest
      /\ pc' # "command" => Turn' = Turn
  BY DEF Stream, Queued, InTime, Whole, Rest, Turn, Reading
<1>2. OnTimeInv'
  BY <1>1 DEF SerialInv, OnTimeInv, Reading
<1>3. ASSUME Queued, NEW here \in Seq(Nat), NEW there \in Seq(Nat), QueueInv(here, there)
      PROVE  QueueInv(here, there)'
  <2> DEFINE due == here \o there
  <2>1. InTurn(due)
    BY <1>3 DEF QueueInv
  <2> HIDE DEF due
  <2>2. InTurn(due)'
    BY <1>1, <1>3, <2>1 DEF InTurn, Answered, Reading
  <2> QED
    BY <1>1, <1>3, <2>2 DEF QueueInv, due
<1>4. LateInv'
  BY <1>1, <1>3 DEF SerialInv, LateInv
<1> QED
  BY <1>2, <1>4

\* The response goes to the decoder, or raises because of its status.
LEMMA CheckStatusStep ==
    ASSUME SerialInv, CheckStatus
    PROVE  SerialInv'
<1>0. /\ pc = "answer"
      /\ UNCHANGED <<line, coming, begun, emitter, stop, running, pollVars>>
  BY DEF CheckStatus
<1> USE DEF pollVars
<1>1. PICK zero \in ZeroTests(response[3]) :
         \/ /\ zero
            /\ Goto("answer", "flush")
            /\ ConsumeInput(response)
            /\ UNCHANGED <<want, response, offset, pending>>
         \/ /\ ~zero
            /\ DropPoll("answer")
            /\ UNCHANGED decoderVars
  BY DEF CheckStatus
<1>2. /\ InStep(residue) => Answered \in Nat /\ response \in Responses(offset, Count, Answered)
      /\ segment = NewSegment(offset, Count)
      /\ offset \in Nat /\ offset < FrameLength /\ Count \in Nat \ {0} /\ response \in Seq(Bytes)
      /\ readSize >= FrameLength => offset = 0
      /\ DecoderTypeOK
  <2>1. /\ readSize \in ReadSizes /\ offset \in Nat /\ offset < FrameLength
        /\ readSize >= FrameLength => offset = 0
    BY <1>0 DEF SerialInv, SerialTypeOK, StageInv, Polling
  <2> QED
    BY <1>0, <2>1, CountFits DEF SerialInv, SerialTypeOK, TakenInv, SegmentInv
<1>3. /\ readSize' = readSize /\ pc' \in {"flush", "wait"} /\ frames' = frames
      /\ pc' = "wait" \/ response' = response
  BY <1>1 DEF Goto, DropPoll, ConsumeInput, decoderVars
<1>4. /\ InTime' = InTime /\ Queued' = Queued /\ InStep(residue)' = InStep(residue)
      /\ SentInStep' = SentInStep /\ \A f : CycleOf(f)' = CycleOf(f)
  BY <1>0, <1>3 DEF InTime, Queued, InStep, SentInStep, CycleOf
<1>6. OnTimeInv' /\ LateInv'
  BY <1>0, <1>3, <1>4, SameQueue
<1>7. CASE /\ zero /\ Goto("answer", "flush") /\ ConsumeInput(response)
           /\ UNCHANGED <<want, response, offset, pending>>
  <2>0. pc' = "flush" /\ UNCHANGED <<block, ranges, emitted, frames, want, response, offset, pending>>
    BY <1>7 DEF Goto, ConsumeInput
  <2>1. segment' = [NewSegment(offset, Count) EXCEPT !.data = response]
    <3>1. segment' = [segment EXCEPT !.data = segment.data \o response]
      BY <1>2, <1>7 DEF ConsumeInput, NewSegment
    <3>2. segment.data \o response = response
      BY <1>2, EmptyConcat DEF NewSegment
    <3> QED
      BY <1>2, <3>1, <3>2
  <2>2. response # Refusal
    <3> SUFFICES ASSUME response = Refusal PROVE FALSE
      OBVIOUS
    <3>1. response[3] = Byte("status", 130)
      BY RefusalShape
    <3>2. IsKnown(response[3]) /\ ~(response[3].at = 0)
      BY <3>1 DEF IsKnown, Byte
    <3>3. zero \in {response[3].at = 0}
      BY <1>1, <3>2 DEF ZeroTests
    <3> QED
      BY <1>7, <3>2, <3>3
  <2>3. InStep(residue) => response = Answer(offset, Count, Answered)
    BY <1>2, <2>2 DEF Responses
  <2>4. SerialTypeOK'
    <3>1. segment' \in [offset : Nat, count : Nat, data : Seq(Bytes), open : BOOLEAN]
      BY <1>2, <2>1 DEF NewSegment
    <3> QED
      BY <1>0, <1>3, <2>0, <3>1 DEF SerialInv, SerialTypeOK, DecoderTypeOK, Locations
  <2>5. StageInv' /\ HeaderInv'
    BY <1>0, <1>2, <1>3, <2>0 DEF SerialInv, StageInv, HeaderInv, Polling, Reading
  <2>11. Count' = Count /\ Answered' = Answered
    BY <1>3, <2>0 DEF Count, Answered
  <2>6. TakenInv'
    BY <1>0, <1>2, <1>4, <2>0, <2>2, <2>3, <2>11 DEF SerialInv, TakenInv
  <2>7. SegmentInv' /\ RangesInv'
    BY <1>0, <2>0, <2>1, <2>11 DEF SerialInv, SegmentInv, RangesInv, Reading
  <2>8. FilledInv'
    BY <1>0, <1>4, <2>0 DEF SerialInv, FilledInv, Polling, Reading
  <2>9. PendingInv'
    <3> SUFFICES ASSUME InStep(residue), pending' # 0
                 PROVE  RequiredLength > 0 /\ ~Queued /\ IsFrameOf(pending, Origin)'
      BY <1>4, <2>0 DEF PendingInv
    <3>1. Origin' = Origin /\ frames' = frames /\ pending' = pending
      BY <1>0, <1>4, <2>0, <2>11 DEF Origin
    <3>2. RequiredLength > 0 /\ ~Queued /\ IsFrameOf(pending, Origin)
      BY <1>0, <3>1 DEF SerialInv, PendingInv, Polling
    <3>3. Origin' = poll /\ Origin = poll
      BY <1>0, <1>4, <3>2, Regimes DEF Origin
    <3> QED
      BY <3>1, <3>2, <3>3 DEF IsFrameOf
  <2>10. SentInv'
    <3>1. SentIsWholeAndRecent'
      BY <1>0, <1>3, <2>0 DEF SerialInv, SentInv, SentIsWholeAndRecent, IsFrameOf, InStep
    <3> QED
      BY <1>0, <1>4, <2>0, <3>1 DEF SerialInv, SentInv, Polling
  <2> QED
    BY <1>6, <2>4, <2>5, <2>6, <2>7, <2>8, <2>9, <2>10 DEF SerialInv
<1>8. CASE DropPoll("answer") /\ UNCHANGED decoderVars
  <2>0. pc' = "wait" /\ PollOver /\ UNCHANGED <<block, ranges, segment, emitted, frames>>
    BY <1>8 DEF DropPoll, Goto, decoderVars
  <2>1. /\ StageInv' /\ HeaderInv' /\ TakenInv' /\ FilledInv' /\ PendingInv' /\ SentInv'
        /\ offset' = 0 /\ want' = 0 /\ response' \in Seq(Bytes) /\ pending' \in 0..Len(frames')
    BY <1>0, <1>3, <2>0, PollEnds DEF Polling
  <2>2. SerialTypeOK'
    BY <1>0, <1>3, <2>0, <2>1 DEF SerialInv, SerialTypeOK, DecoderTypeOK, Locations
  <2>3. SegmentInv' /\ RangesInv'
    BY <1>2, <2>0 DEF SerialInv, SegmentInv, RangesInv, NewSegment, Reading
  <2> QED
    BY <1>6, <2>1, <2>2, <2>3 DEF SerialInv
<1> QED
  BY <1>1, <1>7, <1>8

\* What flush() makes of the response: in step, the data of the read are in the
\* block.
LEMMA FlushedAnswer ==
    ASSUME SerialInv, pc = "flush", NEW f \in Finalizations
    PROVE  /\ f.block \in [Positions -> Bytes] /\ f.ranges \subseteq Nat \X Nat
           /\ f.completes \in BOOLEAN
           /\ \A v \in f.ranges : v[1] < v[2] /\ v[2] <= FrameLength
           /\ HasRequiredData(f.ranges) => emitted \/ f.completes
           /\ f.completes => ~emitted /\ HasRequiredData(f.ranges)
           /\ InStep(residue) =>
                /\ \A p \in Positions : Covers(f.ranges, p) <=> p < offset + readSize
                /\ \A p \in Positions :
                     p < offset + readSize => f.block[p] = DataByte(p, IF p < offset THEN poll ELSE Answered)
<1>0. /\ readSize \in ReadSizes /\ offset \in Nat /\ offset < FrameLength /\ DecoderTypeOK
      /\ response \in Seq(Bytes) /\ RangesInv
  BY DEF SerialInv, SerialTypeOK, StageInv, Polling
<1>1. /\ Count \in Nat /\ Count > 0 /\ offset + Count <= FrameLength
      /\ \A p \in Nat : p < FrameLength => (p < offset + Count <=> p < offset + readSize)
      /\ readSize \in Nat /\ readSize > 0
  BY <1>0, CountFits
<1>2. segment.open /\ segment.offset = offset /\ segment.count = Count /\ segment.data = response
  BY DEF SerialInv, SegmentInv, NewSegment
<1>3. PICK x \in ExtractResponseData(response) : f = Deposit(x)
  BY <1>2 DEF Finalizations
<1>4. x \in Seq(Bytes)
  BY <1>0, ExtractIsPart
<1> DEFINE n == UsableCount(segment, x)
<1>5. /\ f.block \in [Positions -> Bytes]
      /\ \A p \in Positions :
           /\ offset <= p /\ p < offset + n => f.block[p] = x[p - offset + 1] /\ p - offset + 1 \in 1..Len(x)
           /\ ~(offset <= p /\ p < offset + n) => f.block[p] = block[p]
      /\ \A p \in Nat : Covers(f.ranges, p) <=> Covers(ranges, p) \/ (offset <= p /\ p < offset + n)
      /\ f.ranges \subseteq Nat \X Nat
      /\ \A v \in f.ranges : v[1] < v[2] /\ v[2] <= FrameLength
      /\ f.completes \in BOOLEAN
      /\ HasRequiredData(f.ranges) => emitted \/ f.completes
      /\ f.completes => ~emitted /\ HasRequiredData(f.ranges)
  BY <1>0, <1>2, <1>3, <1>4, DepositShape
<1>6. ASSUME InStep(residue)
      PROVE  /\ \A p \in Positions : Covers(f.ranges, p) <=> p < offset + readSize
             /\ \A p \in Positions :
                  p < offset + readSize => f.block[p] = DataByte(p, IF p < offset THEN poll ELSE Answered)
  <2>1. response = Answer(offset, Count, Answered) /\ Answered \in Nat
    BY <1>6 DEF SerialInv, TakenInv
  <2>2. x = Polled(offset, Count, Answered)
    BY <1>0, <1>1, <1>3, <2>1, AnswerExtract
  <2>3. /\ Len(x) = Count
        /\ \A k \in 1..Count : x[k] = DataByte(offset + k - 1, Answered)
    BY <1>0, <1>1, <2>1, <2>2, PolledType
  <2>4. n = Count
    BY <1>0, <1>1, <1>2, <2>3, FrameLengthAssumption DEF UsableCount, Smaller
  <2> HIDE DEF n
  <2>5. /\ \A p \in Positions : Covers(ranges, p) <=> p < offset
        /\ \A p \in Positions : p < offset => block[p] = DataByte(p, poll)
    BY <1>6 DEF SerialInv, FilledInv, Polling
  <2>6. \A p \in Positions : p \in Nat /\ p < FrameLength
    BY FrameLengthAssumption DEF Positions
  <2>7. ASSUME NEW p \in Positions
        PROVE  Covers(f.ranges, p) <=> p < offset + readSize
    <3>1. p \in Nat /\ p < FrameLength
      BY <2>6, <2>7
    <3>2. Covers(f.ranges, p) <=> p < offset \/ (offset <= p /\ p < offset + Count)
      BY <1>5, <2>4, <2>5, <2>7, <3>1
    <3> QED
      BY <1>0, <1>1, <3>1, <3>2
  <2>8. ASSUME NEW p \in Positions, p < offset + readSize
        PROVE  f.block[p] = DataByte(p, IF p < offset THEN poll ELSE Answered)
    <3>1. p \in Nat /\ p < FrameLength /\ p < offset + Count
      BY <1>1, <2>6, <2>8
    <3>2. CASE p < offset
      BY <1>0, <1>5, <2>5, <2>8, <3>1, <3>2
    <3>3. CASE ~(p < offset)
      <4> DEFINE k == p - offset + 1
      <4>1. f.block[p] = x[k] /\ k \in 1..Count
        BY <1>0, <1>5, <2>3, <2>4, <2>8, <3>1, <3>3
      <4>2. offset + k - 1 = p
        BY <1>0, <3>1
      <4> HIDE DEF k
      <4>3. x[k] = DataByte(p, Answered)
        BY <2>3, <4>1, <4>2
      <4> QED
        BY <3>3, <4>1, <4>3
    <3> QED
      BY <3>2, <3>3
  <2> QED
    BY <2>7, <2>8
<1> QED
  BY <1>5, <1>6

\* flush(): the response's data are in the block, and when it is covered it is
\* decoded; the next read follows, or the payload.
LEMMA FlushReadStep ==
    ASSUME SerialInv, FlushRead
    PROVE  SerialInv'
<1>0. /\ pc = "flush" /\ pc' = IF offset' < FrameLength THEN "command" ELSE "emit"
      /\ offset' = offset + readSize /\ readSize' = readSize /\ segment' = NoSegment
      /\ pending' = IF frames' # frames THEN Len(frames') ELSE pending
      /\ UNCHANGED <<portVars, emitter, stop, running, pollVars>>
  BY DEF FlushRead, Goto, FlushSegment
<1> USE DEF portVars, pollVars
<1>1. PICK f \in Finalizations :
        /\ EmitFrame(f)
        /\ block' = f.block
        /\ ranges' = f.ranges
        /\ emitted' = (emitted \/ f.completes)
  BY DEF FlushRead, FlushSegment
<1>2. /\ f.block \in [Positions -> Bytes] /\ f.ranges \subseteq Nat \X Nat
      /\ f.completes \in BOOLEAN
      /\ \A v \in f.ranges : v[1] < v[2] /\ v[2] <= FrameLength
      /\ HasRequiredData(f.ranges) => emitted \/ f.completes
      /\ f.completes => ~emitted /\ HasRequiredData(f.ranges)
      /\ InStep(residue) =>
           /\ \A p \in Positions : Covers(f.ranges, p) <=> p < offset + readSize
           /\ \A p \in Positions :
                p < offset + readSize => f.block[p] = DataByte(p, IF p < offset THEN poll ELSE Answered)
  BY <1>0, FlushedAnswer
<1>3. /\ readSize \in ReadSizes /\ readSize \in Nat /\ readSize > 0 /\ offset \in Nat /\ offset < FrameLength
      /\ emitted \in BOOLEAN /\ frames \in Seq([Positions -> Bytes]) /\ Len(frames) \in Nat
      /\ pending \in 0..Len(frames) /\ poll \in Nat /\ DecoderTypeOK
      /\ readSize >= FrameLength => offset = 0
  <2>1. /\ readSize \in ReadSizes /\ offset \in Nat /\ offset < FrameLength /\ DecoderTypeOK
        /\ pending \in 0..Len(frames) /\ poll \in Nat
        /\ readSize >= FrameLength => offset = 0
    BY <1>0, PollsAssumption DEF SerialInv, SerialTypeOK, StageInv, Polling
  <2>2. emitted \in BOOLEAN /\ frames \in Seq([Positions -> Bytes])
    BY <2>1 DEF DecoderTypeOK
  <2> QED
    BY <2>1, <2>2, CountFits, LenProperties
<1>4. /\ offset' \in Nat /\ offset' > 0
      /\ InTime' = InTime /\ Queued' = Queued /\ InStep(residue)' = InStep(residue)
      /\ SentInStep' = SentInStep /\ Answered' = Answered
      /\ readSize >= FrameLength => pc' = "emit"
      /\ Queued => pc' = "emit" /\ offset = 0
  <2>1. /\ InTime' = InTime /\ Queued' = Queued /\ InStep(residue)' = InStep(residue)
        /\ SentInStep' = SentInStep /\ Answered' = Answered
    BY <1>0 DEF InTime, Queued, InStep, SentInStep, Answered
  <2>2. offset' \in Nat /\ offset' > 0 /\ (readSize >= FrameLength => ~(offset' < FrameLength))
    BY <1>0, <1>3, FrameLengthAssumption
  <2> QED
    BY <1>0, <1>3, <2>1, <2>2 DEF Queued
<1>5. ASSUME InStep(residue)
      PROVE  /\ 0 < Answered /\ Answered <= poll /\ Answered + overtaken >= poll
             /\ InTime => Answered = poll
             /\ \A i \in SentInStep : CycleOf(sent[i].frame) < Answered
  <2>1. response = Answer(offset, Count, Answered) /\ Answered \in Nat
    BY <1>0, <1>5 DEF SerialInv, TakenInv
  <2>2. response # Refusal
    <3>1. Count \in Nat
      BY <1>3, CountFits
    <3>2. offset \in Nat /\ Answered \in Nat
      BY <1>3, <2>1
    <3>3. Answer(offset, Count, Answered)[3] = Byte("status", 0)
      BY <3>1, <3>2, AnswerShape
    <3>4. response[3] = Byte("status", 0)
      BY <2>1, <3>3
    <3> QED
      BY <3>4, RefusalShape DEF Byte
  <2> QED
    BY <1>0, <1>5, <2>2 DEF SerialInv, TakenInv
<1>6. /\ frames' \in Seq([Positions -> Bytes]) /\ pending' \in 0..Len(frames')
      /\ Len(frames) <= Len(frames') /\ Len(frames') \in Nat
      /\ \A i \in 1..Len(frames) : frames'[i] = frames[i]
      /\ f.completes => pending' = Len(frames') /\ pending' > 0 /\ frames'[pending'] = f.block
      /\ ~f.completes => frames' = frames /\ pending' = pending
  <2>1. CASE f.completes
    <3>1. frames' = Append(frames, f.block)
      BY <1>1, <2>1 DEF EmitFrame
    <3>2. /\ frames' \in Seq([Positions -> Bytes])
          /\ Len(frames') = Len(frames) + 1
          /\ \A i \in 1..Len(frames) : frames'[i] = frames[i]
          /\ frames'[Len(frames) + 1] = f.block
          /\ frames' # frames
      BY <1>2, <1>3, <3>1, AppendedTo
    <3> QED
      BY <1>0, <1>3, <2>1, <3>2
  <2>2. CASE ~f.completes
    <3>1. frames' = frames
      BY <1>1, <2>2 DEF EmitFrame
    <3> QED
      BY <1>0, <1>3, <2>2, <3>1
  <2> QED
    BY <2>1, <2>2
<1>7. \A i \in DOMAIN sent :
         /\ sent[i].frame \in 1..Len(frames)
         /\ frames'[sent[i].frame] = frames[sent[i].frame]
         /\ CycleOf(sent[i].frame)' = CycleOf(sent[i].frame)
  <2>1. \A i \in DOMAIN sent : sent[i].frame \in 1..Len(frames)
    BY SentTypes DEF SerialInv
  <2> QED
    BY <1>0, <1>6, <2>1 DEF CycleOf
<1>8. SerialTypeOK'
  <2>1. DecoderTypeOK'
    BY <1>0, <1>1, <1>2, <1>3, <1>6, SegmentTypes DEF DecoderTypeOK
  <2>2. sent \in Seq([frame : 1..Len(frames'), poll : 0..MaxPolls, overtaken : Nat, residue : Residues])
    <3> DEFINE Payloads == [frame : 1..Len(frames), poll : 0..MaxPolls, overtaken : Nat, residue : Residues]
               Payloads2 == [frame : 1..Len(frames'), poll : 0..MaxPolls, overtaken : Nat, residue : Residues]
    <3>1. Payloads \subseteq Payloads2
      BY <1>3, <1>6
    <3>2. sent \in Seq(Payloads)
      BY DEF SerialInv, SerialTypeOK
    <3> HIDE DEF Payloads, Payloads2
    <3>3. \A i \in 1..Len(sent) : sent[i] \in Payloads2
      BY <3>1, <3>2, ElementOfSeq
    <3>4. sent = [i \in 1..Len(sent) |-> sent[i]] /\ Len(sent) \in Nat
      BY <3>2, LenProperties
    <3>5. sent \in Seq(Payloads2)
      BY <3>3, <3>4
    <3> QED
      BY <3>5 DEF Payloads2
  <2> QED
    BY <1>0, <1>4, <1>6, <2>1, <2>2 DEF SerialInv, SerialTypeOK, Locations
<1>9. StageInv' /\ HeaderInv'
  <2>1. poll > 0
    BY <1>0 DEF SerialInv, StageInv, Polling
  <2>2. pc' = "command" => offset' < FrameLength /\ ~(readSize >= FrameLength)
    BY <1>0, <1>4
  <2>3. pc' = "emit" => offset' >= FrameLength
    BY <1>0, <1>4, FrameLengthAssumption
  <2> QED
    BY <1>0, <2>1, <2>2, <2>3 DEF StageInv, HeaderInv, Polling, Reading
<1>10. OnTimeInv' /\ LateInv'
  <2>1. \A i \in SentInStep : CycleOf(sent[i].frame)' = CycleOf(sent[i].frame)
    BY <1>7 DEF SentInStep
  <2> QED
    BY <1>0, <1>4, <2>1, SameQueue
<1>11. TakenInv'
  <2>1. \A i \in SentInStep : CycleOf(sent[i].frame)' = CycleOf(sent[i].frame)
    BY <1>7 DEF SentInStep
  <2> QED
    BY <1>0, <1>4, <1>5, <2>1 DEF TakenInv
<1>12. SegmentInv' /\ RangesInv'
  BY <1>0, <1>1, <1>2, SegmentTypes DEF SegmentInv, RangesInv, Reading
<1>13. FilledInv'
  <2> SUFFICES ASSUME InStep(residue)
               PROVE  /\ \A p \in Positions : Covers(ranges', p) <=> p < offset'
                      /\ \A p \in Positions : pc' # "emit" /\ p < offset' => block'[p] = DataByte(p, poll)
                      /\ emitted' <=> pending' # 0
    BY <1>0, <1>4 DEF FilledInv
  <2>2. emitted <=> pending # 0
    BY <1>0 DEF SerialInv, FilledInv, Polling
  <2>3. emitted' <=> pending' # 0
    <3>1. CASE f.completes
      <4>1. pending' # 0
        BY <1>6, <3>1
      <4>2. emitted'
        BY <1>1, <3>1
      <4> QED
        BY <4>1, <4>2
    <3>2. CASE ~f.completes
      BY <1>1, <1>6, <2>2, <3>2
    <3> QED
      BY <3>1, <3>2
  <2>4. \A p \in Positions : Covers(ranges', p) <=> p < offset'
    BY <1>0, <1>1, <1>2
  <2>5. ASSUME pc' # "emit", NEW p \in Positions, p < offset'
        PROVE  block'[p] = DataByte(p, poll)
    <3>1. Answered = poll
      BY <1>4, <1>5, <2>5, Regimes
    <3>2. f.block[p] = DataByte(p, IF p < offset THEN poll ELSE Answered)
      BY <1>0, <1>2, <2>5
    <3> QED
      BY <1>1, <3>1, <3>2
  <2> QED
    BY <2>3, <2>4, <2>5
<1>14. PendingInv'
  <2> SUFFICES ASSUME InStep(residue), pending' # 0
               PROVE  RequiredLength > 0 /\ (Queued => pc' = "emit") /\ IsFrameOf(pending, Origin)'
    BY <1>0, <1>4 DEF PendingInv
  <2>1. CASE f.completes
    <3>1. RequiredLength > 0 /\ \A p \in 0..(RequiredLength - 1) : Covers(f.ranges, p)
      BY <1>2, <2>1 DEF HasRequiredData
    <3>2. ASSUME NEW p \in 0..(RequiredLength - 1)
          PROVE  frames'[pending'][p] = DataByte(p, Origin')
      <4>1. p \in Positions
        <5>1. p \in Nat /\ Covers(f.ranges, p)
          BY <3>1, <3>2, RequiredLengthAssumption
        <5>2. PICK v \in f.ranges : v[1] <= p /\ p < v[2]
          BY <5>1 DEF Covers
        <5>3. v[1] \in Nat /\ v[2] \in Nat /\ v[2] <= FrameLength
          BY <1>2, <5>2
        <5> QED
          BY <5>1, <5>2, <5>3, FrameLengthAssumption DEF Positions
      <4>2. f.block[p] = DataByte(p, IF p < offset THEN poll ELSE Answered)
        BY <1>2, <3>1, <3>2, <4>1
      <4>3. (IF p < offset THEN poll ELSE Answered) = Origin'
        <5>1. CASE Queued
          <6>1. ~(p < offset)
            BY <1>4, <4>1, <5>1, FrameLengthAssumption DEF Positions
          <6> QED
            BY <1>4, <5>1, <6>1, Regimes DEF Origin
        <5>2. CASE InTime
          BY <1>0, <1>4, <1>5, <5>2 DEF Origin
        <5> QED
          BY <5>1, <5>2, Regimes
      <4> QED
        BY <1>6, <2>1, <4>2, <4>3
    <3> QED
      BY <1>4, <3>1, <3>2 DEF IsFrameOf
  <2>2. CASE ~f.completes
    <3>1. frames' = frames /\ pending' = pending
      BY <1>6, <2>2
    <3>2. RequiredLength > 0 /\ ~Queued /\ IsFrameOf(pending, Origin)
      BY <1>0, <3>1 DEF SerialInv, PendingInv, Polling
    <3>3. Origin' = poll /\ Origin = poll
      BY <1>0, <1>4, <3>2, Regimes DEF Origin
    <3> QED
      BY <3>1, <3>2, <3>3 DEF IsFrameOf
  <2> QED
    BY <2>1, <2>2
<1>15. SentInv'
  <2>1. /\ SentIsWholeAndRecent
        /\ \A i \in SentInStep : CycleOf(sent[i].frame) <= poll - 1
    BY <1>0 DEF SerialInv, SentInv, Polling
  <2>2. \A i \in DOMAIN sent : \A c : IsFrameOf(sent[i].frame, c)' <=> IsFrameOf(sent[i].frame, c)
    BY <1>0, <1>7 DEF IsFrameOf
  <2>3. SentIsWholeAndRecent'
    BY <1>0, <1>7, <2>1, <2>2 DEF SentIsWholeAndRecent, InStep
  <2>4. \A i \in SentInStep : CycleOf(sent[i].frame)' = CycleOf(sent[i].frame)
    BY <1>7 DEF SentInStep
  <2> QED
    BY <1>0, <1>4, <2>1, <2>3, <2>4 DEF SentInv, Polling
<1> QED
  BY <1>8, <1>9, <1>10, <1>11, <1>12, <1>13, <1>14, <1>15 DEF SerialInv

\* The frame cannot be decoded: the exception ends the poll.
LEMMA FlushFailsStep ==
    ASSUME SerialInv, FlushFails
    PROVE  SerialInv'
<1>0. /\ pc = "flush" /\ pc' = "wait" /\ PollOver /\ readSize' = readSize
      /\ UNCHANGED <<line, coming, begun, emitter, stop, running, pollVars>>
  BY DEF FlushFails, DropPoll, Goto
<1> USE DEF pollVars
<1>1. PICK f \in Finalizations :
        /\ f.completes
        /\ block' = f.block
        /\ ranges' = f.ranges
        /\ emitted' = TRUE
        /\ segment' = NoSegment
        /\ UNCHANGED frames
  BY DEF FlushFails, DecodeRaises
<1>2. /\ f.block \in [Positions -> Bytes] /\ f.ranges \subseteq Nat \X Nat
      /\ \A v \in f.ranges : v[1] < v[2] /\ v[2] <= FrameLength
  BY <1>0, FlushedAnswer
<1>3. /\ StageInv' /\ HeaderInv' /\ TakenInv' /\ FilledInv' /\ PendingInv' /\ SentInv'
      /\ SentInStep' = SentInStep /\ \A i : CycleOf(i)' = CycleOf(i)
      /\ offset' = 0 /\ want' = 0 /\ response' \in Seq(Bytes) /\ pending' \in 0..Len(frames')
  BY <1>0, <1>1, PollEnds DEF Polling
<1>4. SerialTypeOK'
  BY <1>0, <1>1, <1>2, <1>3, SegmentTypes DEF SerialInv, SerialTypeOK, DecoderTypeOK, Locations
<1>5. OnTimeInv' /\ LateInv'
  BY <1>0, <1>3, SameQueue
<1>6. SegmentInv' /\ RangesInv'
  BY <1>0, <1>1, <1>2, SegmentTypes DEF SegmentInv, RangesInv, Reading
<1> QED
  BY <1>3, <1>4, <1>5, <1>6 DEF SerialInv

------------------------------------------------------------------------------
(* The ECU's response arrives *)

\* Where nothing was left to be read, what arrives belongs to the response to the
\* read in progress.
LEMMA OnTimeArrival ==
    ASSUME SerialInv, InTime, NEW k \in PacketLengths, Arrive(k)
    PROVE  OnTimeInv'
<1>0. /\ coming # <<>> /\ line' = line \o SubSeq(Head(coming), 1, k)
      /\ k <= Len(Head(coming))
      /\ \/ k = Len(Head(coming)) /\ coming' = Tail(coming) /\ begun' = FALSE
         \/ /\ k < Len(Head(coming))
            /\ \/ coming' = Tail(coming) /\ begun' = FALSE
               \/ /\ coming' = <<SubSeq(Head(coming), k + 1, Len(Head(coming)))>> \o Tail(coming)
                  /\ begun' = TRUE
      /\ UNCHANGED <<response, offset, poll, readSize, pc>>
  BY DEF Arrive, bridgeVars
<1>1. /\ response \in Seq(Bytes) /\ line \in Seq(Bytes) /\ coming \in Seq(Seq(Bytes))
      /\ pc \in Reading /\ Len(coming) <= 1
  BY <1>0 DEF SerialInv, SerialTypeOK, OnTimeInv
<1>2. PICK P \in Responses(offset, Count, poll) : Begins(Stream \o Head(coming), P)
  BY <1>0, <1>1 DEF SerialInv, OnTimeInv
<1> DEFINE h == Head(coming)
           a == SubSeq(h, 1, k)
           b == SubSeq(h, k + 1, Len(h))
<1>3. h \in Seq(Bytes) /\ Len(h) \in Nat /\ k \in 1..Len(h)
  <2>1. h \in Seq(Bytes)
    BY <1>0, <1>1, HeadTailProperties
  <2>2. Len(h) \in Nat
    BY <2>1, LenProperties
  <2>3. k \in Nat /\ k >= 1
    BY FrameLengthAssumption DEF PacketLengths
  <2> QED
    BY <1>0, <2>1, <2>2, <2>3
<1>4. a \in Seq(Bytes) /\ b \in Seq(Bytes) /\ a \o b = h /\ (b = <<>> <=> k = Len(h))
  BY <1>3, SplitAt
<1>5. Tail(coming) = <<>>
  <2>1. Tail(coming) \in Seq(Seq(Bytes)) /\ Len(Tail(coming)) = Len(coming) - 1 /\ Len(coming) \in Nat
    BY <1>0, <1>1, TailOf, LenProperties
  <2>2. Len(coming) # 0
    BY <1>0, <1>1, EmptySeq
  <2>3. Len(Tail(coming)) = 0
    BY <1>1, <2>1, <2>2
  <2> QED
    BY <2>1, <2>3, EmptySeq
<1>6. /\ line' = line \o a
      /\ \/ k = Len(h) /\ coming' = Tail(coming) /\ begun' = FALSE
         \/ /\ k < Len(h)
            /\ \/ coming' = Tail(coming) /\ begun' = FALSE
               \/ coming' = <<b>> \o Tail(coming) /\ begun' = TRUE
  BY <1>0
<1> HIDE DEF h, a, b
<1>7. coming' = <<>> \/ (b # <<>> /\ coming' = <<b>> /\ begun')
  <2>1. CASE k = Len(h)
    <3>1. ~(k < Len(h))
      BY <1>3, <2>1
    <3>2. coming' = Tail(coming)
      BY <1>6, <3>1
    <3> QED
      BY <1>5, <3>2
  <2>2. CASE k < Len(h)
    <3>1. b # <<>>
      BY <1>3, <1>4, <2>2
    <3>2. <<b>> \o <<>> = <<b>>
      BY <1>4, ConcatEmptySeq
    <3>3. coming' = Tail(coming) \/ (coming' = <<b>> \o Tail(coming) /\ begun')
      BY <1>3, <1>6, <2>2
    <3> QED
      BY <1>5, <3>1, <3>2, <3>3
  <2> QED
    BY <1>6, <2>1, <2>2
<1>8. Stream \in Seq(Bytes) /\ Stream' = Stream \o a
  <2>1. Stream = response \o line /\ Stream' = response \o (line \o a)
    BY <1>0, <1>1, <1>6 DEF Stream
  <2>2. response \in Seq(Bytes) /\ line \in Seq(Bytes) /\ a \in Seq(Bytes)
    BY <1>1, <1>4
  <2>3. (response \o line) \o a = response \o (line \o a)
    BY <2>2, ConcatAssociative
  <2>4. response \o line \in Seq(Bytes)
    BY <2>2, Concat
  <2> QED
    BY <2>1, <2>3, <2>4
<1> DEFINE more == IF coming' = <<>> THEN <<>> ELSE Head(coming')
<1>9. \/ more = <<>> /\ coming' = <<>>
      \/ more = b
  <2>1. Head(<<b>>) = b /\ <<b>> # <<>>
    OBVIOUS
  <2> QED
    BY <1>7, <2>1
<1>10. /\ Len(coming') <= 1
       /\ \A j \in DOMAIN coming' : coming'[j] # <<>>
  <2>1. CASE coming' = <<>>
    BY <2>1
  <2>2. CASE b # <<>> /\ coming' = <<b>>
    <3>1. Len(<<b>>) = 1 /\ \A j \in DOMAIN <<b>> : <<b>>[j] = b
      OBVIOUS
    <3> QED
      BY <2>2, <3>1
  <2> QED
    BY <1>7, <2>1, <2>2
<1>11. Begins(Stream' \o more, P)
  <2>1. (Stream \o a) \o b = Stream \o h /\ Stream \o a \in Seq(Bytes) /\ Stream \o h \in Seq(Bytes)
    <3>1. Stream \in Seq(Bytes) /\ a \in Seq(Bytes) /\ b \in Seq(Bytes) /\ h \in Seq(Bytes)
      BY <1>3, <1>4, <1>8
    <3>2. (Stream \o a) \o b = Stream \o (a \o b)
      BY <3>1, ConcatAssociative
    <3>3. Stream \o a \in Seq(Bytes) /\ Stream \o h \in Seq(Bytes)
      BY <3>1, Concat
    <3> QED
      BY <1>4, <3>2, <3>3
  <2>2. CASE more = b
    BY <1>2, <1>8, <2>1, <2>2 DEF h
  <2>3. CASE more = <<>>
    <3> DEFINE s == Stream \o a
    <3>1. s \o <<>> = s
      BY <2>1, ConcatEmptySeq
    <3>2. /\ Len(s \o b) = Len(s) + Len(b) /\ Len(b) \in Nat /\ Len(s) \in Nat
          /\ \A i \in 1..Len(s) : (s \o b)[i] = s[i]
          /\ s \o b \in Seq(Bytes)
      BY <1>4, <2>1, Concat, LenProperties
    <3> HIDE DEF s
    <3>3. Begins(s \o b, P)
      BY <1>2, <2>1 DEF s, h
    <3>4. DOMAIN s = 1..Len(s) /\ \A i \in 1..Len(s) : i \in DOMAIN (s \o b)
      <4>1. s \in Seq(Bytes) /\ DOMAIN (s \o b) = 1..(Len(s) + Len(b))
        BY <2>1, <3>2, LenProperties DEF s
      <4> QED
        BY <3>2, <4>1, LenProperties
    <3>5. P \in Seq(Bytes)
      <4>1. offset \in Nat /\ Count \in Nat /\ poll \in Nat
        BY <1>1, CountFits, PollsAssumption DEF SerialInv, SerialTypeOK, StageInv, Polling, Reading
      <4> QED
        BY <4>1, ResponseShape
    <3>6. Len(s) <= Len(P)
      BY <3>2, <3>3, <3>5, LenProperties DEF Begins
    <3>7. Begins(s, P)
      BY <3>2, <3>3, <3>4, <3>6 DEF Begins
    <3> QED
      BY <1>8, <2>3, <3>1, <3>7 DEF s
  <2> QED
    BY <1>9, <2>2, <2>3
<1>12. Count' = Count
  BY <1>0 DEF Count
<1>13. begun' \/ coming' = <<>>
  BY <1>7
<1> QED
  BY <1>0, <1>1, <1>10, <1>11, <1>12, <1>13 DEF OnTimeInv

\* Where whole responses were left to be read and none of what arrives is lost, a
\* response that begins to arrive joins the queue.
LEMMA LateArrival ==
    ASSUME SerialInv, Queued, residue' = residue, NEW k \in PacketLengths, Arrive(k)
    PROVE  LateInv'
<1>0. /\ coming # <<>> /\ line' = line \o SubSeq(Head(coming), 1, k)
      /\ k <= Len(Head(coming))
      /\ \/ k = Len(Head(coming)) /\ coming' = Tail(coming) /\ begun' = FALSE
         \/ /\ k < Len(Head(coming))
            /\ coming' = <<SubSeq(Head(coming), k + 1, Len(Head(coming)))>> \o Tail(coming)
            /\ begun' = TRUE
      /\ UNCHANGED <<response, overtaken, poll, sent, frames, readSize, pc>>
  BY DEF Arrive, bridgeVars, decoderVars, Queued
<1>1. /\ response \in Seq(Bytes) /\ line \in Seq(Bytes) /\ coming \in Seq(Seq(Bytes))
      /\ Len(coming) \in Nat /\ Len(coming) # 0 /\ begun \in BOOLEAN
  BY <1>0, LenProperties, EmptySeq DEF SerialInv, SerialTypeOK
<1>2. PICK here \in Seq(Nat), there \in Seq(Nat) : QueueInv(here, there)
  BY DEF SerialInv, LateInv
<1>3. /\ IsQueue(Whole, here) /\ Len(there) = Len(Rest) /\ InTurn(here \o there)
      /\ \A j \in DOMAIN there : Rest[j] \in Responses(0, FrameLength, there[j])
  BY <1>2 DEF QueueInv
<1> DEFINE h == Head(coming)
           t == Tail(coming)
           a == SubSeq(h, 1, k)
           b == SubSeq(h, k + 1, Len(h))
<1>4. /\ h \in Seq(Bytes) /\ Len(h) \in Nat /\ k \in 1..Len(h) /\ h = coming[1]
      /\ t \in Seq(Seq(Bytes))
  <2>1. h \in Seq(Bytes) /\ h = coming[1] /\ t \in Seq(Seq(Bytes))
    BY <1>0, <1>1, HeadTailProperties
  <2>2. Len(h) \in Nat
    BY <2>1, LenProperties
  <2>3. k \in Nat /\ k >= 1
    BY FrameLengthAssumption DEF PacketLengths
  <2> QED
    BY <1>0, <2>1, <2>2, <2>3
<1>5. a \in Seq(Bytes) /\ b \in Seq(Bytes) /\ a \o b = h /\ (b = <<>> <=> k = Len(h))
  BY <1>4, SplitAt
<1>6. /\ line' = line \o a
      /\ \/ b = <<>> /\ coming' = t /\ begun' = FALSE
         \/ coming' = <<b>> \o t /\ begun' = TRUE
  BY <1>0, <1>5
<1>7. /\ ~begun => Whole = Stream /\ Rest = coming
      /\ begun => Whole = Stream \o h /\ Rest = t
  <2>1. Stream \o <<>> = Stream
    BY <1>2, StreamShape, ConcatEmptySeq DEF SerialInv, QueueInv
  <2> QED
    BY <2>1 DEF Whole, Rest
<1> HIDE DEF h, t, a, b
<1>8. Stream \in Seq(Bytes) /\ Stream' = Stream \o a
  <2>1. (response \o line) \o a = response \o (line \o a)
    <3>1. response \in Seq(Bytes) /\ line \in Seq(Bytes) /\ a \in Seq(Bytes)
      BY <1>1, <1>5
    <3> QED
      BY <3>1, ConcatAssociative
  <2>2. response \o line \in Seq(Bytes) /\ line \in Seq(Bytes)
    BY <1>1, Concat
  <2> QED
    BY <1>0, <1>1, <1>6, <2>1, <2>2 DEF Stream
<1>9. Whole' = Stream \o h /\ Rest' = t /\ (begun' => coming' # <<>>)
  <2>1. (Stream \o a) \o b = Stream \o h
    <3>1. Stream \in Seq(Bytes) /\ a \in Seq(Bytes) /\ b \in Seq(Bytes)
      BY <1>5, <1>8
    <3>2. (Stream \o a) \o b = Stream \o (a \o b)
      BY <3>1, ConcatAssociative
    <3> QED
      BY <1>5, <3>2
  <2>2. CASE b = <<>> /\ coming' = t /\ begun' = FALSE
    BY <1>8, <2>1, <2>2 DEF Whole, Rest
  <2>3. CASE coming' = <<b>> \o t /\ begun' = TRUE
    <3>1. coming' # <<>> /\ Head(coming') = b /\ Tail(coming') = t
      BY <1>4, <1>5, <2>3, PutFirst
    <3> QED
      BY <1>8, <2>1, <2>3, <3>1 DEF Whole, Rest
  <2> QED
    BY <1>6, <2>2, <2>3
<1>10. ASSUME NEW due \in Seq(Nat), InTurn(due)
       PROVE  InTurn(due)'
  BY <1>0, <1>10 DEF InTurn, Turn, Answered, CycleOf, SentInStep, InStep, Reading
<1>11. CASE begun
  <2>1. IsQueue(Whole, here)'
    BY <1>3, <1>7, <1>9, <1>11
  <2>2. /\ Len(there) = Len(Rest')
        /\ \A j \in DOMAIN there : Rest'[j] \in Responses(0, FrameLength, there[j])
    BY <1>3, <1>7, <1>9, <1>11
  <2>3. here \o there \in Seq(Nat)
    BY <1>2, Concat
  <2>4. InTurn(here \o there)'
    <3> DEFINE due == here \o there
    <3> HIDE DEF due
    <3>1. due \in Seq(Nat) /\ InTurn(due)
      BY <1>3, <2>3 DEF due
    <3>2. InTurn(due)'
      BY <1>10, <3>1
    <3> QED
      BY <3>2 DEF due
  <2>5. QueueInv(here, there)'
    BY <1>9, <2>1, <2>2, <2>4 DEF QueueInv
  <2> QED
    BY <2>5 DEF LateInv
<1>12. CASE ~begun
  <2>1. /\ there # <<>> /\ Head(there) \in Nat /\ Head(there) = there[1] /\ Tail(there) \in Seq(Nat)
        /\ Len(Tail(there)) = Len(there) - 1 /\ DOMAIN there = 1..Len(there)
        /\ \A j \in 1..(Len(there) - 1) : Tail(there)[j] = there[j + 1]
        /\ Len(there) = Len(coming)
    <3>1. Len(there) = Len(coming)
      BY <1>3, <1>7, <1>12
    <3>2. there # <<>>
      BY <1>1, <3>1
    <3> QED
      BY <3>1, <3>2, TailOf, HeadTailProperties, LenProperties
  <2>2. h \in Responses(0, FrameLength, Head(there))
    <3>1. 1 \in DOMAIN there
      BY <1>1, <2>1
    <3> QED
      BY <1>3, <1>4, <1>7, <1>12, <2>1, <3>1
  <2>3. PICK here2 : here2 = Append(here, Head(there))
    OBVIOUS
  <2>4. PICK there2 : there2 = Tail(there)
    OBVIOUS
  <2>5. IsQueue(Whole, here2)'
    BY <1>3, <1>7, <1>9, <1>12, <2>1, <2>2, <2>3, Enqueued
  <2>6. here2 \in Seq(Nat) /\ there2 \in Seq(Nat) /\ here2 \o there2 = here \o there
    <3> DEFINE c == Head(there)
               u == Tail(there)
    <3>1. c \in Nat /\ u \in Seq(Nat) /\ there = <<c>> \o u /\ <<c>> \in Seq(Nat)
      BY <2>1, HeadThenTail
    <3> HIDE DEF c, u
    <3>2. Append(here, c) = here \o <<c>> /\ Append(here, c) \in Seq(Nat)
      BY <3>1, AppendIsConcat, AppendProperties
    <3>3. (here \o <<c>>) \o u = here \o (<<c>> \o u)
      BY <3>1, ConcatAssociative
    <3> QED
      BY <2>3, <2>4, <3>1, <3>2, <3>3 DEF c, u
  <2>7. /\ Len(there2) = Len(Rest')
        /\ \A j \in DOMAIN there2 : Rest'[j] \in Responses(0, FrameLength, there2[j])
    <3>1. /\ Len(Rest') = Len(coming) - 1
          /\ \A j \in 1..(Len(coming) - 1) : Rest'[j] = coming[j + 1]
      BY <1>0, <1>1, <1>9, TailOf DEF t
    <3>2. DOMAIN there2 = 1..(Len(coming) - 1)
      BY <2>1, <2>4, LenProperties
    <3>3. ASSUME NEW j \in 1..(Len(coming) - 1)
          PROVE  Rest'[j] \in Responses(0, FrameLength, there2[j])
      <4>1. j + 1 \in DOMAIN there
        BY <1>1, <2>1, <3>3
      <4> QED
        BY <1>3, <1>7, <1>12, <2>1, <2>4, <3>1, <3>3, <4>1
    <3> QED
      BY <2>1, <2>4, <3>1, <3>2, <3>3
  <2>8. InTurn(here2 \o there2)'
    <3> DEFINE due == here2 \o there2
    <3>1. due \in Seq(Nat) /\ InTurn(due)
      BY <1>2, <1>3, <2>6, Concat
    <3> HIDE DEF due
    <3>2. InTurn(due)'
      BY <1>10, <3>1
    <3> QED
      BY <3>2 DEF due
  <2>9. QueueInv(here2, there2)'
    BY <1>9, <2>5, <2>7, <2>8 DEF QueueInv
  <2> QED
    BY <2>6, <2>9 DEF LateInv
<1> QED
  BY <1>1, <1>11, <1>12

\* A response that is lost in part takes a poll behind an earlier one out of step.
LEMMA ArriveStep ==
    ASSUME SerialInv, NEW k \in PacketLengths, Arrive(k)
    PROVE  SerialInv'
<1>0. /\ coming # <<>> /\ k \in 1..Len(Head(coming)) /\ pc \notin {"connect", "open"}
      /\ line' = line \o SubSeq(Head(coming), 1, k)
      /\ coming' \in {Tail(coming), <<SubSeq(Head(coming), k + 1, Len(Head(coming)))>> \o Tail(coming)}
      /\ begun' \in BOOLEAN
      /\ residue' = residue \/ (residue # "none" /\ residue' = "parts")
      /\ UNCHANGED <<decoderVars, want, response, bridgeVars, poll, overtaken, sent, readSize, pc>>
  <2>1. k \in Nat /\ k >= 1
    BY FrameLengthAssumption DEF PacketLengths
  <2>2. Head(coming) \in Seq(Bytes)
    BY HeadTailProperties DEF Arrive, SerialInv, SerialTypeOK
  <2>3. Len(Head(coming)) \in Nat
    BY <2>2, LenProperties
  <2>4. k \in 1..Len(Head(coming))
    BY <2>1, <2>3 DEF Arrive
  <2> QED
    BY <2>4 DEF Arrive, PortOpen
<1> USE DEF decoderVars, bridgeVars
<1>1. /\ Count' = Count /\ Answered' = Answered /\ SentInStep' = SentInStep
      /\ \A f : CycleOf(f)' = CycleOf(f)
  BY <1>0 DEF Count, Answered, SentInStep, InStep, CycleOf
<1>2. line' \in Seq(Bytes) /\ coming' \in Seq(Seq(Bytes))
  <2>1. line \in Seq(Bytes) /\ coming \in Seq(Seq(Bytes))
    BY DEF SerialInv, SerialTypeOK
  <2> DEFINE h == Head(coming)
             a == SubSeq(h, 1, k)
             b == SubSeq(h, k + 1, Len(h))
  <2>2. h \in Seq(Bytes) /\ Tail(coming) \in Seq(Seq(Bytes))
    BY <1>0, <2>1, HeadTailProperties
  <2>3. a \in Seq(Bytes) /\ b \in Seq(Bytes)
    BY <1>0, <2>2, SplitAt
  <2>4. line' = line \o a /\ coming' \in {Tail(coming), <<b>> \o Tail(coming)}
    BY <1>0
  <2> HIDE DEF h, a, b
  <2>5. <<b>> \in Seq(Seq(Bytes))
    BY <2>3
  <2>6. <<b>> \o Tail(coming) \in Seq(Seq(Bytes))
    BY <2>2, <2>5, Concat
  <2> QED
    BY <2>1, <2>2, <2>3, <2>4, <2>6, Concat
<1>3. SerialTypeOK'
  <2>1. residue' \in Residues
    BY <1>0 DEF SerialInv, SerialTypeOK, Residues
  <2> QED
    BY <1>0, <1>2, <2>1 DEF SerialInv, SerialTypeOK, DecoderTypeOK
<1>4. /\ InStep(residue)' => InStep(residue) /\ residue' = residue
      /\ InTime' <=> InTime
      /\ Queued' => Queued /\ residue' = residue
      /\ InStep(residue)' => Origin' = Origin
  <2>1. /\ InStep(residue)' => InStep(residue) /\ residue' = residue
        /\ InTime' <=> InTime
        /\ Queued' => Queued /\ residue' = residue
    BY <1>0 DEF InStep, InTime, Queued
  <2> QED
    BY <1>0, <1>1, <2>1 DEF Origin
<1>5. StageInv' /\ HeaderInv' /\ SegmentInv' /\ RangesInv'
  BY <1>0, <1>1, <1>4 DEF SerialInv, StageInv, HeaderInv, SegmentInv, RangesInv
<1>6. OnTimeInv'
  BY <1>4, OnTimeArrival DEF OnTimeInv
<1>7. LateInv'
  BY <1>4, LateArrival DEF LateInv
<1>8. TakenInv'
  BY <1>0, <1>1, <1>4 DEF SerialInv, TakenInv
<1>9. FilledInv'
  BY <1>0, <1>4 DEF SerialInv, FilledInv
<1>10. PendingInv'
  <2>1. pc = "command" /\ offset = 0 => pending = 0
    BY DEF SerialInv, PendingInv
  <2>2. ASSUME InStep(residue)', pc \in Polling, pending # 0
        PROVE  RequiredLength > 0 /\ (Queued' => pc = "emit") /\ IsFrameOf(pending, Origin)'
    <3>1. RequiredLength > 0 /\ (Queued => pc = "emit") /\ IsFrameOf(pending, Origin)
      BY <1>4, <2>2 DEF SerialInv, PendingInv
    <3>2. PICK o : o = Origin
      OBVIOUS
    <3>3. Origin' = o /\ frames' = frames /\ pending' = pending
      BY <1>0, <1>4, <2>2, <3>2
    <3> QED
      BY <1>4, <3>1, <3>2, <3>3 DEF IsFrameOf
  <2> QED
    BY <1>0, <2>1, <2>2 DEF PendingInv
<1>11. SentInv'
  <2>1. SentIsWholeAndRecent'
    BY <1>0 DEF SerialInv, SentInv, SentIsWholeAndRecent, IsFrameOf, InStep
  <2> QED
    BY <1>0, <1>1, <2>1 DEF SerialInv, SentInv
<1> QED
  BY <1>3, <1>5, <1>6, <1>7, <1>8, <1>9, <1>10, <1>11 DEF SerialInv

------------------------------------------------------------------------------
(* The theorems *)

\* The steps of the thread outside of a poll, and the signal.
LEMMA OtherSerialStep ==
    ASSUME SerialInv,
           \/ Connect \/ OpenPort \/ LoopEnd \/ Wait \/ Close \/ Exit
           \/ Signal \/ Gone \/ UNCHANGED serialVars
    PROVE  SerialInv'
<1>1. /\ UNCHANGED <<decoderVars, portVars, offset, pending, pollVars, readSize>>
      /\ \/ pc' = pc
         \/ pc \notin Polling /\ pc' \notin Polling /\ pc' # "connect" /\ (pc' = "open" => pc = "connect")
      /\ pc' \in Locations /\ emitter' \in {"new", "open", "closed"}
      /\ stop' \in BOOLEAN /\ running' \in BOOLEAN
  <2> USE DEF Goto, Polling, Reading, Locations, portVars, bridgeVars, pollVars
  <2>0. /\ pc \in Locations /\ emitter \in {"new", "open", "closed"}
        /\ stop \in BOOLEAN /\ running \in BOOLEAN
    BY DEF SerialInv, SerialTypeOK
  <2>1. CASE Connect
    BY <2>0, <2>1 DEF Connect
  <2>2. CASE OpenPort
    <3>1. line' = line
      BY <2>2 DEF OpenPort, SerialInv, StageInv
    <3> QED
      BY <2>0, <2>2, <3>1 DEF OpenPort
  <2>3. CASE LoopEnd
    BY <2>0, <2>3 DEF LoopEnd
  <2>4. CASE Wait
    BY <2>0, <2>4 DEF Wait
  <2>5. CASE Close
    BY <2>0, <2>5 DEF Close
  <2>6. CASE Exit
    BY <2>0, <2>6 DEF Exit
  <2>7. CASE Signal
    BY <2>0, <2>7 DEF Signal
  <2>8. CASE Gone \/ UNCHANGED serialVars
    BY <2>0, <2>8 DEF Gone, serialVars
  <2> QED
    BY <2>1, <2>2, <2>3, <2>4, <2>5, <2>6, <2>7, <2>8
<1>2. SerialTypeOK'
  BY <1>1 DEF SerialInv, SerialTypeOK, DecoderTypeOK, decoderVars, portVars, pollVars
<1> QED
  BY <1>1, <1>2, QuietSerialStep

LEMMA SerialStep ==
    ASSUME SerialInv, [SerialNext]_serialVars
    PROVE  SerialInv'
<1>1. CASE BeginPoll
  BY <1>1, BeginStep
<1>2. CASE SendCommand
  BY <1>2, SendCommandStep
<1>3. CASE WriteFails
  BY <1>3, WriteFailsStep
<1>4. CASE ReadHeader
  BY <1>4, ReadHeaderStep
<1>5. CASE ReadBody
  BY <1>5, ReadBodyStep
<1>6. CASE ReadCrc
  BY <1>6, ReadCrcStep
<1>7. CASE Timeout
  BY <1>7, TimeoutStep
<1>8. CASE CheckStatus
  BY <1>8, CheckStatusStep
<1>9. CASE FlushRead
  BY <1>9, FlushReadStep
<1>10. CASE FlushFails
  BY <1>10, FlushFailsStep
<1>11. CASE Emit
  BY <1>11, SendStep
<1>12. ASSUME NEW k \in PacketLengths, Arrive(k) PROVE SerialInv'
  BY <1>12, ArriveStep
<1>13. CASE \/ Connect \/ OpenPort \/ LoopEnd \/ Wait \/ Close \/ Exit
            \/ Signal \/ Gone \/ UNCHANGED serialVars
  BY <1>13, OtherSerialStep
<1> QED
  BY <1>1, <1>2, <1>3, <1>4, <1>5, <1>6, <1>7, <1>8, <1>9, <1>10, <1>11, <1>12, <1>13
     DEF SerialNext, Bridge, ReadOnce, Transact

\* The inductive invariant holds in every reachable state.
THEOREM SerialInvariant == SerialSpec => []SerialInv
<1>1. SerialInit => SerialInv
  BY SerialInitially
<1>2. SerialInv /\ [SerialNext]_serialVars => SerialInv'
  BY SerialStep
<1> QED
  BY <1>1, <1>2, PTL DEF SerialSpec

\* The variables of SerialBridge, its port and its decoder keep their types.
THEOREM SerialTypeCorrect == SerialSpec => []SerialTypeOK
<1>1. SerialInv => SerialTypeOK
  BY DEF SerialInv
<1> QED
  BY <1>1, SerialInvariant, PTL

\* For every read size, block length and number of polls, and whatever arrives or
\* fails to arrive on the line, at any time: each payload that _emit sends in a poll
\* in step is a whole frame, the poll's own or no older than the polls account for
\* that ended with a response still to be read, and newer than the payload before.
\* Polls of several reads behind a response left over, and polls behind a part of
\* one, are not in step (InStep): of them it says nothing.
THEOREM SerialSentWholeAndRecent == SerialSpec => []SentIsWholeAndRecent
<1>1. SerialInv => SentIsWholeAndRecent
  BY DEF SerialInv, SentInv
<1> QED
  BY <1>1, SerialInvariant, PTL

\* When the fields of the layout lie inside the block and there is one, a poll of
\* read_once that is in step and that nothing ended has a frame to send.  Polls of
\* several reads behind a response left over, and polls behind a part of one, are
\* excepted.
THEOREM SerialAnsweredHasFrame ==
    ASSUME RequiredLength \in 1..FrameLength
    PROVE  SerialSpec => []AnsweredPollHasFrame
<1>1. SerialInv => AnsweredPollHasFrame
  <2> SUFFICES ASSUME SerialInv, pc = "emit", InStep(residue) PROVE pending # 0
    BY DEF AnsweredPollHasFrame
  <2>1. /\ offset >= FrameLength /\ offset \in Nat /\ RangesInv
        /\ \A p \in Positions : Covers(ranges, p) <=> p < offset
        /\ emitted <=> pending # 0
    BY DEF SerialInv, SerialTypeOK, StageInv, FilledInv, Polling
  <2>2. \A p \in 0..(RequiredLength - 1) : p \in Positions /\ p < offset
    BY <2>1, FrameLengthAssumption DEF Positions
  <2>3. HasRequiredData(ranges)
    BY <2>1, <2>2 DEF HasRequiredData
  <2> QED
    BY <2>1, <2>3 DEF RangesInv
<1> QED
  BY <1>1, SerialInvariant, PTL
==============================================================================
