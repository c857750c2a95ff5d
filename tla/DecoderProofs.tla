----------------------------- MODULE DecoderProofs -----------------------------
(***************************************************************************)
(* Proofs about the two decoders: about the loop of _has_required_data     *)
(* (CoverageSweep), about the TunerStudio decoder fed with a capture       *)
(* (UsbCapture), and about the fixed frame decoder, for every stream,      *)
(* every way of cutting it into calls, every pattern and every frame       *)
(* length (FixedFrameDecoder).                                             *)
(*                                                                         *)
(* The capture's invariant CaptureInv says what the block, the segment and *)
(* the wire may hold together: an undisturbed cycle has exactly one        *)
(* response, or nothing, in the segment and on the wire, so that what      *)
(* _extract_response_data finds are the bytes polled at the segment's      *)
(* offset.  Lemmas about sequences come first, then the packets, then what *)
(* one finalization leaves (Sound), and then the steps.                    *)
(***************************************************************************)
EXTENDS UsbCapture, CoverageSweep, FixedFrameDecoder, SequenceTheorems, TLAPS

------------------------------------------------------------------------------
(* Sequences *)

LEMMA Concat ==
    ASSUME NEW S, NEW s \in Seq(S), NEW t \in Seq(S)
    PROVE  /\ s \o t \in Seq(S)
           /\ Len(s \o t) = Len(s) + Len(t)
           /\ \A k \in 1..Len(s) : (s \o t)[k] = s[k]
           /\ \A k \in 1..Len(t) : (s \o t)[Len(s) + k] = t[k]
<1>1. Len(s) \in Nat /\ Len(t) \in Nat
  OBVIOUS
<1>2. /\ s \o t \in Seq(S)
      /\ Len(s \o t) = Len(s) + Len(t)
      /\ \A i \in 1..(Len(s) + Len(t)) :
           (s \o t)[i] = IF i <= Len(s) THEN s[i] ELSE t[i - Len(s)]
  BY ConcatProperties
<1>3. ASSUME NEW k \in 1..Len(s) PROVE (s \o t)[k] = s[k]
  <2>1. k \in 1..(Len(s) + Len(t)) /\ k <= Len(s)
    BY <1>1
  <2> QED
    BY <1>2, <2>1
<1>4. ASSUME NEW k \in 1..Len(t) PROVE (s \o t)[Len(s) + k] = t[k]
  <2>1. /\ Len(s) + k \in 1..(Len(s) + Len(t))
        /\ ~(Len(s) + k <= Len(s))
        /\ (Len(s) + k) - Len(s) = k
    BY <1>1
  <2> QED
    BY <1>2, <2>1
<1> QED
  BY <1>2, <1>3, <1>4

\* The n elements of d after the first m.
LEMMA Slice ==
    ASSUME NEW S, NEW d \in Seq(S), NEW m \in Nat, NEW n \in Nat, m + n <= Len(d)
    PROVE  /\ SubSeq(d, m + 1, m + n) \in Seq(S)
           /\ Len(SubSeq(d, m + 1, m + n)) = n
           /\ \A k \in 1..n : SubSeq(d, m + 1, m + n)[k] = d[m + k]
<1>1. \A i \in (m + 1)..(m + n) : d[i] \in S
  <2>1. ASSUME NEW i \in (m + 1)..(m + n) PROVE i \in 1..Len(d)
    OBVIOUS
  <2> QED
    BY <2>1, ElementOfSeq
<1>2. m + 1 \in Int /\ m + n \in Int
  OBVIOUS
<1>3. /\ SubSeq(d, m + 1, m + n) \in Seq(S)
      /\ Len(SubSeq(d, m + 1, m + n)) =
           IF m + 1 <= m + n THEN (m + n) - (m + 1) + 1 ELSE 0
      /\ \A i \in 1..((m + n) - (m + 1) + 1) :
           SubSeq(d, m + 1, m + n)[i] = d[(m + 1) + i - 1]
  BY <1>1, <1>2, SubSeqProperties
<1>4. /\ (IF m + 1 <= m + n THEN (m + n) - (m + 1) + 1 ELSE 0) = n
      /\ (m + n) - (m + 1) + 1 = n
  OBVIOUS
<1>5. \A k \in 1..n : (m + 1) + k - 1 = m + k
  OBVIOUS
<1> QED
  BY <1>3, <1>4, <1>5

LEMMA TailOf ==
    ASSUME NEW S, NEW d \in Seq(S), d # <<>>
    PROVE  /\ Tail(d) \in Seq(S)
           /\ Len(Tail(d)) = Len(d) - 1
           /\ \A k \in 1..(Len(d) - 1) : Tail(d)[k] = d[k + 1]
BY HeadTailProperties

LEMMA ListOf ==
    ASSUME NEW S, NEW n \in Nat, NEW f \in [1..n -> S]
    PROVE  f \in Seq(S) /\ Len(f) = n
OBVIOUS

------------------------------------------------------------------------------
(* The packets of the ECU and what _extract_response_data makes of them *)

\* The bytes polled at n offsets from o on, in cycle c.
Polled(o, n, c) == [k \in 1..n |-> DataByte(o + k - 1, c)]

LEMMA ByteTypes ==
    ASSUME NEW p \in Nat, NEW c \in Nat
    PROVE  /\ DataByte(p, c) \in Bytes
           /\ \A tag \in Tags : Byte(tag, p) \in Bytes
BY DEF DataByte, Byte, Bytes, Tags

LEMMA PolledType ==
    ASSUME NEW o \in Nat, NEW n \in Nat, NEW c \in Nat
    PROVE  /\ Polled(o, n, c) \in Seq(Bytes)
           /\ Len(Polled(o, n, c)) = n
           /\ \A k \in 1..n : Polled(o, n, c)[k] = DataByte(o + k - 1, c)
<1>1. ASSUME NEW k \in 1..n PROVE DataByte(o + k - 1, c) \in Bytes
  BY ByteTypes
<1>2. Polled(o, n, c) \in [1..n -> Bytes]
  BY <1>1 DEF Polled
<1>3. \A k \in 1..n : Polled(o, n, c)[k] = DataByte(o + k - 1, c)
  BY DEF Polled
<1> QED
  BY <1>2, <1>3

\* A packet: its prefix, its payload, four bytes of checksum.
LEMMA PacketShape ==
    ASSUME NEW payload \in Seq(Bytes)
    PROVE  /\ Packet(payload) \in Seq(Bytes)
           /\ Len(Packet(payload)) = Len(payload) + 6
           /\ Packet(payload)[1] = Byte("hi", 0)
           /\ Packet(payload)[2] = Byte("lo", Len(payload))
           /\ \A k \in 1..Len(payload) : Packet(payload)[2 + k] = payload[k]
           /\ \A k \in 1..4 : Packet(payload)[Len(payload) + 2 + k] = Byte("crc", 0)
<1> DEFINE prefix == <<Byte("hi", 0), Byte("lo", Len(payload))>>
           crc == [i \in 1..4 |-> Byte("crc", 0)]
           body == prefix \o payload
<1>1. Len(payload) \in Nat
  OBVIOUS
<1>2. prefix \in Seq(Bytes) /\ Len(prefix) = 2 /\ prefix[1] = Byte("hi", 0)
      /\ prefix[2] = Byte("lo", Len(payload))
  <2>1. Byte("hi", 0) \in Bytes /\ Byte("lo", Len(payload)) \in Bytes
    BY <1>1, ByteTypes DEF Tags
  <2> QED
    BY <2>1
<1>3. crc \in Seq(Bytes) /\ Len(crc) = 4 /\ \A k \in 1..4 : crc[k] = Byte("crc", 0)
  <2>1. Byte("crc", 0) \in Bytes
    BY ByteTypes DEF Tags
  <2>2. crc \in [1..4 -> Bytes] /\ \A k \in 1..4 : crc[k] = Byte("crc", 0)
    BY <2>1
  <2>3. 4 \in Nat
    OBVIOUS
  <2> HIDE DEF crc
  <2>4. crc \in Seq(Bytes) /\ Len(crc) = 4
    <3>1. ASSUME NEW m \in Nat, m = 4 PROVE crc \in Seq(Bytes) /\ Len(crc) = m
      <4>1. crc \in [1..m -> Bytes]
        BY <2>2, <3>1
      <4> QED
        BY <4>1, ListOf
    <3> QED
      BY <2>3, <3>1
  <2> QED
    BY <2>2, <2>4
<1>4. Packet(payload) = body \o crc
  BY DEF Packet
<1> HIDE DEF prefix, crc
<1>5. /\ body \in Seq(Bytes)
      /\ Len(body) = 2 + Len(payload)
      /\ body[1] = prefix[1] /\ body[2] = prefix[2]
      /\ \A k \in 1..Len(payload) : body[2 + k] = payload[k]
  <2>1. /\ body \in Seq(Bytes) /\ Len(body) = Len(prefix) + Len(payload)
        /\ \A k \in 1..Len(prefix) : body[k] = prefix[k]
        /\ \A k \in 1..Len(payload) : body[Len(prefix) + k] = payload[k]
    <3>1. prefix \in Seq(Bytes) /\ payload \in Seq(Bytes)
      BY <1>2
    <3> QED
      BY <3>1, Concat
  <2>2. 1 \in 1..2 /\ 2 \in 1..2
    OBVIOUS
  <2> QED
    BY <1>2, <2>1, <2>2
<1> HIDE DEF body
<1>6. /\ body \o crc \in Seq(Bytes)
      /\ Len(body \o crc) = Len(body) + Len(crc)
      /\ \A k \in 1..Len(body) : (body \o crc)[k] = body[k]
      /\ \A k \in 1..Len(crc) : (body \o crc)[Len(body) + k] = crc[k]
  <2>1. body \in Seq(Bytes) /\ crc \in Seq(Bytes)
    BY <1>3, <1>5
  <2> QED
    BY <2>1, Concat
<1>7. /\ Len(body) + Len(crc) = Len(payload) + 6
      /\ 1 \in 1..Len(body) /\ 2 \in 1..Len(body)
      /\ \A k \in 1..Len(payload) : 2 + k \in 1..Len(body)
      /\ Len(body) = Len(payload) + 2
  BY <1>1, <1>3, <1>5
<1>8. \A k \in 1..Len(payload) : (body \o crc)[2 + k] = payload[k]
  BY <1>5, <1>6, <1>7
<1>9. \A k \in 1..4 : (body \o crc)[Len(payload) + 2 + k] = Byte("crc", 0)
  BY <1>3, <1>6, <1>7
<1> QED
  BY <1>2, <1>4, <1>5, <1>6, <1>7, <1>8, <1>9

LEMMA AnswerShape ==
    ASSUME NEW o \in Nat, NEW n \in Nat, NEW c \in Nat
    PROVE  /\ Answer(o, n, c) \in Seq(Bytes)
           /\ Len(Answer(o, n, c)) = n + 7
           /\ Answer(o, n, c)[1] = Byte("hi", 0)
           /\ Answer(o, n, c)[2] = Byte("lo", n + 1)
           /\ Answer(o, n, c)[3] = Byte("status", 0)
           /\ \A k \in 1..n : Answer(o, n, c)[3 + k] = DataByte(o + k - 1, c)
           /\ \A k \in 1..4 : Answer(o, n, c)[n + 3 + k] = Byte("crc", 0)
<1> DEFINE status == <<Byte("status", 0)>>
           payload == status \o Polled(o, n, c)
<1>1. status \in Seq(Bytes) /\ Len(status) = 1 /\ status[1] = Byte("status", 0)
  <2>1. Byte("status", 0) \in Bytes
    BY ByteTypes DEF Tags
  <2> QED
    BY <2>1
<1>2. Answer(o, n, c) = Packet(payload)
  BY DEF Answer, Polled
<1> HIDE DEF status
<1>3. /\ payload \in Seq(Bytes) /\ Len(payload) = n + 1 /\ payload[1] = Byte("status", 0)
      /\ \A k \in 1..n : payload[1 + k] = DataByte(o + k - 1, c)
  <2>1. /\ Polled(o, n, c) \in Seq(Bytes) /\ Len(Polled(o, n, c)) = n
        /\ \A k \in 1..n : Polled(o, n, c)[k] = DataByte(o + k - 1, c)
    BY PolledType
  <2>2. /\ payload \in Seq(Bytes)
        /\ Len(payload) = Len(status) + Len(Polled(o, n, c))
        /\ \A k \in 1..Len(status) : payload[k] = status[k]
        /\ \A k \in 1..Len(Polled(o, n, c)) : payload[Len(status) + k] = Polled(o, n, c)[k]
    <3>1. status \in Seq(Bytes) /\ Polled(o, n, c) \in Seq(Bytes)
      BY <1>1, <2>1
    <3> QED
      BY <3>1, Concat
  <2>3. 1 \in 1..1
    OBVIOUS
  <2> QED
    BY <1>1, <2>1, <2>2, <2>3
<1> HIDE DEF payload
<1>4. /\ Packet(payload) \in Seq(Bytes)
      /\ Len(Packet(payload)) = Len(payload) + 6
      /\ Packet(payload)[1] = Byte("hi", 0)
      /\ Packet(payload)[2] = Byte("lo", Len(payload))
      /\ \A k \in 1..Len(payload) : Packet(payload)[2 + k] = payload[k]
      /\ \A k \in 1..4 : Packet(payload)[Len(payload) + 2 + k] = Byte("crc", 0)
  BY <1>3, PacketShape
<1>5. /\ (n + 1) + 6 = n + 7 /\ (n + 1) + 2 = n + 3
      /\ 1 \in 1..(n + 1) /\ 2 + 1 = 3
      /\ \A k \in 1..n : 1 + k \in 1..(n + 1) /\ 2 + (1 + k) = 3 + k
  OBVIOUS
<1>6. \A k \in 1..n : Packet(payload)[3 + k] = DataByte(o + k - 1, c)
  <2> TAKE k \in 1..n
  <2>1. Packet(payload)[2 + (1 + k)] = payload[1 + k]
    BY <1>3, <1>4, <1>5
  <2> QED
    BY <1>3, <1>5, <2>1
<1>7. Packet(payload)[3] = Byte("status", 0)
  <2>1. Packet(payload)[2 + 1] = payload[1]
    BY <1>3, <1>4, <1>5
  <2> QED
    BY <1>3, <2>1
<1> QED
  BY <1>2, <1>3, <1>4, <1>5, <1>6, <1>7

LEMMA RefusalShape ==
    /\ Refusal \in Seq(Bytes)
    /\ Len(Refusal) = 7
    /\ Refusal[1] = Byte("hi", 0) /\ Refusal[2] = Byte("lo", 1)
    /\ Refusal[3] = Byte("status", 130)
    /\ \A k \in 1..4 : Refusal[3 + k] = Byte("crc", 0)
<1> DEFINE payload == <<Byte("status", 130)>>
<1>1. payload \in Seq(Bytes) /\ Len(payload) = 1 /\ payload[1] = Byte("status", 130)
  <2>1. Byte("status", 130) \in Bytes
    BY ByteTypes DEF Tags
  <2> QED
    BY <2>1
<1>2. Refusal = Packet(payload)
  BY DEF Refusal
<1> HIDE DEF payload
<1>3. /\ Packet(payload) \in Seq(Bytes)
      /\ Len(Packet(payload)) = Len(payload) + 6
      /\ Packet(payload)[1] = Byte("hi", 0)
      /\ Packet(payload)[2] = Byte("lo", Len(payload))
      /\ \A k \in 1..Len(payload) : Packet(payload)[2 + k] = payload[k]
      /\ \A k \in 1..4 : Packet(payload)[Len(payload) + 2 + k] = Byte("crc", 0)
  BY <1>1, PacketShape
<1>4. 1 \in 1..1 /\ 2 + 1 = 3 /\ 1 + 2 = 3 /\ 1 + 6 = 7
  OBVIOUS
<1>5. Packet(payload)[3] = Byte("status", 130)
  BY <1>1, <1>3, <1>4
<1> QED
  BY <1>1, <1>2, <1>3, <1>4, <1>5

\* A packet whose length prefix tells the truth: its payload is what counts.
LEMMA PresentPacket ==
    ASSUME NEW d \in Seq(Bytes), NEW n \in Nat, Len(d) >= n + 7,
           d[1] = Byte("hi", 0), d[2] = Byte("lo", n + 1)
    PROVE  ExtractResponseData(d) = PayloadsAfterStatus(SubSeq(d, 3, n + 3))
<1>1. Len(d) \in Nat /\ Len(d) >= 7 /\ d # <<>>
  OBVIOUS
<1>2. DeclaredLengths(d) = {n + 1}
  BY DEF DeclaredLengths, IsKnown, Byte
<1>3. n + 1 \in 1..(Len(d) - 2) /\ (n + 1) + 2 = n + 3
  BY <1>1
<1>4. PresentLengths(d) = {n + 1}
  BY <1>1, <1>2, <1>3 DEF PresentLengths
<1>5. ~FallsThrough(d)
  BY <1>1, <1>2, <1>3 DEF FallsThrough
<1> QED
  BY <1>1, <1>3, <1>4, <1>5 DEF ExtractResponseData

\* A whole answer is stripped down to the bytes polled.
LEMMA AnswerExtract ==
    ASSUME NEW o \in Nat, NEW n \in Nat, NEW c \in Nat
    PROVE  ExtractResponseData(Answer(o, n, c)) = {Polled(o, n, c)}
<1> DEFINE d == Answer(o, n, c)
           p == SubSeq(d, 3, n + 3)
<1>1. /\ d \in Seq(Bytes) /\ Len(d) = n + 7
      /\ d[1] = Byte("hi", 0) /\ d[2] = Byte("lo", n + 1) /\ d[3] = Byte("status", 0)
      /\ \A k \in 1..n : d[3 + k] = DataByte(o + k - 1, c)
  BY AnswerShape
<1> HIDE DEF d
<1>2. ExtractResponseData(d) = PayloadsAfterStatus(p)
  BY <1>1, PresentPacket
<1>3. /\ p \in Seq(Bytes) /\ Len(p) = n + 1
      /\ \A k \in 1..(n + 1) : p[k] = d[2 + k]
  <2>1. n + 1 \in Nat /\ 2 + 1 = 3 /\ 2 + (n + 1) = n + 3 /\ 2 + (n + 1) <= Len(d)
    BY <1>1
  <2>2. /\ SubSeq(d, 2 + 1, 2 + (n + 1)) \in Seq(Bytes)
        /\ Len(SubSeq(d, 2 + 1, 2 + (n + 1))) = n + 1
        /\ \A k \in 1..(n + 1) : SubSeq(d, 2 + 1, 2 + (n + 1))[k] = d[2 + k]
    BY <1>1, <2>1, Slice
  <2> QED
    BY <2>1, <2>2
<1> HIDE DEF p
<1>4. p # <<>> /\ p[1] = Byte("status", 0)
  <2>1. 1 \in 1..(n + 1) /\ 2 + 1 = 3
    OBVIOUS
  <2> QED
    BY <1>1, <1>3, <2>1
<1>5. PayloadsAfterStatus(p) = {Tail(p)}
  <2>1. p[1].tag = "status" /\ p[1].at = 0
    BY <1>4 DEF Byte
  <2>2. ZeroTests(p[1]) = {TRUE}
    BY <2>1 DEF ZeroTests, IsKnown
  <2> QED
    BY <2>2 DEF PayloadsAfterStatus
<1>6. Tail(p) = Polled(o, n, c)
  <2>1. /\ Tail(p) \in Seq(Bytes) /\ Len(Tail(p)) = Len(p) - 1
        /\ \A k \in 1..(Len(p) - 1) : Tail(p)[k] = p[k + 1]
    BY <1>3, <1>4, TailOf
  <2>2. Len(p) - 1 = n
    BY <1>3
  <2>3. ASSUME NEW k \in 1..n PROVE Tail(p)[k] = DataByte(o + k - 1, c)
    <3>1. k + 1 \in 1..(n + 1) /\ 2 + (k + 1) = 3 + k
      OBVIOUS
    <3>2. p[k + 1] = d[2 + (k + 1)]
      BY <1>3, <3>1
    <3> QED
      BY <1>1, <2>1, <2>2, <3>1, <3>2
  <2>4. /\ Polled(o, n, c) \in Seq(Bytes) /\ Len(Polled(o, n, c)) = n
        /\ \A k \in 1..n : Polled(o, n, c)[k] = DataByte(o + k - 1, c)
    BY PolledType
  <2>5. Len(Tail(p)) = Len(Polled(o, n, c))
        /\ \A k \in 1..Len(Tail(p)) : Tail(p)[k] = Polled(o, n, c)[k]
    BY <2>1, <2>2, <2>3, <2>4, Zenon
  <2> QED
    BY <2>1, <2>4, <2>5, SeqEqual, Zenon
<1> QED
  BY <1>2, <1>5, <1>6 DEF d

\* A refusal holds nothing.
LEMMA RefusalExtract == ExtractResponseData(Refusal) = {<<>>}
<1> DEFINE p == SubSeq(Refusal, 3, 3)
<1>1. /\ Refusal \in Seq(Bytes) /\ Len(Refusal) >= 0 + 7
      /\ Refusal[1] = Byte("hi", 0) /\ Refusal[2] = Byte("lo", 0 + 1)
      /\ Refusal[3] = Byte("status", 130)
  BY RefusalShape
<1>2. ExtractResponseData(Refusal) = PayloadsAfterStatus(SubSeq(Refusal, 3, 0 + 3))
  BY <1>1, PresentPacket
<1>3. p[1] = Byte("status", 130)
  <2>1. \A k \in 1..1 : SubSeq(Refusal, 2 + 1, 2 + 1)[k] = Refusal[2 + k]
    BY <1>1, Slice
  <2>2. 2 + 1 = 3 /\ 1 \in 1..1
    OBVIOUS
  <2> QED
    BY <1>1, <2>1, <2>2
<1> HIDE DEF p
<1>4. PayloadsAfterStatus(p) = {<<>>}
  <2>1. p[1].tag = "status" /\ p[1].at = 130
    BY <1>3 DEF Byte
  <2>2. ZeroTests(p[1]) = {FALSE}
    <3>1. ZeroTests(p[1]) = {p[1].at = 0}
      BY <2>1 DEF ZeroTests, IsKnown
    <3>2. (p[1].at = 0) = FALSE
      BY <2>1
    <3> QED
      BY <3>1, <3>2
  <2> QED
    BY <2>2 DEF PayloadsAfterStatus
<1>5. 0 + 3 = 3
  OBVIOUS
<1> QED
  BY <1>2, <1>4, <1>5 DEF p

\* Whatever the segment holds, what is extracted is made of its bytes.
LEMMA ExtractIsPart ==
    ASSUME NEW S, NEW d \in Seq(S), NEW x \in ExtractResponseData(d)
    PROVE  x \in Seq(S)
<1>1. CASE d = <<>>
  BY <1>1 DEF ExtractResponseData
<1>2. CASE d # <<>>
  <2>1. ASSUME NEW n \in PresentLengths(d), x \in PayloadsAfterStatus(SubSeq(d, 3, n + 2))
        PROVE  x \in Seq(S)
    <3>1. n \in Nat /\ 1 <= n /\ 2 + n <= Len(d) /\ n + 2 = 2 + n /\ 2 + 1 = 3
      BY <2>1 DEF PresentLengths
    <3>2. SubSeq(d, 2 + 1, 2 + n) \in Seq(S) /\ Len(SubSeq(d, 2 + 1, 2 + n)) = n
      BY <3>1, Slice
    <3> DEFINE p == SubSeq(d, 3, n + 2)
    <3>3. p \in Seq(S) /\ Len(p) = n
      BY <3>1, <3>2
    <3> HIDE DEF p
    <3>4. p # <<>>
      BY <3>1, <3>3
    <3>5. Tail(p) \in Seq(S) /\ <<>> \in Seq(S)
      BY <3>3, <3>4, TailOf
    <3>6. x \in {Tail(p), <<>>}
      BY <2>1 DEF PayloadsAfterStatus, p
    <3> QED
      BY <3>5, <3>6
  <2>2. CASE x \in FallbackResults(d)
    <3>1. Tail(d) \in Seq(S)
      BY <1>2, TailOf
    <3> QED
      BY <2>2, <3>1 DEF FallbackResults
  <2>3. (\E n \in PresentLengths(d) : x \in PayloadsAfterStatus(SubSeq(d, 3, n + 2)))
          \/ x \in FallbackResults(d)
    BY <1>2 DEF ExtractResponseData
  <2> QED
    BY <2>1, <2>2, <2>3
<1> QED
  BY <1>1, <1>2

------------------------------------------------------------------------------
(* The inductive invariant of the capture *)

\* Bytes that a response of cycle c may hold.
Fresh(c) == {b \in Bytes : b.tag # "zero" /\ b.cyc \in {0, c}}

Clean == cycle \notin disturbed \cup spoiled
Decoded(c) == \E i \in DOMAIN decodedIn : decodedIn[i] = c

\* The whole answer to the read in progress.
Current == Answer(Plan[at].offset, Plan[at].count, cycle)

InRead(i, p) == Plan[i].offset <= p /\ p < Plan[i].offset + Plan[i].count

\* The histories speak of cycles that have begun.
HistoryInv ==
    /\ spoiled \cup disturbed \cup whole \subseteq 0..cycle
    /\ Len(decodedIn) = Len(frames)
    /\ \A i \in DOMAIN decodedIn : decodedIn[i] <= cycle
    /\ over => ~segment.open

\* The ranges lie in the block; once they suffice, the block has been decoded.
RangesInv ==
    /\ \A v \in ranges : v[1] < v[2] /\ v[2] <= FrameLength
    /\ HasRequiredData(ranges) => emitted

\* The segment and the wire hold bytes of this cycle; in an undisturbed cycle
\* they make up one response to the read in progress.
WireInv ==
    /\ wire \in Seq(Fresh(cycle))
    /\ segment.data \in Seq(Fresh(cycle))
    /\ cycle \notin disturbed /\ segment.open =>
         /\ segment.offset = Plan[at].offset
         /\ segment.count = Plan[at].count
         /\ segment.data \o wire \in IF answered THEN {Current} ELSE {Refusal, <<>>}

\* What the block holds where it is covered, and until it is decoded.
BlockInv ==
    /\ \A p \in Positions : Covers(ranges, p) => block[p].tag # "zero"
    /\ ~emitted => \A p \in Positions : block[p].cyc \in {0, cycle}
    /\ CoveredBytesInPlace
    /\ cycle \in spoiled \ disturbed => emitted

\* The decoded frames; an undisturbed cycle is decoded once.
FramesInv ==
    /\ FramesAreWhole
    /\ FramesInOrder
    /\ cycle \notin disturbed /\ Decoded(cycle) => emitted

\* In a clean cycle each captured response is in the block, or in the segment.
WholeInv ==
    /\ Clean /\ wire # <<>> => segment.open
    /\ cycle \in whole => got = Reads
    /\ Clean => \A i \in got :
         \/ \A p \in Positions : InRead(i, p) => Covers(ranges, p)
         \/ i = at /\ segment.open /\ answered /\ wire = <<>>
    /\ Clean /\ emitted => Decoded(cycle)

CaptureInv ==
    /\ TypeOK /\ HistoryInv /\ RangesInv /\ WireInv /\ BlockInv /\ FramesInv /\ WholeInv

------------------------------------------------------------------------------
(* What a finalized segment leaves *)

LEMMA UsableBounds ==
    ASSUME NEW s, s.offset \in Nat, s.count \in Nat, NEW x, Len(x) \in Nat
    PROVE  LET n == UsableCount(s, x) IN
           /\ n \in Nat /\ n <= s.count /\ n <= Len(x)
           /\ n > 0 => s.offset + n <= FrameLength
           /\ Len(x) = s.count =>
                \A p \in Positions : p < s.offset + s.count => p < s.offset + n
BY FrameLengthAssumption DEF UsableCount, Smaller, Positions

LEMMA CoversMore ==
    ASSUME NEW r, NEW a \in Nat, NEW b \in Nat, NEW p \in Nat
    PROVE  Covers(r \cup {<<a, b>>}, p) <=> Covers(r, p) \/ (a <= p /\ p < b)
<1> DEFINE w == <<a, b>>
<1>1. w[1] = a /\ w[2] = b
  OBVIOUS
<1> HIDE DEF w
<1>2. Covers(r \cup {w}, p) <=> Covers(r, p) \/ (w[1] <= p /\ p < w[2])
  BY Zenon DEF Covers
<1> QED
  BY <1>1, <1>2 DEF w

\* The block and ranges that a finalized segment leaves.
LEMMA DepositShape ==
    ASSUME DecoderTypeOK, RangesInv, NEW x \in Seq(Bytes)
    PROVE  LET n == UsableCount(segment, x)
               o == segment.offset
               f == Deposit(x)
           IN /\ f.block \in [Positions -> Bytes]
              /\ \A p \in Positions :
                   /\ o <= p /\ p < o + n => f.block[p] = x[p - o + 1] /\ p - o + 1 \in 1..Len(x)
                   /\ ~(o <= p /\ p < o + n) => f.block[p] = block[p]
              /\ \A p \in Nat : Covers(f.ranges, p) <=> Covers(ranges, p) \/ (o <= p /\ p < o + n)
              /\ f.ranges \subseteq Nat \X Nat
              /\ \A v \in f.ranges : v[1] < v[2] /\ v[2] <= FrameLength
              /\ ranges \subseteq f.ranges
              /\ f.completes \in BOOLEAN
              /\ HasRequiredData(f.ranges) => emitted \/ f.completes
              /\ f.completes => ~emitted /\ HasRequiredData(f.ranges)
<1> DEFINE n == UsableCount(segment, x)
           o == segment.offset
           f == Deposit(x)
<1>1. o \in Nat /\ segment.count \in Nat /\ Len(x) \in Nat /\ emitted \in BOOLEAN
      /\ ranges \subseteq Nat \X Nat /\ block \in [Positions -> Bytes]
  BY DEF DecoderTypeOK
<1>2. n \in Nat /\ n <= Len(x) /\ (n > 0 => o + n <= FrameLength)
  BY <1>1, UsableBounds
<1>3. /\ f.block = Written(o, n, x)
      /\ f.ranges = IF n > 0 THEN ranges \cup {<<o, o + n>>} ELSE ranges
      /\ f.completes = (n > 0 /\ ~emitted /\ HasRequiredData(f.ranges))
  BY DEF Deposit
<1> HIDE DEF n, o, f
<1>4. \A p \in Positions : p \in Nat
  BY FrameLengthAssumption DEF Positions
<1>5. ASSUME NEW p \in Positions, o <= p, p < o + n
      PROVE  p - o + 1 \in 1..Len(x) /\ x[p - o + 1] \in Bytes
  <2>1. p - o + 1 \in 1..Len(x)
    BY <1>1, <1>2, <1>4, <1>5
  <2> QED
    BY <2>1, ElementOfSeq
<1>6. \A p \in Positions : f.block[p] = IF o <= p /\ p < o + n THEN x[p - o + 1] ELSE block[p]
  BY <1>3 DEF Written
<1>7. f.block \in [Positions -> Bytes]
  <2>1. \A p \in Positions : (IF o <= p /\ p < o + n THEN x[p - o + 1] ELSE block[p]) \in Bytes
    BY <1>1, <1>5
  <2> QED
    BY <1>3, <2>1 DEF Written
<1>8. \A p \in Nat : Covers(f.ranges, p) <=> Covers(ranges, p) \/ (o <= p /\ p < o + n)
  <2>1. CASE n > 0
    BY <1>1, <1>2, <1>3, <2>1, CoversMore
  <2>2. CASE ~(n > 0)
    BY <1>1, <1>2, <1>3, <2>2
  <2> QED
    BY <2>1, <2>2
<1>9. /\ f.ranges \subseteq Nat \X Nat
      /\ \A v \in f.ranges : v[1] < v[2] /\ v[2] <= FrameLength
      /\ ranges \subseteq f.ranges
  <2>1. CASE n > 0
    BY <1>1, <1>2, <1>3, <2>1 DEF RangesInv
  <2>2. CASE ~(n > 0)
    BY <1>1, <1>3, <2>2 DEF RangesInv
  <2> QED
    BY <2>1, <2>2
<1>10. /\ f.completes \in BOOLEAN
       /\ HasRequiredData(f.ranges) => emitted \/ f.completes
       /\ f.completes => ~emitted /\ HasRequiredData(f.ranges)
  <2>1. CASE n > 0
    BY <1>1, <1>3, <2>1
  <2>2. CASE ~(n > 0)
    BY <1>1, <1>3, <2>2 DEF RangesInv
  <2> QED
    BY <2>1, <2>2
<1> QED
  BY <1>5, <1>6, <1>7, <1>8, <1>9, <1>10 DEF n, o, f

LEMMA FreshBytes ==
    ASSUME NEW c, NEW s \in Seq(Fresh(c))
    PROVE  s \in Seq(Bytes)
BY SeqMonotonic DEF Fresh

\* What holds of a finalization f before its result is stored.
Sound(f) ==
    /\ f.block \in [Positions -> Bytes]
    /\ f.ranges \subseteq Nat \X Nat
    /\ \A v \in f.ranges : v[1] < v[2] /\ v[2] <= FrameLength
    /\ f.completes \in BOOLEAN
    /\ HasRequiredData(f.ranges) => emitted \/ f.completes
    /\ f.completes => ~emitted /\ HasRequiredData(f.ranges)
    /\ \A p \in Positions :
         /\ Covers(ranges, p) => Covers(f.ranges, p)
         /\ Covers(f.ranges, p) => f.block[p].tag # "zero"
         /\ ~emitted => f.block[p].cyc \in {0, cycle}
         /\ Clean /\ Covers(f.ranges, p) => f.block[p] = DataByte(p, cycle)
         /\ Clean /\ segment.open /\ answered /\ InRead(at, p) => Covers(f.ranges, p)

\* With no response under way, in a clean cycle, the segment holds the bytes
\* polled at its offset, or nothing.
LEMMA ExtractedInPlace ==
    ASSUME CaptureInv, wire = <<>>, segment.open, Clean, NEW x \in ExtractResponseData(segment.data)
    PROVE  /\ segment.offset = Plan[at].offset /\ segment.count = Plan[at].count
           /\ x = IF answered THEN Polled(segment.offset, segment.count, cycle) ELSE <<>>
<1>1. /\ segment.offset = Plan[at].offset /\ segment.count = Plan[at].count
      /\ segment.data \o wire \in IF answered THEN {Current} ELSE {Refusal, <<>>}
  BY DEF CaptureInv, WireInv, Clean
<1>2. /\ segment.offset \in Nat /\ segment.count \in Nat /\ cycle \in Nat
      /\ segment.data \in Seq(Bytes) /\ answered \in BOOLEAN
  BY BoundsAssumption DEF CaptureInv, TypeOK, DecoderTypeOK
<1>3. segment.data \o wire = segment.data
  BY <1>2, ConcatEmptySeq
<1>4. ASSUME answered PROVE x = Polled(segment.offset, segment.count, cycle)
  <2>1. segment.data = Answer(segment.offset, segment.count, cycle)
    BY <1>1, <1>3, <1>4 DEF Current
  <2>2. ExtractResponseData(Answer(segment.offset, segment.count, cycle))
          = {Polled(segment.offset, segment.count, cycle)}
    BY <1>2, AnswerExtract
  <2> QED
    BY <2>1, <2>2
<1>5. ASSUME ~answered PROVE x = <<>>
  <2>1. segment.data \in {Refusal, <<>>}
    BY <1>1, <1>3, <1>5
  <2>2. CASE segment.data = Refusal
    BY <2>2, RefusalExtract
  <2>3. CASE segment.data = <<>>
    BY <2>3 DEF ExtractResponseData
  <2> QED
    BY <2>1, <2>2, <2>3
<1> QED
  BY <1>1, <1>4, <1>5

LEMMA FinalizationSound ==
    ASSUME CaptureInv, wire = <<>>, NEW f \in Finalizations
    PROVE  Sound(f)
<1>0. /\ DecoderTypeOK /\ RangesInv /\ BlockInv /\ cycle \in Nat /\ answered \in BOOLEAN
      /\ segment.data \in Seq(Fresh(cycle)) /\ CoveredBytesInPlace
  BY BoundsAssumption DEF CaptureInv, TypeOK, WireInv, BlockInv
<1>1. /\ \A p \in Positions : p \in Nat
      /\ \A p \in Positions : Covers(ranges, p) => block[p].tag # "zero"
      /\ ~emitted => \A p \in Positions : block[p].cyc \in {0, cycle}
      /\ Clean => \A p \in Positions : Covers(ranges, p) => block[p] = DataByte(p, cycle)
  BY <1>0, FrameLengthAssumption DEF Positions, BlockInv, CoveredBytesInPlace, Clean
<1>2. CASE ~segment.open
  <2>1. f.block = block /\ f.ranges = ranges /\ f.completes = FALSE
    BY <1>2 DEF Finalizations, Untouched
  <2> QED
    BY <1>0, <1>1, <1>2, <2>1 DEF Sound, DecoderTypeOK, RangesInv
<1>3. CASE segment.open
  <2>1. PICK x \in ExtractResponseData(segment.data) : f = Deposit(x)
    BY <1>3 DEF Finalizations
  <2>2. x \in Seq(Fresh(cycle))
    BY <1>0, ExtractIsPart
  <2>3. x \in Seq(Bytes)
    BY <2>2, FreshBytes
  <2> DEFINE n == UsableCount(segment, x)
             o == segment.offset
  <2>4. o \in Nat /\ segment.count \in Nat /\ Len(x) \in Nat
    BY <1>0, <2>3 DEF DecoderTypeOK
  <2>5. /\ n \in Nat /\ n <= Len(x)
        /\ Len(x) = segment.count =>
             \A p \in Positions : p < segment.offset + segment.count => p < segment.offset + n
    BY <2>4, UsableBounds
  <2>6. /\ f.block \in [Positions -> Bytes]
        /\ \A p \in Positions :
             /\ o <= p /\ p < o + n => f.block[p] = x[p - o + 1] /\ p - o + 1 \in 1..Len(x)
             /\ ~(o <= p /\ p < o + n) => f.block[p] = block[p]
        /\ \A p \in Nat : Covers(f.ranges, p) <=> Covers(ranges, p) \/ (o <= p /\ p < o + n)
        /\ f.ranges \subseteq Nat \X Nat
        /\ \A v \in f.ranges : v[1] < v[2] /\ v[2] <= FrameLength
        /\ f.completes \in BOOLEAN
        /\ HasRequiredData(f.ranges) => emitted \/ f.completes
        /\ f.completes => ~emitted /\ HasRequiredData(f.ranges)
    BY <1>0, <2>1, <2>3, DepositShape
  <2> HIDE DEF n
  <2>7. ASSUME NEW p \in Positions, o <= p, p < o + n
        PROVE  f.block[p].tag # "zero" /\ f.block[p].cyc \in {0, cycle}
    <3>1. f.block[p] = x[p - o + 1] /\ p - o + 1 \in 1..Len(x)
      BY <2>6, <2>7
    <3>2. f.block[p] \in Fresh(cycle)
      BY <2>2, <3>1, ElementOfSeq
    <3> QED
      BY <3>2 DEF Fresh
  <2>8. ASSUME NEW p \in Positions, Clean, o <= p, p < o + n
        PROVE  f.block[p] = DataByte(p, cycle)
    <3>1. f.block[p] = x[p - o + 1] /\ p - o + 1 \in 1..Len(x)
      BY <2>6, <2>8
    <3>2. x = IF answered THEN Polled(o, segment.count, cycle) ELSE <<>>
      BY <1>3, <2>8, ExtractedInPlace
    <3>3. answered
      BY <3>1, <3>2
    <3>4. /\ Len(Polled(o, segment.count, cycle)) = segment.count
          /\ \A k \in 1..segment.count :
               Polled(o, segment.count, cycle)[k] = DataByte(o + k - 1, cycle)
      BY <1>0, <2>4, PolledType, Zenon
    <3>5. f.block[p] = DataByte(o + (p - o + 1) - 1, cycle)
      BY <3>1, <3>2, <3>3, <3>4
    <3>6. o + (p - o + 1) - 1 = p
      BY <1>1, <2>4
    <3> QED
      BY <3>5, <3>6
  <2>9. ASSUME NEW p \in Positions, Clean, answered, InRead(at, p)
        PROVE  o <= p /\ p < o + n
    <3>1. /\ o = Plan[at].offset /\ segment.count = Plan[at].count
          /\ x = IF answered THEN Polled(o, segment.count, cycle) ELSE <<>>
      BY <1>3, <2>9, ExtractedInPlace
    <3>2. Len(Polled(o, segment.count, cycle)) = segment.count
      BY <1>0, <2>4, PolledType, ZenonT(30)
    <3>3. Len(x) = segment.count
      BY <2>9, <3>1, <3>2
    <3>4. o <= p /\ p < o + segment.count
      BY <2>9, <3>1 DEF InRead
    <3> QED
      BY <2>5, <3>3, <3>4
  <2>10. ASSUME NEW p \in Positions
         PROVE  /\ Covers(ranges, p) => Covers(f.ranges, p)
                /\ Covers(f.ranges, p) => f.block[p].tag # "zero"
                /\ ~emitted => f.block[p].cyc \in {0, cycle}
                /\ Clean /\ Covers(f.ranges, p) => f.block[p] = DataByte(p, cycle)
                /\ Clean /\ segment.open /\ answered /\ InRead(at, p) => Covers(f.ranges, p)
    <3>1. Covers(f.ranges, p) <=> Covers(ranges, p) \/ (o <= p /\ p < o + n)
      BY <1>1, <2>6
    <3>2. CASE o <= p /\ p < o + n
      BY <2>7, <2>8, <3>1, <3>2
    <3>3. CASE ~(o <= p /\ p < o + n)
      <4>1. f.block[p] = block[p]
        BY <2>6, <3>3
      <4> QED
        BY <1>1, <2>9, <3>1, <3>3, <4>1
    <3> QED
      BY <3>2, <3>3
  <2> QED
    BY <2>6, <2>10 DEF Sound
<1> QED
  BY <1>2, <1>3

------------------------------------------------------------------------------
(* The decoded frames *)

LEMMA AppendedTo ==
    ASSUME NEW S, NEW s \in Seq(S), NEW e \in S
    PROVE  /\ Append(s, e) \in Seq(S)
           /\ Len(Append(s, e)) = Len(s) + 1
           /\ \A i \in 1..Len(s) : Append(s, e)[i] = s[i]
           /\ Append(s, e)[Len(s) + 1] = e
           /\ Append(s, e) # s
BY AppendProperties

\* A frame that is about to be decoded has no bytes of two cycles, and none
\* that nobody polled; in a clean cycle each byte is in its place.
LEMMA CompletedFrame ==
    ASSUME CaptureInv, NEW f, Sound(f), f.completes
    PROVE  /\ NeverMixed(f.block)
           /\ cycle \notin disturbed =>
                \A p \in 0..(RequiredLength - 1) : f.block[p] = DataByte(p, cycle)
<1>1. /\ ~emitted /\ HasRequiredData(f.ranges)
      /\ f.ranges \subseteq Nat \X Nat
      /\ \A v \in f.ranges : v[1] < v[2] /\ v[2] <= FrameLength
  BY DEF Sound
<1>2. ASSUME NEW p \in 0..(RequiredLength - 1)
      PROVE  p \in Positions /\ Covers(f.ranges, p)
  <2>1. Covers(f.ranges, p)
    BY <1>1 DEF HasRequiredData
  <2>2. PICK v \in f.ranges : v[1] <= p /\ p < v[2]
    BY <2>1 DEF Covers
  <2>3. p \in Nat /\ v[1] \in Nat /\ v[2] \in Nat /\ v[2] <= FrameLength
    BY <1>1, RequiredLengthAssumption
  <2> QED
    BY <2>1, <2>2, <2>3, FrameLengthAssumption DEF Positions
<1>3. \A p \in 0..(RequiredLength - 1) :
        f.block[p].tag # "zero" /\ f.block[p].cyc \in {0, cycle}
  BY <1>1, <1>2 DEF Sound
<1>4. cycle \notin disturbed => Clean
  BY <1>1 DEF CaptureInv, BlockInv, Clean
<1> QED
  BY <1>2, <1>3, <1>4 DEF NeverMixed, Sound

\* What a step does to the histories of the decoded frames when it stores f.
LEMMA RecordKeepsFrames ==
    ASSUME CaptureInv, NEW f, Sound(f), EmitFrame(f), NoteFrame,
           disturbed' \in {disturbed, disturbed \cup {cycle}}
    PROVE  /\ frames' \in Seq([Positions -> Bytes])
           /\ decodedIn' \in Seq(0..MaxCycles)
           /\ Len(decodedIn') = Len(frames')
           /\ \A i \in DOMAIN decodedIn' : decodedIn'[i] <= cycle
           /\ FramesAreWhole' /\ FramesInOrder'
           /\ \A c : Decoded(c)' <=> Decoded(c) \/ (f.completes /\ c = cycle)
<1>1. /\ frames \in Seq([Positions -> Bytes]) /\ decodedIn \in Seq(0..MaxCycles)
      /\ Len(decodedIn) = Len(frames) /\ Len(frames) \in Nat
      /\ \A i \in DOMAIN decodedIn : decodedIn[i] <= cycle
      /\ cycle \in 0..MaxCycles /\ f.block \in [Positions -> Bytes]
      /\ FramesAreWhole /\ FramesInOrder
      /\ cycle \notin disturbed /\ Decoded(cycle) => emitted
      /\ DOMAIN frames = 1..Len(frames) /\ DOMAIN decodedIn = 1..Len(frames)
  BY DEF CaptureInv, TypeOK, DecoderTypeOK, HistoryInv, FramesInv, Sound
<1>2. CASE ~f.completes
  <2>1. frames' = frames /\ decodedIn' = decodedIn
    BY <1>2 DEF EmitFrame, NoteFrame
  <2>2. FramesAreWhole' /\ FramesInOrder'
    BY <1>1, <2>1 DEF FramesAreWhole, FramesInOrder, NeverMixed
  <2> QED
    BY <1>1, <1>2, <2>1, <2>2 DEF Decoded
<1>3. CASE f.completes
  <2> DEFINE N == Len(frames)
  <2>1. /\ frames' = Append(frames, f.block)
        /\ frames' \in Seq([Positions -> Bytes]) /\ Len(frames') = N + 1
        /\ \A i \in 1..N : frames'[i] = frames[i]
        /\ frames'[N + 1] = f.block
        /\ frames' # frames
    <3>1. frames' = Append(frames, f.block)
      BY <1>3 DEF EmitFrame
    <3>2. frames \in Seq([Positions -> Bytes]) /\ f.block \in [Positions -> Bytes]
      BY <1>1
    <3>3. /\ Append(frames, f.block) \in Seq([Positions -> Bytes])
          /\ Len(Append(frames, f.block)) = Len(frames) + 1
          /\ \A i \in 1..Len(frames) : Append(frames, f.block)[i] = frames[i]
          /\ Append(frames, f.block)[Len(frames) + 1] = f.block
          /\ Append(frames, f.block) # frames
      BY <3>2, AppendedTo
    <3> QED
      BY <3>1, <3>3
  <2>2. /\ decodedIn' \in Seq(0..MaxCycles) /\ Len(decodedIn') = N + 1
        /\ \A i \in 1..N : decodedIn'[i] = decodedIn[i]
        /\ decodedIn'[N + 1] = cycle
    <3>1. decodedIn' = Append(decodedIn, cycle)
      BY <2>1 DEF NoteFrame
    <3>2. decodedIn \in Seq(0..MaxCycles) /\ cycle \in 0..MaxCycles
      BY <1>1
    <3>3. /\ Append(decodedIn, cycle) \in Seq(0..MaxCycles)
          /\ Len(Append(decodedIn, cycle)) = Len(decodedIn) + 1
          /\ \A i \in 1..Len(decodedIn) : Append(decodedIn, cycle)[i] = decodedIn[i]
          /\ Append(decodedIn, cycle)[Len(decodedIn) + 1] = cycle
      BY <3>2, AppendedTo
    <3> QED
      BY <1>1, <3>1, <3>3
  <2> HIDE DEF N
  <2>3. /\ DOMAIN frames' = 1..(N + 1) /\ DOMAIN decodedIn' = 1..(N + 1)
        /\ DOMAIN frames = 1..N /\ DOMAIN decodedIn = 1..N /\ N \in Nat
        /\ \A i \in 1..(N + 1) : i \in 1..N \/ i = N + 1
    <3>1. DOMAIN frames' = 1..(N + 1) /\ DOMAIN decodedIn' = 1..(N + 1)
      BY <2>1, <2>2
    <3>2. N \in Nat /\ DOMAIN frames = 1..N /\ DOMAIN decodedIn = 1..N
      BY <1>1 DEF N
    <3> QED
      BY <3>1, <3>2
  <2>4. \A i \in 1..(N + 1) : decodedIn'[i] <= cycle
    BY <1>1, <2>2, <2>3
  <2>5. /\ NeverMixed(f.block)
        /\ cycle \notin disturbed =>
             \A p \in 0..(RequiredLength - 1) : f.block[p] = DataByte(p, cycle)
    BY <1>3, CompletedFrame
  <2>6. FramesAreWhole'
    <3>1. ASSUME NEW i \in 1..(N + 1)
          PROVE  /\ NeverMixed(frames'[i])
                 /\ decodedIn'[i] \notin disturbed' =>
                      \A p \in 0..(RequiredLength - 1) : frames'[i][p] = DataByte(p, decodedIn'[i])
      <4>1. CASE i \in 1..N
        BY <1>1, <2>1, <2>2, <2>3, <4>1, Zenon DEF FramesAreWhole
      <4>2. CASE i = N + 1
        BY <2>1, <2>2, <2>5, <4>2
      <4> QED
        BY <2>3, <4>1, <4>2
    <3> QED
      BY <2>3, <3>1 DEF FramesAreWhole, NeverMixed
  <2>7. ~emitted
    BY <1>3 DEF Sound
  <2>8. FramesInOrder'
    <3>1. ASSUME NEW i \in 1..(N + 1), NEW j \in 1..(N + 1), i < j
          PROVE  /\ decodedIn'[i] <= decodedIn'[j]
                 /\ decodedIn'[i] = decodedIn'[j] => decodedIn'[i] \in disturbed'
      <4>0. i \in 1..N
        BY <2>3, <3>1
      <4>1. CASE j \in 1..N
        BY <1>1, <2>2, <2>3, <3>1, <4>0, <4>1 DEF FramesInOrder
      <4>2. CASE j = N + 1
        <5>1. decodedIn'[j] = cycle /\ decodedIn'[i] = decodedIn[i] /\ decodedIn[i] <= cycle
          BY <1>1, <2>2, <2>3, <4>0, <4>2
        <5>2. decodedIn[i] = cycle => Decoded(cycle)
          BY <2>3, <4>0 DEF Decoded
        <5>3. decodedIn[i] = cycle => cycle \in disturbed
          BY <1>1, <2>7, <5>2
        <5> QED
          BY <5>1, <5>3
      <4> QED
        BY <2>3, <4>1, <4>2
    <3> QED
      BY <2>3, <3>1 DEF FramesInOrder
  <2>9. ASSUME NEW c PROVE Decoded(c)' <=> Decoded(c) \/ c = cycle
    <3>1. Decoded(c)' <=> \E i \in 1..(N + 1) : decodedIn'[i] = c
      BY <2>3 DEF Decoded
    <3>2. Decoded(c) <=> \E i \in 1..N : decodedIn[i] = c
      BY <2>3 DEF Decoded
    <3>3. N + 1 \in 1..(N + 1) /\ \A i \in 1..N : i \in 1..(N + 1)
      BY <2>3
    <3> QED
      BY <2>2, <2>3, <3>1, <3>2, <3>3
  <2> QED
    BY <1>3, <2>1, <2>2, <2>3, <2>4, <2>6, <2>8, <2>9, Zenon DEF N
<1> QED
  BY <1>1, <1>2, <1>3 DEF Sound

\* Frames that stay are as good as before, even when a cycle is disturbed.
LEMMA FramesStay ==
    ASSUME CaptureInv, UNCHANGED <<frames, decodedIn>>,
           disturbed' \in {disturbed, disturbed \cup {cycle}}
    PROVE  /\ FramesAreWhole' /\ FramesInOrder'
           /\ \A c : Decoded(c)' <=> Decoded(c)
BY DEF CaptureInv, FramesInv, FramesAreWhole, FramesInOrder, NeverMixed, Decoded

------------------------------------------------------------------------------
(* Responses under way *)

LEMMA SplitAt ==
    ASSUME NEW S, NEW s \in Seq(S), NEW k \in 1..Len(s)
    PROVE  /\ SubSeq(s, 1, k) \in Seq(S)
           /\ SubSeq(s, k + 1, Len(s)) \in Seq(S)
           /\ SubSeq(s, 1, k) \o SubSeq(s, k + 1, Len(s)) = s
           /\ SubSeq(s, k + 1, Len(s)) = <<>> <=> k = Len(s)
<1> DEFINE a == SubSeq(s, 1, k)
           b == SubSeq(s, k + 1, Len(s))
<1>1. k \in Nat /\ Len(s) \in Nat /\ k <= Len(s) /\ Len(s) - k \in Nat
  OBVIOUS
<1>2. a \in Seq(S) /\ Len(a) = k /\ \A i \in 1..k : a[i] = s[i]
  <2>1. 0 \in Nat /\ 0 + 1 = 1 /\ 0 + k = k /\ 0 + k <= Len(s) /\ \A i \in 1..k : 0 + i = i
    BY <1>1
  <2>2. /\ SubSeq(s, 0 + 1, 0 + k) \in Seq(S)
        /\ Len(SubSeq(s, 0 + 1, 0 + k)) = k
        /\ \A i \in 1..k : SubSeq(s, 0 + 1, 0 + k)[i] = s[0 + i]
    BY <1>1, <2>1, Slice
  <2> QED
    BY <2>1, <2>2
<1>3. b \in Seq(S) /\ Len(b) = Len(s) - k /\ \A i \in 1..(Len(s) - k) : b[i] = s[k + i]
  <2>1. k + (Len(s) - k) = Len(s) /\ k + (Len(s) - k) <= Len(s)
    BY <1>1
  <2>2. /\ SubSeq(s, k + 1, k + (Len(s) - k)) \in Seq(S)
        /\ Len(SubSeq(s, k + 1, k + (Len(s) - k))) = Len(s) - k
        /\ \A i \in 1..(Len(s) - k) : SubSeq(s, k + 1, k + (Len(s) - k))[i] = s[k + i]
    BY <1>1, <2>1, Slice, Zenon
  <2> QED
    BY <2>1, <2>2, Zenon
<1>4. a \o b = s
  <2>1. 1 \in 1..(Len(s) + 1) /\ k \in (1 - 1)..Len(s) /\ Len(s) \in k..Len(s)
    BY <1>1
  <2>2. a \o b = SubSeq(s, 1, Len(s))
    BY <2>1, ConcatAdjacentSubSeq
  <2> QED
    BY <2>2, SubSeqFull
<1> HIDE DEF a, b
<1>5. b = <<>> <=> k = Len(s)
  <2>1. b = <<>> <=> Len(b) = 0
    BY <1>3, EmptySeq
  <2> QED
    BY <1>1, <1>3, <2>1
<1> QED
  BY <1>2, <1>3, <1>4, <1>5, Zenon DEF a, b

LEMMA FreshPackets ==
    ASSUME NEW o \in Nat, NEW n \in Nat, NEW c \in Nat, NEW b \in Nat, b = 0 \/ b = c
    PROVE  Answer(o, n, b) \in Seq(Fresh(c)) /\ Refusal \in Seq(Fresh(c)) /\ Answer(o, n, b) # <<>>
<1>1. \A p \in Nat : DataByte(p, b) \in Fresh(c)
  BY DEF DataByte, Fresh, Bytes, Tags
<1>2. \A p \in Nat : \A tag \in Tags \ {"zero"} : Byte(tag, p) \in Fresh(c)
  BY DEF Byte, Fresh, Bytes
<1>3. Byte("hi", 0) \in Fresh(c) /\ Byte("lo", n + 1) \in Fresh(c) /\ Byte("lo", 1) \in Fresh(c)
      /\ Byte("status", 0) \in Fresh(c) /\ Byte("status", 130) \in Fresh(c)
      /\ Byte("crc", 0) \in Fresh(c)
  BY <1>2 DEF Tags
<1>4. Answer(o, n, b) \in Seq(Fresh(c)) /\ Answer(o, n, b) # <<>>
  <2> DEFINE d == Answer(o, n, b)
  <2>1. /\ d \in Seq(Bytes) /\ Len(d) = n + 7
        /\ d[1] = Byte("hi", 0) /\ d[2] = Byte("lo", n + 1) /\ d[3] = Byte("status", 0)
        /\ \A k \in 1..n : d[3 + k] = DataByte(o + k - 1, b)
        /\ \A k \in 1..4 : d[n + 3 + k] = Byte("crc", 0)
    BY AnswerShape
  <2> HIDE DEF d
  <2>2. ASSUME NEW i \in 1..(n + 7) PROVE d[i] \in Fresh(c)
    <3>1. CASE i \in 1..3
      BY <1>3, <2>1, <3>1
    <3>2. CASE i \in 4..(n + 3)
      <4>1. i - 3 \in 1..n /\ 3 + (i - 3) = i /\ o + (i - 3) - 1 \in Nat
        BY <3>2
      <4>2. d[i] = DataByte(o + (i - 3) - 1, b)
        BY <2>1, <4>1
      <4> QED
        BY <1>1, <4>1, <4>2
    <3>3. CASE i \in (n + 4)..(n + 7)
      <4>1. i - (n + 3) \in 1..4 /\ n + 3 + (i - (n + 3)) = i
        BY <3>3
      <4>2. d[i] = Byte("crc", 0)
        BY <2>1, <4>1
      <4> QED
        BY <1>3, <4>2
    <3>4. i \in 1..3 \/ i \in 4..(n + 3) \/ i \in (n + 4)..(n + 7)
      OBVIOUS
    <3> QED
      BY <3>1, <3>2, <3>3, <3>4
  <2>3. d \in [1..(n + 7) -> Fresh(c)]
    <3>1. d \in [1..Len(d) -> Bytes]
      BY <2>1, LenProperties
    <3> QED
      BY <2>1, <2>2, <3>1
  <2>4. n + 7 \in Nat /\ n + 7 # 0
    OBVIOUS
  <2>5. d \in Seq(Fresh(c))
    BY <2>3, <2>4, ListOf
  <2>6. d # <<>>
    BY <2>1, <2>4, EmptySeq
  <2> QED
    BY <2>5, <2>6 DEF d
<1>5. Refusal \in Seq(Fresh(c))
  <2>1. /\ Refusal \in Seq(Bytes) /\ Len(Refusal) = 7
        /\ Refusal[1] = Byte("hi", 0) /\ Refusal[2] = Byte("lo", 1)
        /\ Refusal[3] = Byte("status", 130)
        /\ \A k \in 1..4 : Refusal[3 + k] = Byte("crc", 0)
    BY RefusalShape
  <2>2. ASSUME NEW i \in 1..7 PROVE Refusal[i] \in Fresh(c)
    <3>1. CASE i \in 1..3
      BY <1>3, <2>1, <3>1
    <3>2. CASE i \in 4..7
      <4>1. i - 3 \in 1..4 /\ 3 + (i - 3) = i
        BY <3>2
      <4>2. Refusal[i] = Byte("crc", 0)
        BY <2>1, <4>1
      <4> QED
        BY <1>3, <4>2
    <3>3. i \in 1..3 \/ i \in 4..7
      OBVIOUS
    <3> QED
      BY <3>1, <3>2, <3>3
  <2>3. Refusal \in [1..Len(Refusal) -> Bytes]
    BY <2>1, LenProperties
  <2>4. Refusal \in [1..Len(Refusal) -> Fresh(c)] /\ Len(Refusal) \in Nat
    BY <2>1, <2>2, <2>3
  <2> QED
    BY <2>4, ListOf
<1> QED
  BY <1>4, <1>5

------------------------------------------------------------------------------
(* The three things that become of a finalized segment *)

\* Its result is stored and recorded.
LEMMA Stored ==
    ASSUME CaptureInv, NEW f, Sound(f), EmitFrame(f), NoteFrame,
           block' = f.block, ranges' = f.ranges, emitted' = (emitted \/ f.completes),
           cycle' = cycle, spoiled' = spoiled,
           disturbed' \in {disturbed, disturbed \cup {cycle}}
    PROVE  RangesInv' /\ BlockInv' /\ FramesInv'
<1>1. /\ \A c : Decoded(c)' <=> Decoded(c) \/ (f.completes /\ c = cycle)
      /\ FramesAreWhole' /\ FramesInOrder'
  BY RecordKeepsFrames
<1>2. RangesInv'
  BY DEF RangesInv, Sound
<1>3. /\ Clean' => Clean
      /\ cycle \notin disturbed' => cycle \notin disturbed
  BY DEF Clean
<1>4. BlockInv'
  <2>1. \A p \in Positions : Covers(ranges', p) => block'[p].tag # "zero"
    BY DEF Sound
  <2>2. ~emitted' => \A p \in Positions : block'[p].cyc \in {0, cycle'}
    BY DEF Sound
  <2>3. CoveredBytesInPlace'
    BY <1>3 DEF Sound, CoveredBytesInPlace, Clean
  <2>4. cycle' \in spoiled' \ disturbed' => emitted'
    BY <1>3 DEF CaptureInv, BlockInv
  <2> QED
    BY <2>1, <2>2, <2>3, <2>4 DEF BlockInv
<1>5. cycle' \notin disturbed' /\ Decoded(cycle)' => emitted'
  BY <1>1, <1>3 DEF CaptureInv, FramesInv
<1> QED
  BY <1>1, <1>2, <1>4, <1>5 DEF FramesInv, Decoded

\* It is recorded, and a read from offset 0 empties the block.
LEMMA Emptied ==
    ASSUME CaptureInv, NEW f, Sound(f), EmitFrame(f), NoteFrame,
           block' = Blank, ranges' = {}, emitted' = FALSE, spoiled' = spoiled,
           \/ cycle' = cycle + 1 /\ disturbed' = disturbed
           \/ cycle' = cycle /\ disturbed' = disturbed \cup {cycle}
    PROVE  RangesInv' /\ BlockInv' /\ FramesInv'
<1>1. /\ \A c : Decoded(c)' <=> Decoded(c) \/ (f.completes /\ c = cycle)
      /\ FramesAreWhole' /\ FramesInOrder'
      /\ \A i \in DOMAIN decodedIn' : decodedIn'[i] <= cycle
  BY RecordKeepsFrames
<1>2. cycle \in Nat /\ spoiled \cup disturbed \subseteq 0..cycle
  BY BoundsAssumption DEF CaptureInv, TypeOK, HistoryInv
<1>3. cycle' \in disturbed' \/ (cycle' \notin spoiled' /\ ~Decoded(cycle'))
  <2>1. CASE cycle' = cycle + 1 /\ disturbed' = disturbed
    BY <1>2, <2>1 DEF CaptureInv, HistoryInv, Decoded
  <2> QED
    BY <2>1
<1>4. \A p : ~Covers({}, p)
  BY DEF Covers
<1>5. \A p \in Positions : Blank[p].cyc = 0
  BY DEF Blank, ZeroByte
<1>6. RangesInv'
  <2>1. ~HasRequiredData({})
    BY <1>4, RequiredLengthAssumption DEF HasRequiredData
  <2> QED
    BY <2>1 DEF RangesInv
<1>7. BlockInv'
  BY <1>3, <1>4, <1>5 DEF BlockInv, CoveredBytesInPlace
<1>8. cycle' \notin disturbed' => ~(\E i \in DOMAIN decodedIn' : decodedIn'[i] = cycle')
  BY <1>1, <1>2
<1> QED
  BY <1>1, <1>6, <1>7, <1>8 DEF FramesInv, Decoded

\* The frame that it completes does not decode.
LEMMA Raised ==
    ASSUME CaptureInv, NEW f, Sound(f), f.completes,
           block' = f.block, ranges' = f.ranges, emitted' = TRUE,
           UNCHANGED <<frames, decodedIn>>,
           cycle' \in spoiled',
           disturbed' \in {disturbed, disturbed \cup {cycle}}
    PROVE  RangesInv' /\ BlockInv' /\ FramesInv'
<1>1. FramesAreWhole' /\ FramesInOrder'
  BY FramesStay
<1>2. RangesInv'
  BY DEF RangesInv, Sound
<1>3. BlockInv'
  BY DEF BlockInv, CoveredBytesInPlace, Sound
<1> QED
  BY <1>1, <1>2, <1>3 DEF FramesInv

------------------------------------------------------------------------------
(* The steps *)

LEMMA SegmentTypes ==
    /\ NoSegment \in [offset : Nat, count : Nat, data : Seq(Bytes), open : BOOLEAN]
    /\ NoSegment.data = <<>> /\ ~NoSegment.open
    /\ \A o \in Nat, n \in Nat :
         /\ NewSegment(o, n) \in [offset : Nat, count : Nat, data : Seq(Bytes), open : BOOLEAN]
         /\ NewSegment(o, n).data = <<>> /\ NewSegment(o, n).open
         /\ NewSegment(o, n).offset = o /\ NewSegment(o, n).count = n
BY DEF NoSegment, NewSegment

LEMMA PlanReads ==
    /\ 1 \in Reads /\ Len(Plan) \in Reads
    /\ \A i \in Reads : /\ i \in Nat
                        /\ Plan[i].offset \in Nat /\ Plan[i].count \in Nat
                        /\ Plan[i].offset = 0 <=> i = 1
<1>1. DOMAIN Plan = 1..Len(Plan) /\ Len(Plan) \in Nat /\ Len(Plan) # 0
  BY PlanAssumption
<1>2. \A i \in 1..Len(Plan) : Plan[i] \in [offset : Nat, count : Nat \ {0}]
  BY PlanAssumption, ElementOfSeq
<1> QED
  BY <1>1, <1>2, PlanAssumption DEF Reads

LEMMA BlankType == Blank \in [Positions -> Bytes]
BY DEF Blank, ZeroByte, Bytes, Tags

LEMMA Emptiness == \A S : <<>> \in Seq(S)
OBVIOUS

LEMMA EmptyConcat == ASSUME NEW S, NEW s \in Seq(S) PROVE <<>> \o s = s
BY ConcatEmptySeq

\* How a read of the plan may turn out.
LEMMA PollOutcome ==
    ASSUME CaptureInv, NEW i \in NextReads, Poll(i) \/ PollInVain(i) \/ PollRaises(i)
    PROVE  /\ i \in Reads
           /\ Ask(i)
           /\ answered' \in BOOLEAN
           /\ wire' \in IF answered'
                THEN {Answer(Plan[i].offset, Plan[i].count, cycle')}
                ELSE {Refusal, <<>>}
           /\ faults' \in 0..MaxFaults
           /\ Seen(Plan[i].offset, Plan[i].count) \/ Raises
<1>1. i \in Reads
  BY PlanReads DEF NextReads, CaptureInv, TypeOK
<1>2. faults \in 0..MaxFaults /\ MaxFaults \in Nat
  BY BoundsAssumption DEF CaptureInv, TypeOK
<1>3. \A k : Fault(k) => faults' \in 0..MaxFaults
  BY <1>2 DEF Fault
<1>4. CASE Poll(i)
  BY <1>1, <1>2, <1>4 DEF Poll, Answers
<1>5. CASE PollInVain(i)
  BY <1>1, <1>3, <1>5 DEF PollInVain
<1>6. CASE PollRaises(i)
  BY <1>1, <1>3, <1>6 DEF PollRaises, Answers
<1> QED
  BY <1>4, <1>5, <1>6

LEMMA AskStep ==
    ASSUME CaptureInv, NEW i \in NextReads, Poll(i) \/ PollInVain(i) \/ PollRaises(i)
    PROVE  CaptureInv'
<1> DEFINE o == Plan[i].offset
           n == Plan[i].count
<1>1. /\ i \in Reads /\ Ask(i) /\ answered' \in BOOLEAN
      /\ wire' \in IF answered' THEN {Answer(o, n, cycle')} ELSE {Refusal, <<>>}
      /\ faults' \in 0..MaxFaults
      /\ Seen(o, n) \/ Raises
  BY PollOutcome
<1>2. /\ wire = <<>> /\ ~over /\ over' = over /\ whole' = whole /\ disturbed' = disturbed
      /\ at' = i
      /\ i = 1 => cycle < MaxCycles /\ cycle' = cycle + 1 /\ got' = {}
      /\ i # 1 => cycle' = cycle /\ got' = got
  BY <1>1 DEF Ask
<1>3. /\ o \in Nat /\ n \in Nat /\ (o = 0 <=> i = 1)
  BY <1>1, PlanReads
<1> HIDE DEF o, n
<1>4. /\ MaxCycles \in Nat /\ cycle \in 0..MaxCycles /\ cycle' \in 0..MaxCycles
      /\ cycle <= cycle' /\ cycle \in Nat /\ cycle' \in Nat
  BY <1>2, BoundsAssumption DEF CaptureInv, TypeOK
<1>5. wire' \in Seq(Fresh(cycle')) /\ Refusal \in Seq(Bytes)
  BY <1>1, <1>3, <1>4, FreshPackets, RefusalShape, Emptiness
<1>6. wire' \in Seq(Bytes)
  BY <1>5, FreshBytes
<1>7. \A p \in spoiled \cup disturbed \cup whole : p \in 0..cycle
  BY DEF CaptureInv, HistoryInv
<1>8. got' \subseteq Reads /\ over' \in BOOLEAN /\ whole' \subseteq 0..MaxCycles
      /\ disturbed' \subseteq 0..MaxCycles /\ spoiled \subseteq 0..MaxCycles
  BY <1>2 DEF CaptureInv, TypeOK
<1>9. CASE Seen(o, n)
  <2>1. PICK f \in Finalizations :
          /\ EmitFrame(f)
          /\ segment' = NewSegment(o, n)
          /\ \/ /\ o = 0 /\ block' = Blank /\ ranges' = {} /\ emitted' = FALSE
             \/ /\ o # 0 /\ block' = f.block /\ ranges' = f.ranges
                /\ emitted' = (emitted \/ f.completes)
    BY <1>9 DEF Seen, Command
  <2>2. NoteFrame /\ spoiled' = spoiled
    BY <1>9 DEF Seen
  <2>3. Sound(f)
    BY <1>2, FinalizationSound
  <2>4. /\ frames' \in Seq([Positions -> Bytes])
        /\ decodedIn' \in Seq(0..MaxCycles)
        /\ Len(decodedIn') = Len(frames')
        /\ \A k \in DOMAIN decodedIn' : decodedIn'[k] <= cycle
        /\ \A c : Decoded(c)' <=> Decoded(c) \/ (f.completes /\ c = cycle)
    BY <1>2, <2>1, <2>2, <2>3, RecordKeepsFrames
  <2>5. RangesInv' /\ BlockInv' /\ FramesInv'
    <3>1. CASE i = 1
      BY <1>2, <1>3, <2>1, <2>2, <2>3, <3>1, Emptied
    <3>2. CASE i # 1
      BY <1>2, <1>3, <2>1, <2>2, <2>3, <3>2, Stored
    <3> QED
      BY <3>1, <3>2
  <2>6. /\ segment' \in [offset : Nat, count : Nat, data : Seq(Bytes), open : BOOLEAN]
        /\ segment'.data = <<>> /\ segment'.open
        /\ segment'.offset = o /\ segment'.count = n
    BY <1>3, <2>1, SegmentTypes
  <2>7. TypeOK'
    <3>1. block' \in [Positions -> Bytes] /\ ranges' \subseteq Nat \X Nat /\ emitted' \in BOOLEAN
      BY <2>1, <2>3, BlankType DEF Sound, CaptureInv, TypeOK, DecoderTypeOK
    <3> QED
      BY <1>1, <1>2, <1>4, <1>6, <1>8, <2>2, <2>4, <2>6, <3>1 DEF TypeOK, DecoderTypeOK
  <2>8. HistoryInv'
    BY <1>2, <1>4, <1>7, <2>2, <2>4 DEF HistoryInv
  <2>9. WireInv'
    <3>1. segment'.data \o wire' = wire'
      BY <1>6, <2>6, EmptyConcat
    <3>2. segment'.data \in Seq(Fresh(cycle'))
      BY <2>6, Emptiness
    <3>3. Current' = Answer(o, n, cycle')
      BY <1>2 DEF Current, o, n
    <3>4. segment'.offset = Plan[at'].offset /\ segment'.count = Plan[at'].count
      BY <1>2, <2>6 DEF o, n
    <3> QED
      BY <1>1, <1>5, <3>1, <3>2, <3>3, <3>4 DEF WireInv
  <2>10. WholeInv'
    <3>1. CASE i = 1
      <4>1. cycle' \notin whole'
        BY <1>2, <1>4, <1>7, <3>1
      <4>2. got' = {} /\ emitted' = FALSE
        BY <1>2, <1>3, <2>1, <3>1
      <4> QED
        BY <2>6, <4>1, <4>2 DEF WholeInv
    <3>2. CASE i # 1
      <4>1. cycle' = cycle /\ got' = got /\ (Clean' => Clean) /\ emitted' = (emitted \/ f.completes)
            /\ ranges' = f.ranges
        BY <1>2, <1>3, <2>1, <2>2, <3>2 DEF Clean
      <4>2. ASSUME Clean', NEW j \in got'
            PROVE  \A p \in Positions : InRead(j, p) => Covers(ranges', p)
        <5>1. \/ \A p \in Positions : InRead(j, p) => Covers(ranges, p)
              \/ j = at /\ segment.open /\ answered
          BY <4>1, <4>2 DEF CaptureInv, WholeInv
        <5> QED
          BY <2>3, <4>1, <4>2, <5>1 DEF Sound
      <4>3. Clean' /\ emitted' => Decoded(cycle)'
        <5>1. Clean' /\ emitted' => Decoded(cycle) \/ f.completes
          BY <4>1 DEF CaptureInv, WholeInv
        <5> QED
          BY <2>4, <4>1, <5>1 DEF Decoded
      <4>4. cycle' \in whole' => got' = Reads
        BY <1>2, <4>1 DEF CaptureInv, WholeInv
      <4> QED
        BY <2>6, <4>2, <4>3, <4>4 DEF WholeInv, InRead
    <3> QED
      BY <3>1, <3>2
  <2> QED
    BY <2>5, <2>7, <2>8, <2>9, <2>10 DEF CaptureInv
<1>10. CASE Raises
  <2>1. PICK f \in Finalizations :
          /\ f.completes /\ block' = f.block /\ ranges' = f.ranges /\ emitted' = TRUE
          /\ segment' = NoSegment /\ frames' = frames
    BY <1>10 DEF Raises, DecodeRaises
  <2>2. spoiled' = spoiled \cup {cycle, cycle'} /\ decodedIn' = decodedIn
    BY <1>10 DEF Raises
  <2>3. Sound(f)
    BY <1>2, FinalizationSound
  <2>4. RangesInv' /\ BlockInv' /\ FramesInv'
    BY <1>2, <2>1, <2>2, <2>3, Raised
  <2>5. /\ segment' \in [offset : Nat, count : Nat, data : Seq(Bytes), open : BOOLEAN]
        /\ segment'.data = <<>> /\ ~segment'.open
    BY <2>1, SegmentTypes
  <2>6. TypeOK'
    <3>1. /\ block' \in [Positions -> Bytes] /\ ranges' \subseteq Nat \X Nat /\ emitted' \in BOOLEAN
          /\ frames' \in Seq([Positions -> Bytes]) /\ decodedIn' \in Seq(0..MaxCycles)
      BY <2>1, <2>2, <2>3 DEF Sound, CaptureInv, TypeOK, DecoderTypeOK
    <3>2. spoiled' \subseteq 0..MaxCycles
      BY <1>4, <1>8, <2>2
    <3> QED
      BY <1>1, <1>2, <1>4, <1>6, <1>8, <2>5, <3>1, <3>2 DEF TypeOK, DecoderTypeOK
  <2>7. HistoryInv'
    <3>1. spoiled' \cup disturbed' \cup whole' \subseteq 0..cycle'
      BY <1>2, <1>4, <1>7, <2>2
    <3>2. \A k \in DOMAIN decodedIn' : decodedIn'[k] <= cycle'
      <4>1. \A k \in DOMAIN decodedIn : decodedIn[k] \in Nat /\ decodedIn[k] <= cycle
        BY BoundsAssumption DEF CaptureInv, TypeOK, HistoryInv
      <4> QED
        BY <1>4, <2>2, <4>1
    <3>3. Len(decodedIn') = Len(frames')
      BY <2>1, <2>2 DEF CaptureInv, HistoryInv
    <3> QED
      BY <2>5, <3>1, <3>2, <3>3 DEF HistoryInv
  <2>8. WireInv'
    BY <1>5, <2>5, Emptiness DEF WireInv
  <2>9. ~Clean'
    BY <2>2 DEF Clean
  <2>10. cycle' \in whole' => got' = Reads
    BY <1>2, <1>4, <1>7 DEF CaptureInv, WholeInv
  <2>11. WholeInv'
    BY <2>9, <2>10 DEF WholeInv
  <2> QED
    BY <2>4, <2>6, <2>7, <2>8, <2>11 DEF CaptureInv
<1> QED
  BY <1>1, <1>9, <1>10

LEMMA PollOtherStep ==
    ASSUME CaptureInv, NEW r \in OtherReads, PollOther(r)
    PROVE  CaptureInv'
<1> DEFINE o == r.offset
           n == r.count
<1>1. /\ wire = <<>> /\ ~over /\ over' = over /\ whole' = whole /\ got' = got
      /\ cycle' = cycle /\ at' = at /\ answered' = FALSE
      /\ disturbed' = disturbed \cup {cycle}
      /\ wire' = Answer(o, n, 0)
      /\ Seen(o, n) \/ Raises
  BY DEF PollOther
<1>2. o \in Nat /\ n \in Nat /\ MaxCycles \in Nat /\ MaxFaults \in Nat
  BY OtherReadsAssumption, BoundsAssumption
<1> HIDE DEF o, n
<1>3. faults' \in 0..MaxFaults
  BY <1>2 DEF PollOther, Fault, CaptureInv, TypeOK
<1>4. cycle \in 0..MaxCycles /\ cycle \in Nat
  BY <1>2 DEF CaptureInv, TypeOK
<1>5. wire' \in Seq(Fresh(cycle'))
  <2>1. 0 \in Nat
    OBVIOUS
  <2> QED
    BY <1>1, <1>2, <1>4, <2>1, FreshPackets
<1>6. wire' \in Seq(Bytes)
  BY <1>5, FreshBytes
<1>7. /\ got' \subseteq Reads /\ over' \in BOOLEAN /\ whole' \subseteq 0..MaxCycles
      /\ disturbed' \subseteq 0..MaxCycles /\ spoiled \subseteq 0..MaxCycles
  BY <1>1, <1>4 DEF CaptureInv, TypeOK
<1>8. spoiled \cup disturbed' \cup whole' \subseteq 0..cycle'
  BY <1>1, <1>4 DEF CaptureInv, HistoryInv
<1>9. ~Clean' /\ cycle' \in disturbed'
  BY <1>1 DEF Clean
<1>10. WholeInv'
  BY <1>1, <1>9 DEF CaptureInv, WholeInv
<1>11. CASE Seen(o, n)
  <2>1. PICK f \in Finalizations :
          /\ EmitFrame(f)
          /\ segment' = NewSegment(o, n)
          /\ \/ /\ o = 0 /\ block' = Blank /\ ranges' = {} /\ emitted' = FALSE
             \/ /\ o # 0 /\ block' = f.block /\ ranges' = f.ranges
                /\ emitted' = (emitted \/ f.completes)
    BY <1>11 DEF Seen, Command
  <2>2. NoteFrame /\ spoiled' = spoiled
    BY <1>11 DEF Seen
  <2>3. Sound(f)
    BY <1>1, FinalizationSound
  <2>4. /\ frames' \in Seq([Positions -> Bytes])
        /\ decodedIn' \in Seq(0..MaxCycles)
        /\ Len(decodedIn') = Len(frames')
        /\ \A k \in DOMAIN decodedIn' : decodedIn'[k] <= cycle
    BY <1>1, <2>1, <2>2, <2>3, RecordKeepsFrames
  <2>5. RangesInv' /\ BlockInv' /\ FramesInv'
    <3>1. CASE o = 0
      BY <1>1, <2>1, <2>2, <2>3, <3>1, Emptied
    <3>2. CASE o # 0
      BY <1>1, <2>1, <2>2, <2>3, <3>2, Stored
    <3> QED
      BY <3>1, <3>2
  <2>6. /\ segment' \in [offset : Nat, count : Nat, data : Seq(Bytes), open : BOOLEAN]
        /\ segment'.data = <<>>
    BY <1>2, <2>1, SegmentTypes
  <2>7. TypeOK'
    <3>1. block' \in [Positions -> Bytes] /\ ranges' \subseteq Nat \X Nat /\ emitted' \in BOOLEAN
      BY <2>1, <2>3, BlankType DEF Sound, CaptureInv, TypeOK, DecoderTypeOK
    <3>2. at' \in Reads
      BY <1>1 DEF CaptureInv, TypeOK
    <3> QED
      BY <1>1, <1>3, <1>4, <1>6, <1>7, <2>2, <2>4, <2>6, <3>1, <3>2 DEF TypeOK, DecoderTypeOK
  <2>8. HistoryInv'
    BY <1>1, <1>8, <2>2, <2>4 DEF HistoryInv
  <2>9. WireInv'
    BY <1>5, <1>9, <2>6, Emptiness DEF WireInv
  <2> QED
    BY <1>10, <2>5, <2>7, <2>8, <2>9 DEF CaptureInv
<1>12. CASE Raises
  <2>1. PICK f \in Finalizations :
          /\ f.completes /\ block' = f.block /\ ranges' = f.ranges /\ emitted' = TRUE
          /\ segment' = NoSegment /\ frames' = frames
    BY <1>12 DEF Raises, DecodeRaises
  <2>2. spoiled' = spoiled \cup {cycle, cycle'} /\ decodedIn' = decodedIn
    BY <1>12 DEF Raises
  <2>3. Sound(f)
    BY <1>1, FinalizationSound
  <2>4. RangesInv' /\ BlockInv' /\ FramesInv'
    BY <1>1, <2>1, <2>2, <2>3, Raised
  <2>5. /\ segment' \in [offset : Nat, count : Nat, data : Seq(Bytes), open : BOOLEAN]
        /\ segment'.data = <<>> /\ ~segment'.open
    BY <2>1, SegmentTypes
  <2>6. TypeOK'
    <3>1. /\ block' \in [Positions -> Bytes] /\ ranges' \subseteq Nat \X Nat /\ emitted' \in BOOLEAN
          /\ frames' \in Seq([Positions -> Bytes]) /\ decodedIn' \in Seq(0..MaxCycles)
          /\ at' \in Reads
      BY <1>1, <2>1, <2>2, <2>3 DEF Sound, CaptureInv, TypeOK, DecoderTypeOK
    <3>2. spoiled' \subseteq 0..MaxCycles
      BY <1>1, <1>4, <1>7, <2>2
    <3> QED
      BY <1>1, <1>3, <1>4, <1>6, <1>7, <2>5, <3>1, <3>2 DEF TypeOK, DecoderTypeOK
  <2>7. HistoryInv'
    <3>1. spoiled' \cup disturbed' \cup whole' \subseteq 0..cycle'
      BY <1>1, <1>4, <1>8, <2>2
    <3>2. /\ \A k \in DOMAIN decodedIn' : decodedIn'[k] <= cycle'
          /\ Len(decodedIn') = Len(frames')
      BY <1>1, <2>1, <2>2 DEF CaptureInv, HistoryInv
    <3> QED
      BY <2>5, <3>1, <3>2 DEF HistoryInv
  <2>8. WireInv'
    BY <1>5, <2>5, Emptiness DEF WireInv
  <2> QED
    BY <1>10, <2>4, <2>6, <2>7, <2>8 DEF CaptureInv
<1> QED
  BY <1>1, <1>11, <1>12

LEMMA DeliverStep ==
    ASSUME CaptureInv, NEW k \in 1..Len(wire), Deliver(k)
    PROVE  CaptureInv'
<1> DEFINE data == SubSeq(wire, 1, k)
           later == SubSeq(wire, k + 1, Len(wire))
<1>1. /\ ~over /\ wire' = later
      /\ segment' = IF segment.open THEN [segment EXCEPT !.data = @ \o data] ELSE segment
      /\ UNCHANGED <<block, ranges, emitted, frames>>
      /\ UNCHANGED <<cycle, at, answered, over, faults, spoiled, disturbed, decodedIn>>
      /\ got' = IF answered /\ k = Len(wire) THEN got \cup {at} ELSE got
      /\ whole' = IF got' = Reads THEN whole \cup {cycle} ELSE whole
  BY DEF Deliver, ConsumeInput
<1>2. /\ wire \in Seq(Bytes) /\ wire \in Seq(Fresh(cycle)) /\ segment.data \in Seq(Fresh(cycle))
      /\ segment \in [offset : Nat, count : Nat, data : Seq(Bytes), open : BOOLEAN]
      /\ cycle \in 0..MaxCycles /\ at \in Reads /\ answered \in BOOLEAN
  BY DEF CaptureInv, TypeOK, DecoderTypeOK, WireInv
<1>3. /\ data \in Seq(Fresh(cycle)) /\ later \in Seq(Fresh(cycle))
      /\ data \o later = wire
      /\ later = <<>> <=> k = Len(wire)
  BY <1>2, SplitAt
<1>4. wire # <<>>
  BY <1>2, EmptySeq
<1> HIDE DEF data, later
<1>5. data \in Seq(Bytes) /\ later \in Seq(Bytes) /\ segment.data \in Seq(Bytes)
  BY <1>2, <1>3, FreshBytes
<1>6. /\ segment' \in [offset : Nat, count : Nat, data : Seq(Bytes), open : BOOLEAN]
      /\ segment'.offset = segment.offset /\ segment'.count = segment.count
      /\ segment'.open = segment.open
      /\ segment'.data = IF segment.open THEN segment.data \o data ELSE segment.data
  <2>1. segment.data \o data \in Seq(Bytes)
    BY <1>5, ConcatProperties
  <2> QED
    BY <1>1, <1>2, <2>1
<1>7. segment'.data \in Seq(Fresh(cycle))
  <2>1. segment.data \o data \in Seq(Fresh(cycle))
    BY <1>2, <1>3, ConcatProperties
  <2> QED
    BY <1>2, <1>6, <2>1
<1>8. segment.open => segment'.data \o wire' = segment.data \o wire
  <2>1. (segment.data \o data) \o later = segment.data \o (data \o later)
    <3> DEFINE d == segment.data
    <3>1. d \in Seq(Bytes) /\ data \in Seq(Bytes) /\ later \in Seq(Bytes)
      BY <1>5
    <3> HIDE DEF d
    <3>2. (d \o data) \o later = d \o (data \o later)
      BY <3>1, ConcatAssociative, SMTT(30)
    <3> QED
      BY <3>2 DEF d
  <2> QED
    BY <1>1, <1>3, <1>6, <2>1
<1>9. WireInv'
  <2>1. wire' \in Seq(Fresh(cycle')) /\ segment'.data \in Seq(Fresh(cycle'))
    BY <1>1, <1>3, <1>7
  <2>2. ASSUME cycle' \notin disturbed', segment'.open
        PROVE  /\ segment'.offset = Plan[at'].offset
               /\ segment'.count = Plan[at'].count
               /\ segment'.data \o wire' \in IF answered' THEN {Current'} ELSE {Refusal, <<>>}
    <3>1. Current' = Current
      BY <1>1 DEF Current
    <3> QED
      BY <1>1, <1>6, <1>8, <2>2, <3>1 DEF CaptureInv, WireInv
  <2> QED
    BY <2>1, <2>2 DEF WireInv
<1>10. got' \subseteq Reads /\ whole' \subseteq whole \cup {cycle} /\ whole \subseteq 0..MaxCycles
  BY <1>1, <1>2 DEF CaptureInv, TypeOK
<1>11. TypeOK'
  BY <1>1, <1>2, <1>5, <1>6, <1>10 DEF CaptureInv, TypeOK, DecoderTypeOK
<1>12. HistoryInv'
  <2>1. cycle \in 0..cycle
    BY <1>2, BoundsAssumption
  <2>2. spoiled' \cup disturbed' \cup whole' \subseteq 0..cycle'
    BY <1>1, <1>10, <2>1 DEF CaptureInv, HistoryInv
  <2> QED
    BY <1>1, <1>6, <2>2 DEF CaptureInv, HistoryInv
<1>13. RangesInv' /\ BlockInv'
  BY <1>1 DEF CaptureInv, RangesInv, BlockInv, CoveredBytesInPlace
<1>14. (\A c : Decoded(c)' <=> Decoded(c)) /\ FramesAreWhole' /\ FramesInOrder'
  BY <1>1, FramesStay
<1>15. FramesInv'
  BY <1>1, <1>14 DEF CaptureInv, FramesInv, Decoded
<1>16. WholeInv'
  <2>1. Clean' => Clean
    BY <1>1 DEF Clean
  <2>2. Clean' => segment'.open
    BY <1>4, <1>6, <2>1 DEF CaptureInv, WholeInv
  <2>3. cycle' \in whole' => got' = Reads
    BY <1>1, <1>2 DEF CaptureInv, WholeInv
  <2>4. ASSUME Clean', NEW i \in got'
        PROVE  \/ \A p \in Positions : InRead(i, p) => Covers(ranges', p)
               \/ i = at' /\ segment'.open /\ answered' /\ wire' = <<>>
    <3>1. CASE i \in got
      BY <1>1, <1>4, <2>1, <2>4, <3>1 DEF CaptureInv, WholeInv
    <3>2. CASE i \notin got
      <4>1. i = at /\ answered /\ k = Len(wire)
        BY <1>1, <2>4, <3>2
      <4> QED
        BY <1>1, <1>3, <2>2, <2>4, <4>1
    <3> QED
      BY <3>1, <3>2
  <2>5. Clean' /\ emitted' => Decoded(cycle)'
    BY <1>1, <2>1 DEF CaptureInv, WholeInv, Decoded
  <2> QED
    BY <2>2, <2>3, <2>4, <2>5 DEF WholeInv, InRead
<1> QED
  BY <1>9, <1>11, <1>12, <1>13, <1>15, <1>16 DEF CaptureInv

LEMMA CutStep ==
    ASSUME CaptureInv, Cut
    PROVE  CaptureInv'
<1>1. /\ ~over /\ wire' = <<>> /\ disturbed' = disturbed \cup {cycle}
      /\ UNCHANGED <<block, ranges, segment, emitted, frames>>
      /\ UNCHANGED <<cycle, at, answered, over, got, whole, spoiled, decodedIn>>
  BY DEF Cut, decoderVars
<1>2. cycle \in 0..MaxCycles /\ cycle \in 0..cycle /\ cycle' \in disturbed' /\ ~Clean'
  BY <1>1, BoundsAssumption DEF CaptureInv, TypeOK, Clean
<1>3. faults' \in 0..MaxFaults
  BY BoundsAssumption DEF Cut, Fault, CaptureInv, TypeOK
<1>4. TypeOK'
  BY <1>1, <1>2, <1>3, Emptiness DEF CaptureInv, TypeOK, DecoderTypeOK
<1>5. HistoryInv'
  BY <1>1, <1>2 DEF CaptureInv, HistoryInv
<1>6. RangesInv' /\ BlockInv'
  BY <1>1, <1>2 DEF CaptureInv, RangesInv, BlockInv, CoveredBytesInPlace
<1>7. WireInv'
  BY <1>1, <1>2, Emptiness DEF CaptureInv, WireInv
<1>8. FramesAreWhole' /\ FramesInOrder'
  BY <1>1, FramesStay
<1>9. FramesInv'
  BY <1>2, <1>8 DEF FramesInv
<1>10. WholeInv'
  BY <1>1, <1>2 DEF CaptureInv, WholeInv
<1> QED
  BY <1>4, <1>5, <1>6, <1>7, <1>9, <1>10 DEF CaptureInv

LEMMA FinishStep ==
    ASSUME CaptureInv, Finish
    PROVE  CaptureInv'
<1>1. /\ wire = <<>> /\ ~over /\ over' = TRUE
      /\ UNCHANGED <<cycle, at, wire, answered, got, whole, disturbed>>
      /\ \/ FlushSegment /\ NoteFrame /\ UNCHANGED <<spoiled, faults>>
         \/ Fault("undecodable") /\ Raises
  BY DEF Finish
<1>2. cycle \in 0..MaxCycles /\ cycle \in 0..cycle
  BY BoundsAssumption DEF CaptureInv, TypeOK
<1>3. faults' \in 0..MaxFaults
  BY <1>1, BoundsAssumption DEF Fault, CaptureInv, TypeOK
<1>4. PICK f \in Finalizations :
        /\ block' = f.block /\ ranges' = f.ranges
        /\ segment' = NoSegment
        /\ \/ /\ EmitFrame(f) /\ NoteFrame /\ emitted' = (emitted \/ f.completes)
              /\ spoiled' = spoiled
           \/ /\ f.completes /\ emitted' = TRUE
              /\ frames' = frames /\ decodedIn' = decodedIn
              /\ spoiled' = spoiled \cup {cycle, cycle'}
  BY <1>1 DEF FlushSegment, Raises, DecodeRaises
<1>5. Sound(f)
  BY <1>1, FinalizationSound
<1>6. /\ segment' \in [offset : Nat, count : Nat, data : Seq(Bytes), open : BOOLEAN]
      /\ segment'.data = <<>> /\ ~segment'.open
  BY <1>4, SegmentTypes
<1>7. disturbed' \in {disturbed, disturbed \cup {cycle}}
  BY <1>1
<1>8. RangesInv' /\ BlockInv' /\ FramesInv'
  <2>1. CASE EmitFrame(f) /\ NoteFrame /\ emitted' = (emitted \/ f.completes) /\ spoiled' = spoiled
    BY <1>1, <1>4, <1>5, <1>7, <2>1, Stored
  <2>2. CASE /\ f.completes /\ emitted' = TRUE /\ frames' = frames /\ decodedIn' = decodedIn
             /\ spoiled' = spoiled \cup {cycle, cycle'}
    BY <1>1, <1>4, <1>5, <1>7, <2>2, Raised
  <2> QED
    BY <1>4, <2>1, <2>2
<1>9. /\ frames' \in Seq([Positions -> Bytes])
      /\ decodedIn' \in Seq(0..MaxCycles)
      /\ Len(decodedIn') = Len(frames')
      /\ \A k \in DOMAIN decodedIn' : decodedIn'[k] <= cycle
      /\ cycle \notin spoiled' => \A c : Decoded(c) \/ (f.completes /\ c = cycle) => Decoded(c)'
  <2>1. CASE EmitFrame(f) /\ NoteFrame
    BY <1>5, <1>7, <2>1, RecordKeepsFrames
  <2>2. CASE frames' = frames /\ decodedIn' = decodedIn /\ spoiled' = spoiled \cup {cycle, cycle'}
    <3>1. cycle \in spoiled'
      BY <2>2
    <3> QED
      BY <2>2, <3>1 DEF CaptureInv, TypeOK, DecoderTypeOK, HistoryInv, Decoded
  <2> QED
    BY <1>4, <2>1, <2>2
<1>10. TypeOK'
  <2>1. block' \in [Positions -> Bytes] /\ ranges' \subseteq Nat \X Nat /\ emitted' \in BOOLEAN
    BY <1>4, <1>5 DEF Sound, CaptureInv, TypeOK, DecoderTypeOK
  <2>2. spoiled' \subseteq 0..MaxCycles
    BY <1>1, <1>2, <1>4 DEF CaptureInv, TypeOK
  <2> QED
    BY <1>1, <1>3, <1>6, <1>9, <2>1, <2>2 DEF CaptureInv, TypeOK, DecoderTypeOK
<1>11. HistoryInv'
  <2>1. spoiled' \cup disturbed' \cup whole' \subseteq 0..cycle'
    BY <1>1, <1>2, <1>4 DEF CaptureInv, HistoryInv
  <2> QED
    BY <1>1, <1>6, <1>9, <2>1 DEF HistoryInv
<1>12. WireInv'
  BY <1>1, <1>6, Emptiness DEF CaptureInv, WireInv
<1>13. WholeInv'
  <2>1. cycle' \in whole' => got' = Reads
    BY <1>1 DEF CaptureInv, WholeInv
  <2>2. ASSUME Clean'
        PROVE  /\ \A i \in got' : \A p \in Positions : InRead(i, p) => Covers(ranges', p)
               /\ emitted' => Decoded(cycle)'
    <3>1. /\ spoiled' = spoiled /\ cycle \notin spoiled' /\ Clean
          /\ emitted' = (emitted \/ f.completes)
      BY <1>1, <1>4, <2>2 DEF Clean
    <3>2. ASSUME NEW i \in got, NEW p \in Positions, InRead(i, p)
          PROVE  Covers(f.ranges, p)
      <4>1. Covers(ranges, p) \/ (i = at /\ segment.open /\ answered)
        BY <3>1, <3>2 DEF CaptureInv, WholeInv
      <4> QED
        BY <1>5, <3>1, <3>2, <4>1 DEF Sound
    <3>3. emitted' => Decoded(cycle) \/ f.completes
      BY <3>1 DEF CaptureInv, WholeInv
    <3>4. emitted' => Decoded(cycle)'
      BY <1>1, <1>9, <3>1, <3>3 DEF Decoded
    <3> QED
      BY <1>1, <1>4, <3>2, <3>4
  <2> QED
    BY <1>1, <2>1, <2>2 DEF WholeInv, InRead
<1> QED
  BY <1>8, <1>10, <1>11, <1>12, <1>13 DEF CaptureInv

LEMMA CaptureStays ==
    ASSUME CaptureInv, UNCHANGED vars
    PROVE  CaptureInv'
<1>1. /\ UNCHANGED <<block, ranges, segment, emitted, frames>>
      /\ UNCHANGED <<cycle, at, wire, answered, over, faults, got, whole, spoiled,
                     disturbed, decodedIn>>
  BY DEF vars, decoderVars, captureVars
<1>2. TypeOK'
  BY <1>1 DEF CaptureInv, TypeOK, DecoderTypeOK
<1>3. HistoryInv' /\ RangesInv'
  BY <1>1 DEF CaptureInv, HistoryInv, RangesInv
<1>4. WireInv'
  BY <1>1 DEF CaptureInv, WireInv, Current
<1>5. BlockInv'
  BY <1>1 DEF CaptureInv, BlockInv, CoveredBytesInPlace
<1>6. FramesInv'
  BY <1>1 DEF CaptureInv, FramesInv, FramesAreWhole, FramesInOrder, NeverMixed, Decoded
<1>7. WholeInv'
  BY <1>1 DEF CaptureInv, WholeInv, Clean, Decoded
<1> QED
  BY <1>2, <1>3, <1>4, <1>5, <1>6, <1>7 DEF CaptureInv

LEMMA CaptureInitially ==
    ASSUME Init
    PROVE  CaptureInv
<1>1. /\ block = Blank /\ ranges = {} /\ segment = NoSegment /\ emitted = FALSE /\ frames = <<>>
      /\ cycle = 0 /\ at = Len(Plan) /\ wire = <<>> /\ answered = FALSE /\ over = FALSE
      /\ faults = 0 /\ got = {} /\ whole = {} /\ spoiled = {} /\ disturbed = {}
      /\ decodedIn = <<>>
  BY DEF Init, DecoderInit
<1>2. /\ segment \in [offset : Nat, count : Nat, data : Seq(Bytes), open : BOOLEAN]
      /\ segment.data = <<>> /\ ~segment.open
  BY <1>1, SegmentTypes
<1>3. DOMAIN frames = {} /\ DOMAIN decodedIn = {} /\ Len(frames) = 0 /\ Len(decodedIn) = 0
  BY <1>1
<1>4. \A p : ~Covers(ranges, p)
  BY <1>1 DEF Covers
<1>5. TypeOK
  <2>1. at \in Reads /\ 0 \in 0..MaxCycles /\ 0 \in 0..MaxFaults
    BY <1>1, PlanReads, BoundsAssumption
  <2> QED
    BY <1>1, <1>2, <2>1, BlankType, Emptiness DEF TypeOK, DecoderTypeOK
<1>6. HistoryInv
  BY <1>1, <1>2, <1>3 DEF HistoryInv
<1>7. RangesInv
  <2>1. ~HasRequiredData(ranges)
    BY <1>4, RequiredLengthAssumption DEF HasRequiredData
  <2> QED
    BY <1>1, <2>1 DEF RangesInv
<1>8. WireInv
  BY <1>1, <1>2, Emptiness DEF WireInv
<1>9. BlockInv
  <2>1. \A p \in Positions : block[p].cyc = 0
    BY <1>1 DEF Blank, ZeroByte
  <2> QED
    BY <1>1, <1>4, <2>1 DEF BlockInv, CoveredBytesInPlace
<1>10. FramesInv
  BY <1>3 DEF FramesInv, FramesAreWhole, FramesInOrder, Decoded
<1>11. WholeInv
  BY <1>1 DEF WholeInv
<1> QED
  BY <1>5, <1>6, <1>7, <1>8, <1>9, <1>10, <1>11 DEF CaptureInv

LEMMA CaptureStep ==
    ASSUME CaptureInv, [Next]_vars
    PROVE  CaptureInv'
<1>1. CASE Next
  <2>1. CASE \E i \in NextReads : Poll(i) \/ PollInVain(i) \/ PollRaises(i)
    BY <2>1, AskStep
  <2>2. CASE \E r \in OtherReads : PollOther(r)
    BY <2>2, PollOtherStep
  <2>3. CASE \E k \in 1..Len(wire) : Deliver(k)
    BY <2>3, DeliverStep
  <2>4. CASE Cut
    BY <2>4, CutStep
  <2>5. CASE Finish
    BY <2>5, FinishStep
  <2>6. CASE Finished
    BY <2>6, CaptureStays DEF Finished
  <2> QED
    BY <1>1, <2>1, <2>2, <2>3, <2>4, <2>5, <2>6 DEF Next
<1>2. CASE UNCHANGED vars
  BY <1>2, CaptureStays
<1> QED
  BY <1>1, <1>2

LEMMA CaptureInvariant == Spec => []CaptureInv
<1>1. Init => CaptureInv
  BY CaptureInitially
<1>2. CaptureInv /\ [Next]_vars => CaptureInv'
  BY CaptureStep
<1> QED
  BY <1>1, <1>2, PTL DEF Spec

\* Every variable of the decoder and of its surroundings keeps its type.
THEOREM CaptureTypeCorrect == Spec => []TypeOK
<1>1. CaptureInv => TypeOK
  BY DEF CaptureInv
<1> QED
  BY <1>1, CaptureInvariant, PTL

\* _consume_read_response writes each response where it was asked for: in a
\* cycle that was not disturbed, every covered byte of the block is the one
\* polled at its offset in this cycle.
THEOREM CaptureBytesInPlace == Spec => []CoveredBytesInPlace
<1>1. CaptureInv => CoveredBytesInPlace
  BY DEF CaptureInv, BlockInv
<1> QED
  BY <1>1, CaptureInvariant, PTL

\* No frame that decode_usbmon_event or flush returns is torn: none mixes two
\* poll cycles or holds bytes nobody polled, and one of an undisturbed cycle
\* has every byte in its place.
THEOREM CaptureFramesWhole == Spec => []FramesAreWhole
<1>1. CaptureInv => FramesAreWhole
  BY DEF CaptureInv, FramesInv
<1> QED
  BY <1>1, CaptureInvariant, PTL

\* emitted_current_block lets an undisturbed cycle be decoded once only, and
\* the cycles in their order.
THEOREM CaptureFramesInOrder == Spec => []FramesInOrder
<1>1. CaptureInv => FramesInOrder
  BY DEF CaptureInv, FramesInv
<1> QED
  BY <1>1, CaptureInvariant, PTL

------------------------------------------------------------------------------
(* Every whole cycle is decoded *)

LEMMA WholeCycleCompletes ==
    ASSUME PlanCoversFields, CaptureInv, wire = <<>>, NEW f, Sound(f), Clean, cycle \in whole
    PROVE  Decoded(cycle) \/ f.completes
<1>1. got = Reads
  BY DEF CaptureInv, WholeInv
<1>2. ASSUME NEW p \in 0..(RequiredLength - 1)
      PROVE  Covers(f.ranges, p)
  <2>1. p \in Positions
    BY FrameLengthAssumption DEF PlanCoversFields, Positions
  <2>2. PICK i \in Reads : InRead(i, p)
    BY DEF PlanCoversFields, InRead
  <2>3. Covers(ranges, p) \/ (i = at /\ segment.open /\ answered)
    BY <1>1, <2>1, <2>2 DEF CaptureInv, WholeInv
  <2> QED
    BY <2>1, <2>2, <2>3 DEF Sound
<1>3. HasRequiredData(f.ranges)
  BY <1>2 DEF HasRequiredData, PlanCoversFields
<1>4. emitted \/ f.completes
  BY <1>3 DEF Sound
<1> QED
  BY <1>4 DEF CaptureInv, WholeInv

\* A step that finalizes the segment leaves no whole cycle behind.
LEMMA FinalizedCycles ==
    ASSUME PlanCoversFields, CaptureInv, WholeCyclesAreDecoded,
           wire = <<>>, NEW f \in Finalizations,
           whole' = whole, disturbed \subseteq disturbed',
           disturbed' \in {disturbed, disturbed \cup {cycle}},
           \/ EmitFrame(f) /\ NoteFrame /\ spoiled' = spoiled
           \/ frames' = frames /\ decodedIn' = decodedIn /\ spoiled' = spoiled \cup {cycle, cycle'}
    PROVE  WholeCyclesAreDecoded'
<1>1. Sound(f)
  BY FinalizationSound
<1>2. cycle \in Nat /\ whole \subseteq 0..cycle
  BY BoundsAssumption DEF CaptureInv, TypeOK, HistoryInv
<1>3. ASSUME NEW c \in whole', c \notin spoiled', c \notin disturbed'
      PROVE  Decoded(c)'
  <2>1. c \in whole /\ c \notin spoiled /\ c \notin disturbed /\ c \in 0..cycle
    BY <1>2, <1>3
  <2>2. CASE EmitFrame(f) /\ NoteFrame
    <3>1. Decoded(c)' <=> Decoded(c) \/ (f.completes /\ c = cycle)
      BY <1>1, <2>2, RecordKeepsFrames
    <3>2. CASE c = cycle
      <4>1. Clean
        BY <2>1, <3>2 DEF Clean
      <4> QED
        BY <1>1, <2>1, <3>1, <3>2, <4>1, WholeCycleCompletes
    <3>3. CASE c # cycle
      <4>1. c < cycle
        BY <1>2, <2>1, <3>3
      <4> QED
        BY <2>1, <3>1, <4>1 DEF WholeCyclesAreDecoded, Decoded
    <3> QED
      BY <3>2, <3>3
  <2>3. CASE frames' = frames /\ decodedIn' = decodedIn /\ spoiled' = spoiled \cup {cycle, cycle'}
    <3>1. c < cycle
      BY <1>2, <1>3, <2>1, <2>3
    <3> QED
      BY <2>1, <2>3, <3>1 DEF WholeCyclesAreDecoded, Decoded
  <2> QED
    BY <2>2, <2>3
<1> QED
  BY <1>3 DEF WholeCyclesAreDecoded, Decoded

LEMMA WholeStep ==
    ASSUME PlanCoversFields, CaptureInv, WholeCyclesAreDecoded, [Next]_vars
    PROVE  WholeCyclesAreDecoded'
<1>1. ASSUME NEW o, NEW n, Seen(o, n) \/ Raises
      PROVE  \E f \in Finalizations :
               \/ EmitFrame(f) /\ NoteFrame /\ spoiled' = spoiled
               \/ frames' = frames /\ decodedIn' = decodedIn
                  /\ spoiled' = spoiled \cup {cycle, cycle'}
  BY <1>1 DEF Seen, Command, Raises, DecodeRaises
<1>2. CASE \E i \in NextReads : Poll(i) \/ PollInVain(i) \/ PollRaises(i)
  <2>1. PICK i \in NextReads : Poll(i) \/ PollInVain(i) \/ PollRaises(i)
    BY <1>2
  <2>2. Ask(i) /\ (Seen(Plan[i].offset, Plan[i].count) \/ Raises)
    BY <2>1, PollOutcome
  <2>3. wire = <<>> /\ whole' = whole /\ disturbed' = disturbed
    BY <2>2 DEF Ask
  <2> QED
    BY <1>1, <2>2, <2>3, FinalizedCycles
<1>3. CASE \E r \in OtherReads : PollOther(r)
  <2>1. PICK r \in OtherReads : PollOther(r)
    BY <1>3
  <2>2. /\ wire = <<>> /\ whole' = whole /\ disturbed' = disturbed \cup {cycle}
        /\ Seen(r.offset, r.count) \/ Raises
    BY <2>1 DEF PollOther
  <2>3. disturbed \subseteq disturbed'
    BY <2>2
  <2> QED
    BY <1>1, <2>2, <2>3, FinalizedCycles
<1>4. CASE \E k \in 1..Len(wire) : Deliver(k)
  <2>1. /\ ~over /\ over' = over /\ cycle' = cycle
        /\ whole' \subseteq whole \cup {cycle}
        /\ spoiled' = spoiled /\ disturbed' = disturbed /\ decodedIn' = decodedIn
    BY <1>4 DEF Deliver
  <2>2. ~(cycle < cycle)
    BY BoundsAssumption DEF CaptureInv, TypeOK
  <2> QED
    BY <2>1, <2>2 DEF WholeCyclesAreDecoded
<1>5. CASE Cut
  BY <1>5 DEF Cut, WholeCyclesAreDecoded
<1>6. CASE Finish
  <2>1. /\ wire = <<>> /\ whole' = whole /\ disturbed' = disturbed
        /\ \E f \in Finalizations :
             \/ EmitFrame(f) /\ NoteFrame /\ spoiled' = spoiled
             \/ frames' = frames /\ decodedIn' = decodedIn
                /\ spoiled' = spoiled \cup {cycle, cycle'}
    BY <1>6 DEF Finish, FlushSegment, Raises, DecodeRaises
  <2> QED
    BY <2>1, FinalizedCycles
<1>7. CASE Finished \/ UNCHANGED vars
  BY <1>7 DEF Finished, vars, captureVars, WholeCyclesAreDecoded
<1> QED
  BY <1>2, <1>3, <1>4, <1>5, <1>6, <1>7 DEF Next

\* TSDash's reads of a cycle reach every field: then each undisturbed cycle of
\* which every response was captured is decoded, at the latest by the first
\* command after it or by flush, unless a frame that did not decode hit it.
THEOREM CaptureWholeCyclesDecoded ==
    ASSUME PlanCoversFields
    PROVE  Spec => []WholeCyclesAreDecoded
<1>1. Init => WholeCyclesAreDecoded
  BY DEF Init, WholeCyclesAreDecoded
<1>2. CaptureInv /\ WholeCyclesAreDecoded /\ [Next]_vars => WholeCyclesAreDecoded'
  BY WholeStep
<1> QED
  BY <1>1, <1>2, CaptureInvariant, PTL DEF Spec

------------------------------------------------------------------------------
(* The loop of _has_required_data *)

\* The loop invariant: the part below covered is covered, the ranges looked at
\* reach no further, and the loop goes on only while more is required.
SweepInv ==
    /\ SweepTypeOK
    /\ \A p \in Nat : p < covered => Covers(listed, p)
    /\ \A v \in listed \ rest : v[2] <= covered
    /\ verdict = "none" => covered < RequiredLength
    /\ verdict = "yes" => RequiredLength > 0 /\ RequiredLength <= covered
    /\ verdict = "no" => ~HasRequiredData(listed)

\* A range of Ranges is a pair of naturals.
LEMMA RangeIsPair ==
    ASSUME NEW v \in Ranges
    PROVE  v[1] \in Nat /\ v[2] \in Nat
BY RangesAssumption

\* When no range still to be looked at starts at or before covered, position
\* covered is in no range, so what is required is not covered.
LEMMA GapRefutes ==
    ASSUME SweepInv, verdict = "none",
           \A w \in rest : w[1] > covered
    PROVE  ~HasRequiredData(listed)
<1>1. covered \in 0..(RequiredLength - 1)
  BY RequiredLengthAssumption DEF SweepInv, SweepTypeOK
<1>2. ASSUME NEW v \in listed
      PROVE  ~(v[1] <= covered /\ covered < v[2])
  <2>1. v[1] \in Nat /\ v[2] \in Nat /\ covered \in Nat
    BY RangeIsPair DEF SweepInv, SweepTypeOK
  <2>2. CASE v \in rest
    BY <2>1, <2>2
  <2>3. CASE v \notin rest
    <3>1. v[2] <= covered
      BY <2>3 DEF SweepInv
    <3> QED
      BY <2>1, <3>1
  <2> QED
    BY <2>2, <2>3
<1> QED
  BY <1>1, <1>2 DEF HasRequiredData, Covers

LEMMA SweepInitially == SweepInit => SweepInv
<1> SUFFICES ASSUME SweepInit PROVE SweepInv
  OBVIOUS
<1> USE RequiredLengthAssumption DEF SweepInit
<1>1. SweepTypeOK
  BY DEF SweepTypeOK
<1>2. \A p \in Nat : p < covered => Covers(listed, p)
  OBVIOUS
<1>3. \A v \in listed \ rest : v[2] <= covered
  OBVIOUS
<1> QED
  BY <1>1, <1>2, <1>3 DEF SweepInv, HasRequiredData

LEMMA SweepStep == SweepInv /\ [SweepNext]_sweepVars => SweepInv'
<1> SUFFICES ASSUME SweepInv, [SweepNext]_sweepVars PROVE SweepInv'
  OBVIOUS
<1>1. ASSUME NEW v \in Ranges, Gap(v)
      PROVE  SweepInv'
  <2> USE <1>1 DEF Gap, IsNext
  <2>1. ASSUME NEW w \in rest PROVE w[1] > covered
    <3>1. w \in Ranges /\ v \in Ranges
      BY DEF SweepInv, SweepTypeOK
    <3>2. w[1] \in Nat /\ v[1] \in Nat /\ covered \in Nat
      BY <3>1, RangeIsPair DEF SweepInv, SweepTypeOK
    <3>3. v[1] <= w[1]
      BY <3>2 DEF Precedes
    <3> QED
      BY <3>2, <3>3
  <2>2. ~HasRequiredData(listed)
    BY <2>1, GapRefutes
  <2> QED
    BY <2>2 DEF SweepInv, SweepTypeOK, HasRequiredData, Covers
<1>2. ASSUME NEW v \in Ranges, Extend(v)
      PROVE  SweepInv'
  <2> USE <1>2 DEF Extend, IsNext
  <2>1. /\ v[1] \in Nat /\ v[2] \in Nat /\ covered \in Nat
        /\ v \in listed /\ listed \subseteq Ranges /\ rest \subseteq listed
    BY RangeIsPair DEF SweepInv, SweepTypeOK
  <2>2. covered' \in Nat /\ covered' >= covered /\ covered' >= v[2]
    BY <2>1
  <2>3. SweepTypeOK'
    BY <2>1, <2>2 DEF SweepTypeOK
  <2>4. ASSUME NEW p \in Nat, p < covered'
        PROVE  Covers(listed, p)
    <3>1. CASE p < covered
      BY <3>1 DEF SweepInv
    <3>2. CASE ~(p < covered)
      <4>1. v[1] <= p /\ p < v[2]
        BY <2>1, <2>4, <3>2
      <4> QED
        BY <2>1, <4>1 DEF Covers
    <3> QED
      BY <3>1, <3>2
  <2>5. ASSUME NEW w \in listed \ rest'
        PROVE  w[2] <= covered'
    <3>1. CASE w = v
      BY <2>2, <3>1
    <3>2. CASE w # v
      <4>1. w[2] <= covered /\ w[2] \in Nat
        BY <2>1, <3>2, RangeIsPair DEF SweepInv
      <4> QED
        BY <2>1, <2>2, <4>1
    <3> QED
      BY <3>1, <3>2
  <2>6. /\ verdict' = "none" => covered' < RequiredLength
        /\ verdict' = "yes" => RequiredLength > 0 /\ RequiredLength <= covered'
        /\ verdict' # "no"
    BY <2>1, <2>2, RequiredLengthAssumption DEF SweepInv
  <2> QED
    BY <2>3, <2>4, <2>5, <2>6 DEF SweepInv, Covers
<1>3. CASE Exhausted
  <2>1. ~HasRequiredData(listed)
    BY <1>3, GapRefutes DEF Exhausted
  <2> QED
    BY <1>3, <2>1 DEF Exhausted, SweepInv, SweepTypeOK, HasRequiredData, Covers
<1>4. CASE UNCHANGED sweepVars
  BY <1>4 DEF sweepVars, SweepInv, SweepTypeOK, HasRequiredData, Covers
<1> QED
  BY <1>1, <1>2, <1>3, <1>4 DEF SweepNext, Returned

LEMMA SweepInvariant == SweepSpec => []SweepInv
BY SweepInitially, SweepStep, PTL DEF SweepSpec

\* The variables of the sweep keep their types.
THEOREM SweepTypeCorrect == SweepSpec => []SweepTypeOK
<1>1. SweepInv => SweepTypeOK
  BY DEF SweepInv
<1> QED
  BY SweepInvariant, <1>1, PTL

\* _has_required_data answers True exactly when the ranges cover every byte
\* that a field is read from, for any ranges and any length.
THEOREM SweepCorrect == SweepSpec => []VerdictIsRight
<1>1. SweepInv => VerdictIsRight
  <2> SUFFICES ASSUME SweepInv PROVE VerdictIsRight
    OBVIOUS
  <2>1. ASSUME verdict = "yes" PROVE HasRequiredData(listed)
    <3>1. ASSUME NEW p \in 0..(RequiredLength - 1) PROVE Covers(listed, p)
      BY <2>1, RequiredLengthAssumption DEF SweepInv, SweepTypeOK
    <3> QED
      BY <2>1, <3>1 DEF SweepInv, HasRequiredData
  <2> QED
    BY <2>1 DEF VerdictIsRight, SweepInv
<1> QED
  BY SweepInvariant, <1>1, PTL

------------------------------------------------------------------------------
(* The fixed frame decoder *)

\* The position after the last frame cut from the buffer.
LastEnd == EndOf(taken, Len(taken))

\* The first pattern in the buffer, if any, does not begin a whole frame.
NoWholeFrameWaits ==
    \A p \in start..received :
        SyncAt(p, received) /\ (\A q \in start..(p - 1) : ~SyncAt(q, received))
            => p + FixedLength > received

\* The frames cut so far are right; between the last one and the buffer there
\* was no pattern, not even one whose end is still to come.
FixedInv ==
    /\ FixedTypeOK
    /\ Greedy(taken, received)
    /\ LastEnd <= start
    /\ \A q \in LastEnd..(start - 1) : ~Pattern(q)
    /\ phase = "idle" /\ ~raised => NoWholeFrameWaits
    /\ BufferStaysSmall

LEMMA IntervalMember ==
    ASSUME NEW a \in Nat, NEW b \in Nat, NEW q \in a..(b - 1)
    PROVE  q \in Nat /\ a <= q /\ q < b
OBVIOUS

LEMMA EmptyInterval ==
    ASSUME NEW a \in Nat
    PROVE  a..(a - 1) = {}
OBVIOUS

LEMMA LayoutType ==
    ASSUME FixedTypeOK
    PROVE  /\ Sync \in Seq(ByteValues)
           /\ Len(Sync) \in Nat
           /\ FixedLength \in Nat
           /\ FixedLength > 0
<1>1. layout \in [sync : Seq(ByteValues), length : Nat \ {0}]
  BY LayoutsAssumption DEF FixedTypeOK
<1>2. Sync \in Seq(ByteValues) /\ FixedLength \in Nat \ {0}
  BY <1>1 DEF Sync, FixedLength
<1> QED
  BY <1>2

LEMMA EndType ==
    ASSUME FixedTypeOK, NEW i \in 0..Len(taken)
    PROVE  EndOf(taken, i) \in Nat
<1>1. taken \in Seq(Nat) /\ FixedLength \in Nat
  BY LayoutType DEF FixedTypeOK
<1>2. CASE i = 0
  BY <1>2 DEF EndOf
<1>3. CASE i # 0
  <2>1. taken[i] \in Nat
    BY <1>1, <1>3
  <2> QED
    BY <1>1, <1>3, <2>1 DEF EndOf
<1> QED
  BY <1>2, <1>3

\* Frames that are right for the first n bytes stay right when more arrive.
LEMMA GreedyMonotone ==
    ASSUME FixedTypeOK, NEW n \in Nat, NEW m \in Nat, n <= m, Greedy(taken, n)
    PROVE  Greedy(taken, m)
<1> SUFFICES ASSUME NEW i \in DOMAIN taken
             PROVE  /\ taken[i] >= EndOf(taken, i - 1)
                    /\ taken[i] + FixedLength <= m
                    /\ SyncAt(taken[i], m)
                    /\ \A q \in EndOf(taken, i - 1)..(taken[i] - 1) : ~SyncAt(q, m)
  BY DEF Greedy
<1>1. taken[i] \in Nat /\ i \in 1..Len(taken)
  BY DEF FixedTypeOK
<1>2. EndOf(taken, i - 1) \in Nat
  <2>1. taken \in Seq(Nat)
    BY DEF FixedTypeOK
  <2>2. i - 1 \in 0..Len(taken)
    BY <1>1, <2>1
  <2> QED
    BY <2>2, EndType
<1>3. /\ taken[i] >= EndOf(taken, i - 1)
      /\ taken[i] + FixedLength <= n
      /\ SyncAt(taken[i], n)
      /\ \A q \in EndOf(taken, i - 1)..(taken[i] - 1) : ~SyncAt(q, n)
  BY DEF Greedy
<1>4. FixedLength \in Nat /\ Len(Sync) \in Nat
  BY LayoutType
<1>5. taken[i] + FixedLength <= m
  BY <1>1, <1>3, <1>4
<1>6. taken[i] + Len(Sync) <= n /\ Pattern(taken[i])
  BY <1>3 DEF SyncAt
<1>7. SyncAt(taken[i], m)
  <2>1. taken[i] + Len(Sync) <= m
    BY <1>1, <1>4, <1>6
  <2> QED
    BY <1>6, <2>1 DEF SyncAt
<1>8. ASSUME NEW q \in EndOf(taken, i - 1)..(taken[i] - 1)
      PROVE  ~SyncAt(q, m)
  <2>1. q + Len(Sync) <= n
    BY <1>1, <1>2, <1>4, <1>6
  <2>2. ~SyncAt(q, n)
    BY <1>3
  <2> QED
    BY <2>1, <2>2 DEF SyncAt
<1> QED
  BY <1>3, <1>5, <1>7, <1>8

\* No pattern lies between the last frame and the first one that find returns.
LEMMA NoPatternBefore ==
    ASSUME FixedInv, NEW p \in 0..received, Finds(p),
           NEW q \in LastEnd..(p - 1)
    PROVE  ~Pattern(q)
<1>1. start \in Nat /\ received \in Nat /\ start <= p
  BY DEF FixedInv, FixedTypeOK, Finds
<1>2. LastEnd \in Nat
  <2>1. FixedTypeOK /\ Len(taken) \in Nat
    BY DEF FixedInv, FixedTypeOK
  <2> QED
    BY <2>1, EndType DEF LastEnd
<1>3. CASE q < start
  <2>1. q \in LastEnd..(start - 1)
    BY <1>1, <1>2, <1>3
  <2> QED
    BY <2>1 DEF FixedInv
<1>4. CASE q >= start
  <2>1. q \in start..(p - 1)
    BY <1>1, <1>2, <1>4
  <2>2. ~SyncAt(q, received)
    BY <2>1 DEF Finds
  <2>3. p + Len(Sync) <= received /\ Len(Sync) \in Nat
    BY LayoutType DEF Finds, SyncAt, FixedInv
  <2>4. q + Len(Sync) <= received
    BY <1>1, <1>2, <2>1, <2>3
  <2> QED
    BY <2>2, <2>4 DEF SyncAt
<1> QED
  BY <1>1, <1>2, <1>3, <1>4

LEMMA FixedInitInv == FixedInit => FixedInv
<1> SUFFICES ASSUME FixedInit PROVE FixedInv
  OBVIOUS
<1> USE MaxStreamAssumption DEF FixedInit
<1>1. FixedTypeOK
  <2>1. raised \in BOOLEAN
    OBVIOUS
  <2>2. received \in 0..MaxStream /\ start \in 0..received
    OBVIOUS
  <2>3. taken \in Seq(Nat) /\ lost \subseteq Nat
    OBVIOUS
  <2> QED
    BY <2>1, <2>2, <2>3 DEF FixedTypeOK
<1>2. Sync \in Seq(ByteValues) /\ FixedLength \in Nat /\ FixedLength > 0
  BY <1>1, LayoutType
<1>3. LastEnd = 0
  BY DEF LastEnd, EndOf
<1>4. Greedy(taken, received)
  BY DEF Greedy
<1>5. NoWholeFrameWaits
  BY <1>2 DEF NoWholeFrameWaits
<1>6. BufferStaysSmall
  BY <1>2 DEF BufferStaysSmall, Buffered
<1> QED
  BY <1>1, <1>3, <1>4, <1>5, <1>6 DEF FixedInv

\* What a step does not touch: the parts of FixedInv about the frames.
LEMMA SameFrames ==
    ASSUME FixedInv, FixedTypeOK', UNCHANGED <<layout, stream, received, taken>>
    PROVE  /\ Greedy(taken, received)'
           /\ LastEnd' = LastEnd
           /\ \A q : Pattern(q)' <=> Pattern(q)
           /\ \A q, n : SyncAt(q, n)' <=> SyncAt(q, n)
<1>1. Sync' = Sync /\ FixedLength' = FixedLength
  BY DEF Sync, FixedLength
<1>2. \A q : Pattern(q)' <=> Pattern(q)
  BY <1>1 DEF Pattern
<1>3. \A q, n : SyncAt(q, n)' <=> SyncAt(q, n)
  BY <1>1, <1>2 DEF SyncAt
<1>4. \A i : EndOf(taken, i)' = EndOf(taken, i)
  BY <1>1 DEF EndOf
<1>5. LastEnd' = LastEnd
  BY <1>1 DEF LastEnd, EndOf
<1>6. Greedy(taken, received)'
  BY <1>1, <1>3 DEF Greedy, FixedInv, EndOf
<1> QED
  BY <1>2, <1>3, <1>5, <1>6

LEMMA CallInv ==
    ASSUME FixedInv, NEW k \in 1..MaxStream, Call(k)
    PROVE  FixedInv'
<1> USE MaxStreamAssumption
<1>1. FixedTypeOK'
  <2>1. raised' \in BOOLEAN
    BY DEF Call
  <2>2. received' \in 0..MaxStream /\ start' \in 0..received'
    BY DEF FixedInv, FixedTypeOK, Call
  <2>3. before' \in Nat
    BY DEF FixedInv, FixedTypeOK, Call
  <2> QED
    BY <2>1, <2>2, <2>3 DEF FixedInv, FixedTypeOK, Call
<1>2. received \in Nat /\ received' \in Nat /\ received <= received'
  BY DEF FixedInv, FixedTypeOK, Call
<1>3. Sync' = Sync /\ FixedLength' = FixedLength
  BY DEF Sync, FixedLength, Call
<1>4. \A q : Pattern(q)' <=> Pattern(q)
  BY <1>3 DEF Pattern, Call
<1>5. Greedy(taken, received')
  BY <1>2, GreedyMonotone DEF FixedInv
<1>6. Greedy(taken, received)'
  <2>1. \A q : SyncAt(q, received)' <=> SyncAt(q, received')
    BY <1>3, <1>4 DEF SyncAt
  <2>2. taken' = taken
    BY DEF Call
  <2> QED
    BY <1>3, <1>5, <2>1, <2>2 DEF Greedy, EndOf
<1>7. LastEnd' = LastEnd
  BY <1>3 DEF LastEnd, EndOf, Call
<1>8. LastEnd' <= start' /\ \A q \in LastEnd'..(start' - 1) : ~Pattern(q)'
  BY <1>4, <1>7 DEF FixedInv, Call
<1>9. phase' = "loop"
  BY DEF Call
<1> QED
  BY <1>1, <1>6, <1>8, <1>9 DEF FixedInv, BufferStaysSmall

LEMMA NoSyncInv ==
    ASSUME FixedInv, NoSync
    PROVE  FixedInv'
<1>1. /\ start \in Nat /\ received \in Nat /\ start <= received
      /\ Len(Sync) \in Nat /\ FixedLength \in Nat /\ FixedLength > 0
  BY LayoutType DEF FixedInv, FixedTypeOK
<1>2. Len(Sync) > 0
  <2>1. Sync \in Seq(ByteValues) /\ Sync # <<>>
    BY LayoutType DEF FixedInv, NoSync
  <2> QED
    BY <2>1
<1>3. \A p \in start..received : ~SyncAt(p, received)
  BY DEF NoSync
<1>4. /\ start' \in Nat /\ start <= start' /\ start' <= received
      /\ start' = start \/ start' = received - (Len(Sync) - 1)
      /\ Len(Sync) # 1 => received - start' <= Len(Sync) - 1
  BY <1>1, <1>2 DEF NoSync, Buffered
<1>5. FixedTypeOK'
  BY <1>1, <1>4 DEF FixedInv, FixedTypeOK, NoSync
<1>6. UNCHANGED <<layout, stream, received, taken>>
  BY DEF NoSync
<1>7. /\ Greedy(taken, received)'
      /\ LastEnd' = LastEnd
      /\ \A q : Pattern(q)' <=> Pattern(q)
      /\ \A q, n : SyncAt(q, n)' <=> SyncAt(q, n)
  BY <1>5, <1>6, SameFrames
<1>8. LastEnd \in Nat /\ LastEnd <= start
  <2>1. FixedTypeOK /\ Len(taken) \in Nat
    BY DEF FixedInv, FixedTypeOK
  <2> QED
    BY <2>1, EndType DEF LastEnd, FixedInv
<1>9. ASSUME NEW q \in LastEnd..(start' - 1)
      PROVE  ~Pattern(q)
  <2>1. CASE q < start
    <3>1. q \in LastEnd..(start - 1)
      BY <1>1, <1>8, <2>1
    <3> QED
      BY <3>1 DEF FixedInv
  <2>2. CASE q >= start
    <3>0. q \in Nat /\ q < start'
      BY <1>4, <1>8, IntervalMember
    <3>1. q \in Nat /\ q < start' /\ start' = received - (Len(Sync) - 1)
      BY <1>1, <1>4, <2>2, <3>0
    <3>2. q \in start..received /\ q + Len(Sync) <= received
      BY <1>1, <1>4, <2>2, <3>1
    <3> QED
      BY <1>3, <3>2 DEF SyncAt
  <2> QED
    BY <1>1, <1>8, <2>1, <2>2
<1>10. NoWholeFrameWaits'
  <2>1. received' = received
    BY <1>6
  <2>2. \A p \in start'..received : p \in start..received
    BY <1>1, <1>4
  <2> QED
    BY <1>3, <1>7, <2>1, <2>2 DEF NoWholeFrameWaits
<1>11. BufferStaysSmall'
  <2>1. Sync' = Sync /\ received' = received
    BY <1>6 DEF Sync
  <2> QED
    BY <1>1, <1>2, <1>4, <2>1 DEF BufferStaysSmall, Buffered
<1>12. \A q \in LastEnd'..(start' - 1) : ~Pattern(q)'
  BY <1>7, <1>9
<1>13. LastEnd' <= start'
  BY <1>1, <1>4, <1>7, <1>8
<1> QED
  BY <1>5, <1>7, <1>10, <1>11, <1>12, <1>13 DEF FixedInv

LEMMA IncompleteInv ==
    ASSUME FixedInv, NEW p \in 0..received, Incomplete(p)
    PROVE  FixedInv'
<1>1. /\ start \in Nat /\ received \in Nat /\ start <= p
      /\ FixedLength \in Nat /\ FixedLength > 0
  BY LayoutType DEF FixedInv, FixedTypeOK, Incomplete, Finds
<1>2. start' = p
  BY DEF Incomplete
<1>3. FixedTypeOK'
  BY <1>1, <1>2 DEF FixedInv, FixedTypeOK, Incomplete
<1>4. UNCHANGED <<layout, stream, received, taken>>
  BY DEF Incomplete
<1>5. /\ Greedy(taken, received)'
      /\ LastEnd' = LastEnd
      /\ \A q : Pattern(q)' <=> Pattern(q)
      /\ \A q, n : SyncAt(q, n)' <=> SyncAt(q, n)
  BY <1>3, <1>4, SameFrames
<1>6. LastEnd \in Nat /\ LastEnd <= start
  <2>1. FixedTypeOK /\ Len(taken) \in Nat
    BY DEF FixedInv, FixedTypeOK
  <2> QED
    BY <2>1, EndType DEF LastEnd, FixedInv
<1>7. LastEnd <= p
  BY <1>1, <1>6
<1>8. \A q \in LastEnd..(p - 1) : ~Pattern(q)
  BY NoPatternBefore DEF Incomplete
<1>9. FixedLength' = FixedLength /\ received' = received
  BY <1>4 DEF FixedLength
<1>10. NoWholeFrameWaits'
  <2>1. SyncAt(p, received) /\ received - p < FixedLength
    BY DEF Incomplete, Finds
  <2> SUFFICES ASSUME NEW r \in p..received,
                      SyncAt(r, received),
                      \A q \in p..(r - 1) : ~SyncAt(q, received)
               PROVE  r + FixedLength > received
    BY <1>2, <1>5, <1>9 DEF NoWholeFrameWaits
  <2> QED
    BY <1>1, <2>1
<1>11. BufferStaysSmall'
  BY <1>1, <1>2, <1>9 DEF BufferStaysSmall, Buffered, Incomplete
<1> QED
  BY <1>2, <1>3, <1>5, <1>7, <1>8, <1>10, <1>11 DEF FixedInv

\* Cutting a frame keeps the parts of FixedInv about the frames.
LEMMA CutFrameInv ==
    ASSUME FixedInv, NEW p \in 0..received, CutFrame(p)
    PROVE  /\ start' \in 0..received' /\ taken' \in Seq(Nat)
           /\ Greedy(taken, received)'
           /\ LastEnd' = start'
<1>1. /\ start \in Nat /\ received \in Nat /\ start <= p /\ p \in Nat
      /\ taken \in Seq(Nat)
      /\ FixedLength \in Nat /\ FixedLength > 0
  BY LayoutType DEF FixedInv, FixedTypeOK, CutFrame, Finds
<1>2. /\ taken' = Append(taken, p) /\ start' = p + FixedLength
      /\ received - p >= FixedLength
      /\ UNCHANGED <<layout, stream, received>>
  BY DEF CutFrame
<1>3. FixedLength' = FixedLength /\ Sync' = Sync
  BY <1>2 DEF FixedLength, Sync
<1>4. \A q, n : SyncAt(q, n)' <=> SyncAt(q, n)
  BY <1>2, <1>3 DEF SyncAt, Pattern
<1>5. /\ Len(taken') = Len(taken) + 1
      /\ taken'[Len(taken) + 1] = p
      /\ \A i \in 1..Len(taken) : taken'[i] = taken[i]
      /\ taken' \in Seq(Nat)
  BY <1>1, <1>2
<1>6. LastEnd' = start'
  BY <1>1, <1>2, <1>3, <1>5 DEF LastEnd, EndOf
<1>7. \A i \in 0..Len(taken) : EndOf(taken, i)' = EndOf(taken, i)
  BY <1>3, <1>5 DEF EndOf
<1>8. LastEnd \in Nat /\ LastEnd <= start
  <2>1. FixedTypeOK /\ Len(taken) \in Nat
    BY <1>1 DEF FixedInv
  <2> QED
    BY <2>1, EndType DEF LastEnd, FixedInv
<1>9. ASSUME NEW i \in 1..Len(taken')
      PROVE  /\ taken'[i] >= EndOf(taken, i - 1)'
             /\ taken'[i] + FixedLength <= received
             /\ SyncAt(taken'[i], received)
             /\ \A q \in EndOf(taken, i - 1)'..(taken'[i] - 1) : ~SyncAt(q, received)
  <2>1. CASE i = Len(taken) + 1
    <3>1. EndOf(taken, i - 1)' = LastEnd /\ taken'[i] = p
      BY <1>1, <1>5, <1>7, <2>1 DEF LastEnd
    <3>2. \A q \in LastEnd..(p - 1) : ~SyncAt(q, received)
      BY NoPatternBefore DEF CutFrame, SyncAt
    <3>3. SyncAt(p, received)
      BY DEF CutFrame, Finds
    <3>4. p >= LastEnd /\ p + FixedLength <= received
      BY <1>1, <1>2, <1>8
    <3> QED
      BY <3>1, <3>2, <3>3, <3>4
  <2>2. CASE i # Len(taken) + 1
    <3>1. i \in 1..Len(taken)
      BY <1>1, <1>5, <2>2
    <3>2. EndOf(taken, i - 1)' = EndOf(taken, i - 1) /\ taken'[i] = taken[i]
      BY <1>1, <1>5, <1>7, <3>1
    <3>3. i \in DOMAIN taken
      BY <1>1, <3>1
    <3> QED
      BY <3>2, <3>3 DEF FixedInv, Greedy
  <2> QED
    BY <2>1, <2>2
<1>10. Greedy(taken, received)'
  <2>1. DOMAIN taken' = 1..Len(taken')
    BY <1>5
  <2> QED
    BY <1>2, <1>3, <1>4, <1>9, <2>1 DEF Greedy
<1> QED
  BY <1>1, <1>2, <1>5, <1>6, <1>10

LEMMA TakeFrameInv ==
    ASSUME FixedInv, NEW p \in 0..received, TakeFrame(p)
    PROVE  FixedInv'
<1>1. /\ start' \in 0..received' /\ taken' \in Seq(Nat)
      /\ Greedy(taken, received)'
      /\ LastEnd' = start'
  BY CutFrameInv DEF TakeFrame
<1>2. FixedTypeOK'
  BY <1>1 DEF FixedInv, FixedTypeOK, TakeFrame, CutFrame
<1>3. start' \in Nat
  BY <1>1, <1>2 DEF FixedTypeOK
<1>4. phase' = "loop"
  BY DEF TakeFrame, CutFrame, Finds
<1>5. LastEnd' <= start' /\ \A q \in LastEnd'..(start' - 1) : ~Pattern(q)'
  <2>1. LastEnd' <= start'
    BY <1>1, <1>3
  <2>2. start'..(start' - 1) = {}
    BY <1>3, EmptyInterval
  <2> QED
    BY <1>1, <2>1, <2>2
<1> QED
  BY <1>1, <1>2, <1>4, <1>5 DEF FixedInv, BufferStaysSmall

LEMMA FrameRaisesInv ==
    ASSUME FixedInv, NEW p \in 0..received, FrameRaises(p)
    PROVE  FixedInv'
<1>1. /\ start' \in 0..received' /\ taken' \in Seq(Nat)
      /\ Greedy(taken, received)'
      /\ LastEnd' = start'
  BY CutFrameInv DEF FrameRaises
<1>2. FixedTypeOK'
  <2>1. raised' \in BOOLEAN
    BY DEF FrameRaises
  <2>2. lost' \subseteq Nat
    <3>1. before \in Nat /\ Len(taken) \in Nat /\ lost \subseteq Nat
      BY DEF FixedInv, FixedTypeOK
    <3>2. (before + 1)..(Len(taken) + 1) \subseteq Nat
      BY <3>1
    <3> QED
      BY <3>1, <3>2 DEF FrameRaises
  <2> QED
    BY <1>1, <2>1, <2>2 DEF FixedInv, FixedTypeOK, FrameRaises, CutFrame
<1>3. start' \in Nat
  BY <1>1, <1>2 DEF FixedTypeOK
<1>4. raised'
  BY DEF FrameRaises
<1>5. LastEnd' <= start' /\ \A q \in LastEnd'..(start' - 1) : ~Pattern(q)'
  <2>1. LastEnd' <= start'
    BY <1>1, <1>3
  <2>2. start'..(start' - 1) = {}
    BY <1>3, EmptyInterval
  <2> QED
    BY <1>1, <2>1, <2>2
<1> QED
  BY <1>1, <1>2, <1>4, <1>5 DEF FixedInv, BufferStaysSmall

LEMMA FixedNextInv == FixedInv /\ [FixedNext]_fixedVars => FixedInv'
<1> SUFFICES ASSUME FixedInv, [FixedNext]_fixedVars PROVE FixedInv'
  OBVIOUS
<1>1. ASSUME NEW k \in 1..MaxStream, Call(k) PROVE FixedInv'
  BY <1>1, CallInv
<1>2. CASE NoSync
  BY <1>2, NoSyncInv
<1>3. ASSUME NEW p \in 0..received, Incomplete(p) PROVE FixedInv'
  BY <1>3, IncompleteInv
<1>4. ASSUME NEW p \in 0..received, TakeFrame(p) PROVE FixedInv'
  BY <1>4, TakeFrameInv
<1>5. ASSUME NEW p \in 0..received, FrameRaises(p) PROVE FixedInv'
  BY <1>5, FrameRaisesInv
<1>6. ASSUME UNCHANGED fixedVars PROVE FixedInv'
  <2>1. FixedTypeOK'
    BY <1>6 DEF FixedInv, FixedTypeOK, fixedVars
  <2>2. UNCHANGED <<layout, stream, received, taken, start, phase, raised>>
    BY <1>6 DEF fixedVars
  <2>3. /\ Greedy(taken, received)'
        /\ LastEnd' = LastEnd
        /\ \A q : Pattern(q)' <=> Pattern(q)
        /\ \A q, n : SyncAt(q, n)' <=> SyncAt(q, n)
    BY <2>1, <2>2, SameFrames
  <2>4. FixedLength' = FixedLength /\ Sync' = Sync
    BY <2>2 DEF FixedLength, Sync
  <2> QED
    BY <2>1, <2>2, <2>3, <2>4 DEF FixedInv, NoWholeFrameWaits, BufferStaysSmall, Buffered
<1> QED
  BY <1>1, <1>2, <1>3, <1>4, <1>5, <1>6 DEF FixedNext, Loop, StreamExhausted

LEMMA AlwaysFixedInv == FixedSpec => []FixedInv
<1> QED
  BY FixedInitInv, FixedNextInv, PTL DEF FixedSpec

\* The variables keep their types.
THEOREM FixedTypeCorrect == FixedSpec => []FixedTypeOK
<1>1. FixedInv => FixedTypeOK
  BY DEF FixedInv
<1> QED
  BY <1>1, AlwaysFixedInv, PTL

\* Between two calls the frames cut from the buffer are those that decoding the
\* whole stream at once would find, wherever the calls cut it.
THEOREM DecodingIsIndependentOfPieces == FixedSpec => []FramesOfTheStream
<1>1. FixedInv => FramesOfTheStream
  <2> SUFFICES ASSUME FixedInv, phase = "idle", ~raised PROVE IsDecoding(taken, received)
    BY DEF FramesOfTheStream
  <2>1. LastEnd \in Nat /\ start \in Nat /\ received \in Nat /\ LastEnd <= start
    <3>1. FixedTypeOK /\ Len(taken) \in Nat
      BY DEF FixedInv, FixedTypeOK
    <3> QED
      BY <3>1, EndType DEF LastEnd, FixedInv, FixedTypeOK
  <2>2. ASSUME NEW p \in LastEnd..received,
               SyncAt(p, received),
               \A q \in LastEnd..(p - 1) : ~SyncAt(q, received)
        PROVE  p + FixedLength > received
    <3>1. p >= start
      <4>1. p \notin LastEnd..(start - 1)
        BY <2>2 DEF FixedInv, SyncAt
      <4> QED
        BY <2>1, <4>1
    <3>2. p \in start..received /\ \A q \in start..(p - 1) : ~SyncAt(q, received)
      BY <2>1, <2>2, <3>1
    <3> QED
      BY <2>2, <3>2 DEF FixedInv, NoWholeFrameWaits
  <2> QED
    BY <2>2 DEF IsDecoding, LastEnd, FixedInv
<1> QED
  BY <1>1, AlwaysFixedInv, PTL

\* The buffer stays below a frame or a pattern between two calls.
THEOREM BufferBounded == FixedSpec => []BufferStaysSmall
<1>1. FixedInv => BufferStaysSmall
  BY DEF FixedInv
<1> QED
  BY <1>1, AlwaysFixedInv, PTL
==============================================================================
