-------------------------- MODULE FixedFrameDecoder --------------------------
(***************************************************************************)
(* FixedFrameDecoder.decode_bytes: finds frames of a fixed length, each    *)
(* beginning with a sync pattern, in a stream that arrives in pieces of    *)
(* any size.  What is not yet decoded waits in a buffer.                   *)
(*                                                                         *)
(* The buffer is only ever extended at its end and cut at its beginning,   *)
(* so it is the part of the stream from position start to received.  A     *)
(* frame is known by the position of its first byte.                       *)
(***************************************************************************)
EXTENDS Naturals, Sequences

CONSTANTS
    Layouts,        \* the configurations, records [sync, length]
    ByteValues,     \* the values of a byte
    MaxStream       \* bound on the number of bytes received

ASSUME LayoutsAssumption == Layouts \subseteq [sync : Seq(ByteValues), length : Nat \ {0}]
ASSUME MaxStreamAssumption == MaxStream \in Nat

VARIABLES
    layout,     \* self.sync and self.frame_length
    stream,     \* the bytes of the stream, received or still to come
    received,   \* number of bytes received
    start,      \* position of the first byte of self.buffer
    phase,      \* "idle" between two calls, "loop" in decode_bytes
    before,     \* number of frames cut before the call in progress
    raised,     \* the last call raised an exception
    \* history
    taken,      \* the frames cut from the buffer, in order
    lost        \* indices in taken of the frames that no caller was given

fixedVars == <<layout, stream, received, start, phase, before, raised, taken, lost>>

Sync == layout.sync
FixedLength == layout.length
Buffered == received - start

FixedInit ==
    /\ layout \in Layouts
    /\ stream \in [0..(MaxStream - 1) -> ByteValues]
    /\ received = 0
    /\ start = 0
    /\ phase = "idle"
    /\ before = 0
    /\ raised = FALSE
    /\ taken = <<>>
    /\ lost = {}

\* The bytes from position p on are the sync pattern.
Pattern(p) == \A j \in 1..Len(Sync) : stream[p + j - 1] = Sync[j]

\* They are, and lie within the first n bytes.
SyncAt(p, n) == p + Len(Sync) <= n /\ Pattern(p)

\* decode_bytes(data), with data the next k bytes: self.buffer.extend(data)
Call(k) ==
    /\ phase = "idle"
    /\ received + k <= MaxStream
    /\ received' = received + k
    /\ phase' = "loop"
    /\ before' = Len(taken)
    /\ raised' = FALSE
    /\ UNCHANGED <<layout, stream, start, taken, lost>>

\* self.buffer.find(self.sync) finds p; without a pattern every position will do.
Finds(p) ==
    /\ phase = "loop"
    /\ p \in start..received
    /\ SyncAt(p, received)
    /\ \A q \in start..(p - 1) : ~SyncAt(q, received)

\* Fault: everything is thrown away, also the beginning of a pattern.
NoSyncDropsAll ==
    /\ phase = "loop"
    /\ Sync # <<>>
    /\ \A p \in start..received : ~SyncAt(p, received)
    /\ start' = received
    /\ phase' = "idle"
    /\ UNCHANGED <<layout, stream, received, before, raised, taken, lost>>

\* Fault: nothing is thrown away, whatever the length of the pattern.
NoSyncKeepsAll ==
    /\ phase = "loop"
    /\ Sync # <<>>
    /\ \A p \in start..received : ~SyncAt(p, received)
    /\ phase' = "idle"
    /\ UNCHANGED <<layout, stream, received, start, before, raised, taken, lost>>

\* No pattern in the buffer: its last len(sync) - 1 bytes are kept.  With a
\* pattern of one byte that is buffer[:-0], and nothing is deleted.
NoSync ==
    LET keep == Len(Sync) - 1 IN
    /\ phase = "loop"
    /\ Sync # <<>>
    /\ \A p \in start..received : ~SyncAt(p, received)
    /\ start' = IF keep # 0 /\ Buffered > keep THEN received - keep ELSE start
    /\ phase' = "idle"
    /\ UNCHANGED <<layout, stream, received, before, raised, taken, lost>>

\* The bytes before the pattern are deleted; the frame is not complete yet.
Incomplete(p) ==
    /\ Finds(p)
    /\ received - p < FixedLength
    /\ start' = p
    /\ phase' = "idle"
    /\ UNCHANGED <<layout, stream, received, before, raised, taken, lost>>

\* The frame at p is cut from the buffer.
CutFrame(p) ==
    /\ Finds(p)
    /\ received - p >= FixedLength
    /\ start' = p + FixedLength
    /\ taken' = Append(taken, p)
    /\ UNCHANGED <<layout, stream, received, before>>

\* The frame is decoded, its patch kept for the caller.
TakeFrame(p) ==
    /\ CutFrame(p)
    /\ UNCHANGED <<phase, raised, lost>>

\* A frame does not decode (a NaN for a gear): the exception leaves the call
\* with the patches of the frames before it; the bytes after it stay.
FrameRaises(p) ==
    /\ CutFrame(p)
    /\ raised' = TRUE
    /\ lost' = lost \cup (before + 1)..(Len(taken) + 1)
    /\ phase' = "idle"

StreamExhausted ==
    /\ phase = "idle"
    /\ received = MaxStream
    /\ UNCHANGED fixedVars

Loop == NoSync \/ \E p \in 0..received : Incomplete(p) \/ TakeFrame(p) \/ FrameRaises(p)

FixedNext == (\E k \in 1..MaxStream : Call(k)) \/ Loop \/ StreamExhausted

FixedSpec == FixedInit /\ [][FixedNext]_fixedVars

------------------------------------------------------------------------------
(* Properties *)

\* Every variable has its type.
FixedTypeOK ==
    /\ layout \in Layouts
    /\ stream \in [0..(MaxStream - 1) -> ByteValues]
    /\ received \in 0..MaxStream
    /\ start \in 0..received
    /\ phase \in {"idle", "loop"}
    /\ before \in Nat
    /\ raised \in BOOLEAN
    /\ taken \in Seq(Nat)
    /\ lost \subseteq Nat

\* The position after the i-th of the frames f, 0 before the first one.
EndOf(f, i) == IF i = 0 THEN 0 ELSE f[i] + FixedLength

\* The frames f are each the first one at or after the end of the one before.
Greedy(f, n) ==
    \A i \in DOMAIN f :
        /\ f[i] >= EndOf(f, i - 1)
        /\ f[i] + FixedLength <= n
        /\ SyncAt(f[i], n)
        /\ \A q \in EndOf(f, i - 1)..(f[i] - 1) : ~SyncAt(q, n)

\* The frames f are those found in the first n bytes all at once: nothing after
\* the last one is the beginning of another whole frame, at the earliest pattern.
IsDecoding(f, n) ==
    /\ Greedy(f, n)
    /\ \A p \in EndOf(f, Len(f))..n :
         SyncAt(p, n) /\ (\A q \in EndOf(f, Len(f))..(p - 1) : ~SyncAt(q, n))
            => p + FixedLength > n

\* However the stream is cut into calls, the frames found are those of the stream
\* received so far: no pattern is lost at the end of a piece, none is found in
\* the middle of a frame.  After an exception this waits for the next call.
FramesOfTheStream == phase = "idle" /\ ~raised => IsDecoding(taken, received)

\* What waits between two calls is less than a frame or less than a pattern,
\* unless the pattern has one byte, or the last call left frames behind.
BufferStaysSmall ==
    phase = "idle" /\ ~raised /\ Len(Sync) # 1 =>
        Buffered < FixedLength \/ Buffered < Len(Sync)
==============================================================================
