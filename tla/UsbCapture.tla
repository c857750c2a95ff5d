------------------------------ MODULE UsbCapture ------------------------------
(***************************************************************************)
(* The decoder at work: TSDash polls the ECU's realtime block with a plan  *)
(* of read commands, the ECU answers, usbmon hands the transfers to the    *)
(* decoder, the responses in pieces of any size.                           *)
(*                                                                         *)
(* TSDash, the ECU and usbmon are not part of the repository.  They are    *)
(* modelled as the decoder and its tests expect them; Faults chooses what  *)
(* may go wrong between them:                                              *)
(*   "refused"      the ECU answers with an error status;                  *)
(*   "silent"       a response is lost as a whole;                         *)
(*   "cut"          the tail of a response is not captured, or the bridge  *)
(*                  is stopped before it arrives;                          *)
(*   "page"         TSDash also reads another page of the ECU, which the   *)
(*                  decoder takes for the realtime block;                  *)
(*   "undecodable"  the fields of a frame do not decode.                   *)
(***************************************************************************)
EXTENDS TsDecoder

CONSTANTS
    Plan,           \* the reads of one poll cycle, records [offset, count]
    OtherReads,     \* reads of another page
    Faults,
    MaxCycles,      \* bound on the number of poll cycles
    MaxFaults       \* bound on the number of faults

ASSUME PlanAssumption ==
    /\ Plan \in Seq([offset : Nat, count : Nat \ {0}])
    /\ Plan # <<>>
    /\ \A i \in DOMAIN Plan : Plan[i].offset = 0 <=> i = 1
ASSUME OtherReadsAssumption == OtherReads \subseteq [offset : Nat, count : Nat \ {0}]
ASSUME FaultsAssumption == Faults \subseteq {"refused", "silent", "cut", "page", "undecodable"}
ASSUME BoundsAssumption == MaxCycles \in Nat /\ MaxFaults \in Nat

VARIABLES
    cycle,      \* number of the current poll cycle
    at,         \* index in Plan of the read in progress
    wire,       \* bytes of the response that usbmon has still to deliver
    answered,   \* that response is the data asked for, not a refusal
    over,       \* the capture was stopped, the decoder flushed
    faults,     \* number of faults so far
    \* history
    got,        \* the reads of this cycle whose response was captured whole
    whole,      \* the cycles all of whose responses were captured whole
    spoiled,    \* the cycles hit by a frame that did not decode
    disturbed,  \* the cycles hit by a cut response or a read of another page
    decodedIn   \* the cycles in which the frames were completed

captureVars == <<cycle, at, wire, answered, over, faults, got, whole, spoiled,
                 disturbed, decodedIn>>
vars == <<decoderVars, captureVars>>

Reads == DOMAIN Plan

\* The reads of a cycle reach every byte that the fields are read from.  Only
\* WholeCyclesAreDecoded depends on it.
PlanCoversFields ==
    /\ RequiredLength \in 1..FrameLength
    /\ \A p \in 0..(RequiredLength - 1) : \E i \in Reads :
         Plan[i].offset <= p /\ p < Plan[i].offset + Plan[i].count

Init ==
    /\ DecoderInit
    /\ cycle = 0
    /\ at = Len(Plan)
    /\ wire = <<>>
    /\ answered = FALSE
    /\ over = FALSE
    /\ faults = 0
    /\ got = {}
    /\ whole = {}
    /\ spoiled = {}
    /\ disturbed = {}
    /\ decodedIn = <<>>

\* One more fault of kind f.
Fault(f) ==
    /\ f \in Faults
    /\ faults < MaxFaults
    /\ faults' = faults + 1

\* After a read the host goes on to the next one, repeats it, or starts over.
NextReads == {1, at} \cup {i \in Reads : i = at + 1}

\* The cycle to which a frame belongs that this step completes.
NoteFrame ==
    decodedIn' = IF frames' = frames THEN decodedIn ELSE Append(decodedIn, cycle)

\* The decoder sees a read command.
Seen(o, c) ==
    /\ Command(o, c)
    /\ NoteFrame
    /\ UNCHANGED spoiled

\* The frame that a command or flush() completes does not decode.
Raises ==
    /\ "undecodable" \in Faults
    /\ DecodeRaises
    /\ spoiled' = spoiled \cup {cycle, cycle'}
    /\ UNCHANGED decodedIn

\* TSDash begins the i-th read of the plan.
Ask(i) ==
    /\ ~over
    /\ wire = <<>>
    /\ i = 1 => cycle < MaxCycles
    /\ cycle' = IF i = 1 THEN cycle + 1 ELSE cycle
    /\ at' = i
    /\ got' = IF i = 1 THEN {} ELSE got
    /\ UNCHANGED <<over, whole, disturbed>>

\* The ECU's response to it is under way.
Answers(i) ==
    /\ wire' = Answer(Plan[i].offset, Plan[i].count, cycle')
    /\ answered' = TRUE

Poll(i) ==
    /\ Ask(i)
    /\ Answers(i)
    /\ Seen(Plan[i].offset, Plan[i].count)
    /\ UNCHANGED faults

\* The ECU refuses, or its response is lost.
PollInVain(i) ==
    /\ Ask(i)
    /\ \/ Fault("refused") /\ wire' = Refusal
       \/ Fault("silent") /\ wire' = <<>>
    /\ answered' = FALSE
    /\ Seen(Plan[i].offset, Plan[i].count) \/ Raises

PollRaises(i) ==
    /\ Ask(i)
    /\ Answers(i)
    /\ Fault("undecodable")
    /\ Raises

\* TSDash reads another page.  _parse_read_command looks at the offset and the
\* count only.  The bytes of another page are of no cycle.
PollOther(r) ==
    /\ ~over
    /\ wire = <<>>
    /\ Fault("page")
    /\ wire' = Answer(r.offset, r.count, 0)
    /\ answered' = FALSE
    /\ disturbed' = disturbed \cup {cycle}
    /\ UNCHANGED <<cycle, at, over, got, whole>>
    /\ Seen(r.offset, r.count) \/ Raises

\* usbmon delivers the next k bytes of the response.
Deliver(k) ==
    /\ ~over
    /\ ConsumeInput(SubSeq(wire, 1, k))
    /\ wire' = SubSeq(wire, k + 1, Len(wire))
    /\ got' = IF answered /\ k = Len(wire) THEN got \cup {at} ELSE got
    /\ whole' = IF got' = Reads THEN whole \cup {cycle} ELSE whole
    /\ UNCHANGED <<cycle, at, answered, over, faults, spoiled, disturbed, decodedIn>>

\* The rest of the response does not reach the capture.
Cut ==
    /\ ~over
    /\ wire # <<>>
    /\ Fault("cut")
    /\ wire' = <<>>
    /\ disturbed' = disturbed \cup {cycle}
    /\ UNCHANGED <<decoderVars, cycle, at, answered, over, got, whole, spoiled, decodedIn>>

\* The bridge is stopped: decoder.flush().
Finish ==
    /\ ~over
    /\ wire = <<>>
    /\ over' = TRUE
    /\ UNCHANGED <<cycle, at, wire, answered, got, whole, disturbed>>
    /\ \/ /\ FlushSegment
          /\ NoteFrame
          /\ UNCHANGED <<spoiled, faults>>
       \/ Fault("undecodable") /\ Raises

\* Nothing is captured any more.
Finished ==
    /\ over
    /\ UNCHANGED vars

Next ==
    \/ \E i \in NextReads : Poll(i) \/ PollInVain(i) \/ PollRaises(i)
    \/ \E r \in OtherReads : PollOther(r)
    \/ \E k \in 1..Len(wire) : Deliver(k)
    \/ Cut \/ Finish \/ Finished

Spec == Init /\ [][Next]_vars

------------------------------------------------------------------------------
(* Properties *)

\* Every variable has its type.
TypeOK ==
    /\ DecoderTypeOK
    /\ cycle \in 0..MaxCycles
    /\ at \in Reads
    /\ wire \in Seq(Bytes)
    /\ answered \in BOOLEAN
    /\ over \in BOOLEAN
    /\ faults \in 0..MaxFaults
    /\ got \subseteq Reads
    /\ whole \subseteq 0..MaxCycles
    /\ spoiled \subseteq 0..MaxCycles
    /\ disturbed \subseteq 0..MaxCycles
    /\ decodedIn \in Seq(0..MaxCycles)

\* A response is accepted for the bytes it was asked for: every position of
\* the block that counts as covered holds the byte polled at that offset in
\* this cycle, whatever happened to the block before, unless this cycle itself
\* was disturbed by a cut response or a read of another page, or a frame that
\* did not decode kept its first command from resetting the block.
CoveredBytesInPlace ==
    cycle \notin disturbed \cup spoiled =>
        \A p \in Positions : Covers(ranges, p) => block[p] = DataByte(p, cycle)

\* The comment in _extract_response_data: a packet is accepted once the payload
\* that its length prefix declares is present.
AcceptedOncePresent ==
    [][~(ranges' \subseteq ranges) => PresentLengths(segment.data) # {}]_vars

\* Even the frames of disturbed cycles are not made of several poll cycles, nor
\* of bytes that nobody polled.
NeverMixed(f) ==
    \A p, q \in 0..(RequiredLength - 1) :
        /\ f[p].tag # "zero"
        /\ f[p].cyc # 0 /\ f[q].cyc # 0 => f[p].cyc = f[q].cyc

\* A frame completed in an undisturbed cycle is not torn: its fields are read
\* from bytes of that cycle alone, whatever happened to the cycle before, and
\* whatever responses were refused, lost or asked for again.
FramesAreWhole ==
    \A i \in DOMAIN frames :
        /\ NeverMixed(frames[i])
        /\ decodedIn[i] \notin disturbed =>
             \A p \in 0..(RequiredLength - 1) : frames[i][p] = DataByte(p, decodedIn[i])

\* An undisturbed cycle is decoded at most once, and cycles in their order.
FramesInOrder ==
    \A i, j \in DOMAIN frames : i < j =>
        /\ decodedIn[i] <= decodedIn[j]
        /\ decodedIn[i] = decodedIn[j] => decodedIn[i] \in disturbed

\* An undisturbed cycle whose responses were all captured is decoded, at the
\* latest by the first command after it or by flush(), unless a frame that did
\* not decode hit it.
WholeCyclesAreDecoded ==
    \A c \in whole \ (spoiled \cup disturbed) : c < cycle \/ over =>
        \E i \in DOMAIN decodedIn : decodedIn[i] = c
==============================================================================
