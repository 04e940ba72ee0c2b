--------------------------- MODULE ReportDecoder ---------------------------
(***************************************************************************)
(* TrackerParserService.parseFrame (src/tracker/parser): one frame, as the *)
(* splitter delimited it, through the header and, for a report, through    *)
(* the data masks that say which fields its data zone holds.               *)
(*                                                                         *)
(* What can go wrong is alignment: a field carries no tag, so every field  *)
(* is found by having read all those before it.  The model keeps the       *)
(* cursor, the masks and every byte that says how much follows (lengths,   *)
(* counts, masks); what the other bytes mean is left out.  A field is a    *)
(* list of reads still to do; one step is one read of the cursor.          *)
(***************************************************************************)
EXTENDS PeoFenceList, FiniteSets, FiniteSetsExt

CONSTANT
    Frames  \* the frames that arrive, see FrameType

(***************************************************************************)
(* A frame is its kind and its binary section, the bytes between the head  *)
(* token and the terminator.  The rest is for the properties: the fields   *)
(* the device put into the data zone, the ADAS warnings it raised, whether *)
(* it used fields this decoder does not know (opaque) and whether the      *)
(* binary section is all the device sent (whole).  Of an ASCII frame, text *)
(* is the data zone split at its commas and fences what the device lists.  *)
(***************************************************************************)
Blocks    == {"report", "event", "can1", "can2", "electric1", "can3", "advanced1"}
FieldType == [blk : Blocks, bit : 0..31, from : Nat, to : Nat]
AdasTypes == {"LWDL", "LWDR", "FCW", "PCW", "PEDESTRIAN_IN_DANGER_ZONE"}
FrameType ==
    [kind : {"report", "heartbeat", "hex", "ascii"}, body : Seq(0..255),
     fields : SUBSET FieldType, adas : SUBSET AdasTypes, opaque : BOOLEAN, whole : BOOLEAN,
     text : Seq(Token), fences : Seq(FenceType)]

ASSUME FramesAssumption == \A f \in Frames : f \in FrameType

VARIABLES
    frame,      \* the frame
    status,     \* "framed", "decoding" (a report), "scanning" (ASCII), "done", "thrown"
    offset,     \* of the cursor over the data zone
    topBits,    \* bits of the Data Mask the loop has not come to
    block,      \* whose mask is being worked through: "report" or a nested one
    blockBits,  \* bits of the nested mask its loop has not come to
    field,      \* the field being read
    todo,       \* its reads still to do
    decoded,    \* the fields completely read, where they were read
    adas,       \* mobileyeAdasEvents
    scanAt,     \* the field of an ASCII frame the fence scan has come to
    fences,     \* ascii.peoFences
    warnings    \* the kinds of warning raised

vars == <<frame, status, offset, topBits, block, blockBits, field, todo, decoded,
          adas, scanAt, fences, warnings>>

HEADER_PREFIX_BYTES == 2 + 8 + 1
TRAILER_BYTES == 7 + 2
REPORT_PREFIX_BYTES == 2 + 1 + 1 + 4

DataZoneOf(f) == SubSeq(f.body, HEADER_PREFIX_BYTES + 1, Len(f.body) - TRAILER_BYTES)

DataZone == DataZoneOf(frame)

Remaining == Len(DataZone) - offset

\* The bits set in the big-endian number in the w bytes after position at.
BitsIn(zone, at, w) ==
    { b \in 0..(8 * w - 1) : (zone[at + w - b \div 8] \div 2 ^ (b % 8)) % 2 = 1 }

BitsAt(at, w) == BitsIn(DataZone, at, w)

----------------------------------------------------------------------------
(* Reads: a width, and what the value read asks for next.                  *)

Read(w)           == [w |-> w, then |-> "nothing", body |-> <<>>]
LengthPrefixed    == [w |-> 1, then |-> "bytes", body |-> <<>>]
CountOf(reads)    == [w |-> 1, then |-> "repeat", body |-> reads]
FlagsFor(options) == [w |-> 1, then |-> "flags", body |-> options]
GnssInfoMask      == [w |-> 2, then |-> "gnss", body |-> <<>>]

Reads(widths) == [i \in DOMAIN widths |-> Read(widths[i])]

\* Every read there is: a count's records hold no further counts.
PlainRead  == [w : Nat, then : {"nothing"}, body : {<<>>}]
             \cup [w : {1}, then : {"bytes"}, body : {<<>>}]
FlagsRead  == [w : {1}, then : {"flags"}, body : Seq([bit : 0..31, read : PlainRead])]
RepeatRead == [w : {1}, then : {"repeat"}, body : Seq(PlainRead \cup FlagsRead)]
GnssRead   == [w : {2}, then : {"gnss"}, body : {<<>>}]
ReadType   == PlainRead \cup FlagsRead \cup RepeatRead \cup GnssRead

\* A read made if a bit is set; if it is clear, nothing is read.
When(b, r) == [bit |-> b, read |-> r]

Chosen(options, bits) ==
    [i \in DOMAIN options |-> IF options[i].bit \in bits THEN options[i].read ELSE Read(0)]

Satellites == FlagsFor(<<When(0, Read(1)), When(1, Read(1)), When(2, Read(1)), When(3, Read(1))>>)

\* parseGnssFix()
FixReads(infoMask) ==
    Chosen(<<When(0, Read(1)), When(1, Read(1)), When(2, Read(2)), When(3, Read(2)),
             When(4, Read(2)), When(5, Read(4)), When(6, Read(4)), When(7, Read(7)),
             When(8, Satellites)>>, infoMask)

\* Mutant: one record too few is read.
RecordsOneShort(count, reads) ==
    [i \in 1..((count - 1) * Len(reads)) |-> reads[((i - 1) % Len(reads)) + 1]]

\* for (let i = 0; i < count; i++) over the reads of one record
Records(count, reads) ==
    [i \in 1..(count * Len(reads)) |-> reads[((i - 1) % Len(reads)) + 1]]

\* What the value at the cursor adds in front of the reads still to do.
Follow(r) ==
    CASE r.then = "nothing" -> <<>>
      [] r.then = "bytes"   -> <<Read(DataZone[offset + 1])>>
      [] r.then = "repeat"  -> Records(DataZone[offset + 1], r.body)
      [] r.then = "flags"   -> Chosen(r.body, BitsAt(offset, 1))
      [] r.then = "gnss"    -> <<CountOf(FixReads(BitsAt(offset, 2)))>>

----------------------------------------------------------------------------
(* What each bit of each mask stands for: no reads means no payload.       *)

\* parseReportDataZone(); a nested block starts with its own mask
NestedBlock == [b \in {8, 9, 10, 11, 23, 24} |->
    CASE b = 8  -> "event"      [] b = 9  -> "can1"  [] b = 10 -> "can2"
      [] b = 11 -> "electric1"  [] b = 23 -> "can3"  [] b = 24 -> "advanced1"]

ReportReads(b) ==
    CASE b = 0 -> Reads(<<1, 1>>)
      [] b = 1 -> Reads(<<1>>)
      [] b = 2 -> Reads(<<2, 1>>)
      [] b = 3 -> <<GnssInfoMask>>
      [] b = 4 -> Reads(<<2, 2, 2, 4, 1>>)
      [] b = 7 -> Reads(<<1, 2>>)
      [] b \in DOMAIN NestedBlock -> Reads(<<4>>)
      [] OTHER -> <<>>

OneWireSensor == <<Read(8), FlagsFor(<<When(0, Read(2)), When(1, Read(1))>>)>>

EventDataReads(b) ==
    CASE b = 0             -> Reads(<<2>>)
      [] b = 1             -> Reads(<<1, 2>>)
      [] b \in {2, 3, 4}   -> Reads(<<1>>)
      [] b = 5             -> Reads(<<2, 4>>)
      [] b = 8             -> <<LengthPrefixed>>
      [] b = 9             -> <<CountOf(OneWireSensor)>>
      [] b = 10            -> Reads(<<3, 5>>)
      [] b = 11            -> Reads(<<1, 1, 1, 1, 1, 1, 1, 1, 1>>)
      [] b = 12            -> Reads(<<1, 1, 2, 2, 2>>)
      [] b = 14            -> Reads(<<1, 1, 1>>)
      [] b \in {7, 21, 23, 25} -> Reads(<<4>>)
      [] OTHER             -> <<>>

CanInfoMask1Reads(b) ==
    CASE b = 0                                       -> <<LengthPrefixed>>
      [] b \in {1, 11, 22, 23}                       -> Reads(<<1>>)
      [] b \in {5, 6, 7, 16, 17, 18, 19, 30}         -> Reads(<<2>>)
      [] b \in {10, 26, 27, 28}                      -> Reads(<<3>>)
      [] b \in {2, 3, 4, 12, 13, 14, 15, 20, 21, 24, 25, 29} -> Reads(<<4>>)
      [] b = 8                                       -> Reads(<<2, 2>>)
      [] b = 9                                       -> Reads(<<1, 1>>)
      [] OTHER                                       -> <<>>

CanInfoMask2Reads(b) ==
    CASE b \in {0, 1, 2, 21}                    -> Reads(<<1>>)
      [] b \in {3, 4, 5, 6, 14, 23, 30}         -> Reads(<<2>>)
      [] b \in {9, 13, 19, 20}                  -> Reads(<<3>>)
      [] b \in {7, 8, 10, 11, 12, 22, 27, 28}   -> Reads(<<4>>)
      [] b \in {15, 18}                         -> <<LengthPrefixed>>
      [] b = 24                                 -> <<CountOf(Reads(<<3>>))>>
      [] b \in {25, 26}                         -> Reads(<<1, 1>>)
      [] b = 29                                 -> <<CountOf(Reads(<<1, 2, 3, 1>>))>>
      [] OTHER                                  -> <<>>

ElectricInfoMask1Reads(b) ==
    CASE b \in {0, 1, 4, 5, 6, 7} -> Reads(<<2>>)
      [] b \in {2, 9, 10, 11}     -> Reads(<<4>>)
      [] b \in {3, 8, 12}         -> Reads(<<1>>)
      [] OTHER                    -> <<>>

CanInfoMask3Reads(b) ==
    CASE b \in {0, 2, 3, 4} -> Reads(<<4>>)
      [] b = 8              -> Reads(<<1>>)
      [] OTHER              -> <<>>

FieldReads(blk, b) ==
    CASE blk = "report"    -> ReportReads(b)
      [] blk = "event"     -> EventDataReads(b)
      [] blk = "can1"      -> CanInfoMask1Reads(b)
      [] blk = "can2"      -> CanInfoMask2Reads(b)
      [] blk = "electric1" -> ElectricInfoMask1Reads(b)
      [] blk = "can3"      -> CanInfoMask3Reads(b)
      [] blk = "advanced1" -> <<LengthPrefixed>>

\* Bits known to carry no bytes; other bits without reads are unsupported.
Reserved == ({"report"} \X {5, 6}) \cup ({"event"} \X {6, 13}) \cup ({"can2"} \X {16, 17})

----------------------------------------------------------------------------
\* Before the first field is read.
NoField == [blk |-> "report", bit |-> 0, from |-> 0, to |-> 0]

Init ==
    /\ frame \in Frames
    /\ status = "framed"
    /\ offset = 0
    /\ topBits = {} /\ blockBits = {}
    /\ block = "report"
    /\ field = NoField
    /\ todo = <<>>
    /\ decoded = {}
    /\ adas = {}
    /\ scanAt = 1
    /\ fences = <<>>
    /\ warnings = {}

HeaderFits == Len(frame.body) >= HEADER_PREFIX_BYTES + TRAILER_BYTES

\* parseHeader(): the Length field against the bytes that are there
LengthWarning ==
    IF frame.body[1] * 256 + frame.body[2] # Len(frame.body) - 2 THEN {"length"} ELSE {}

\* parseFrame() throws on a frame without room for its header and trailer.
RejectFrame ==
    /\ status = "framed"
    /\ ~ HeaderFits
    /\ status' = "thrown"
    /\ UNCHANGED <<frame, offset, topBits, block, blockBits, field, todo,
                   decoded, adas, scanAt, fences, warnings>>

\* The header, then parseReportDataZone() up to the start of its loop.
StartReport ==
    /\ status = "framed"
    /\ HeaderFits
    /\ frame.kind = "report"
    /\ Len(DataZone) >= REPORT_PREFIX_BYTES
    /\ status' = "decoding"
    /\ offset' = REPORT_PREFIX_BYTES
    /\ topBits' = BitsAt(REPORT_PREFIX_BYTES - 4, 4)
    /\ warnings' = LengthWarning
    /\ UNCHANGED <<frame, block, blockBits, field, todo, decoded, adas, scanAt, fences>>

\* A data zone too short for its fixed part: the exception parseFrame() catches.
FailDataZone ==
    /\ status = "framed"
    /\ HeaderFits
    /\ \/ frame.kind = "report" /\ Len(DataZone) < REPORT_PREFIX_BYTES
       \/ frame.kind = "heartbeat" /\ Len(DataZone) < 2
    /\ status' = "done"
    /\ warnings' = LengthWarning \cup {"failed"}
    /\ UNCHANGED <<frame, offset, topBits, block, blockBits, field, todo,
                   decoded, adas, scanAt, fences>>

\* A heartbeat is its protocol version; +LDP and +BMR are not decoded.
ParseOtherKind ==
    /\ status = "framed"
    /\ HeaderFits
    /\ \/ frame.kind = "heartbeat" /\ Len(DataZone) >= 2
       \/ frame.kind = "hex"
    /\ status' = "done"
    /\ warnings' = LengthWarning \cup (IF frame.kind = "hex" THEN {"unsupported"} ELSE {})
    /\ UNCHANGED <<frame, offset, topBits, block, blockBits, field, todo,
                   decoded, adas, scanAt, fences>>

\* parseAsciiDataZone(), of every other head token, known or not; then the
\* loop of parsePeoFenceList() over the fields.
StartAscii ==
    /\ status = "framed"
    /\ HeaderFits
    /\ frame.kind = "ascii"
    /\ status' = "scanning"
    /\ warnings' = LengthWarning
    /\ UNCHANGED <<frame, offset, topBits, block, blockBits, field, todo,
                   decoded, adas, scanAt, fences>>

\* The scan comes to a field that is not the word PEO: continue.
PassField ==
    /\ status = "scanning"
    /\ scanAt <= Len(frame.text)
    /\ frame.text[scanAt].word # "PEO"
    /\ scanAt' = scanAt + 1
    /\ UNCHANGED <<frame, status, offset, topBits, block, blockBits, field, todo,
                   decoded, adas, fences, warnings>>

\* It comes to a fence that parses.
TakeFence ==
    /\ status = "scanning"
    /\ scanAt <= Len(frame.text)
    /\ frame.text[scanAt].word = "PEO"
    /\ RecordIsGood(frame.text, scanAt)
    /\ fences' = Append(fences, FenceAt(frame.text, scanAt))
    /\ scanAt' = RecordEnd(frame.text, scanAt)
    /\ UNCHANGED <<frame, status, offset, topBits, block, blockBits, field, todo,
                   decoded, adas, warnings>>

\* It comes to one that does not: break, with a warning.
BreakScan ==
    /\ status = "scanning"
    /\ scanAt <= Len(frame.text)
    /\ frame.text[scanAt].word = "PEO"
    /\ ~ RecordIsGood(frame.text, scanAt)
    /\ status' = "done"
    /\ warnings' = warnings \cup {"peo"}
    /\ UNCHANGED <<frame, offset, topBits, block, blockBits, field, todo,
                   decoded, adas, scanAt, fences>>

FinishScan ==
    /\ status = "scanning"
    /\ scanAt > Len(frame.text)
    /\ status' = "done"
    /\ UNCHANGED <<frame, offset, topBits, block, blockBits, field, todo,
                   decoded, adas, scanAt, fences, warnings>>

BetweenFields == status = "decoding" /\ todo = <<>>

\* The innermost loop that still has bits comes to its lowest one.
AtBit(b) ==
    /\ BetweenFields
    /\ IF block = "report" THEN topBits # {} /\ b = Min(topBits)
                           ELSE blockBits # {} /\ b = Min(blockBits)

ConsumeBit(b) ==
    IF block = "report" THEN topBits' = topBits \ {b} /\ UNCHANGED blockBits
                        ELSE blockBits' = blockBits \ {b} /\ UNCHANGED topBits

\* Mutant: a reserved bit does not advance the loop.
SkipBitForever(b) ==
    /\ AtBit(b)
    /\ FieldReads(block, b) = <<>>
    /\ IF <<block, b>> \in Reserved
          THEN UNCHANGED <<topBits, blockBits, warnings>>
          ELSE ConsumeBit(b) /\ warnings' = warnings \cup {"unsupported"}
    /\ UNCHANGED <<frame, status, offset, block, field, todo, decoded, adas, scanAt, fences>>

\* A bit without payload, or one that is not decoded: the cursor stays put.
SkipBit(b) ==
    /\ AtBit(b)
    /\ FieldReads(block, b) = <<>>
    /\ ConsumeBit(b)
    /\ warnings' = IF <<block, b>> \in Reserved THEN warnings
                                                ELSE warnings \cup {"unsupported"}
    /\ UNCHANGED <<frame, status, offset, block, field, todo, decoded, adas, scanAt, fences>>

StartField(b) ==
    /\ AtBit(b)
    /\ FieldReads(block, b) # <<>>
    /\ ConsumeBit(b)
    /\ field' = [blk |-> block, bit |-> b, from |-> offset, to |-> offset]
    /\ todo' = FieldReads(block, b)
    /\ UNCHANGED <<frame, status, offset, block, decoded, adas, scanAt, fences, warnings>>

\* The field just read is complete; if it was the mask of a nested block,
\* the loop of that block begins.
CompleteField(to) ==
    /\ decoded' = decoded \cup {[field EXCEPT !.to = to]}
    /\ IF field.blk = "report" /\ field.bit \in DOMAIN NestedBlock
          THEN /\ block' = NestedBlock[field.bit]
               /\ blockBits' = BitsAt(offset, 4)
          ELSE UNCHANGED <<block, blockBits>>

\* One read of the cursor.
ReadOn ==
    /\ status = "decoding"
    /\ todo # <<>>
    /\ Head(todo).w <= Remaining
    /\ offset' = offset + Head(todo).w
    /\ todo' = Follow(Head(todo)) \o Tail(todo)
    /\ IF todo' = <<>> THEN CompleteField(offset')
                       ELSE UNCHANGED <<decoded, block, blockBits>>
    /\ UNCHANGED <<frame, status, topBits, field, adas, scanAt, fences, warnings>>

\* Mutant: the offset moves before the bounds check.
ReadFailsAdvanced ==
    /\ status = "decoding"
    /\ todo # <<>>
    /\ Head(todo).w > Remaining
    /\ todo' = <<>>
    /\ offset' = offset + Head(todo).w
    /\ IF block = "report" THEN topBits' = {} /\ UNCHANGED blockBits
                           ELSE blockBits' = {} /\ UNCHANGED topBits
    /\ warnings' = warnings \cup {"stopped"}
    /\ UNCHANGED <<frame, status, block, field, decoded, adas, scanAt, fences>>

\* Mutant: a nested block swallows the error without a warning.
ReadFailsSilently ==
    /\ status = "decoding"
    /\ todo # <<>>
    /\ Head(todo).w > Remaining
    /\ todo' = <<>>
    /\ IF block = "report"
          THEN topBits' = {} /\ warnings' = warnings \cup {"stopped"} /\ UNCHANGED blockBits
          ELSE blockBits' = {} /\ UNCHANGED <<topBits, warnings>>
    /\ UNCHANGED <<frame, status, offset, block, field, decoded, adas, scanAt, fences>>

\* ensure() throws: the loop that reads catches, warns and breaks.
ReadFails ==
    /\ status = "decoding"
    /\ todo # <<>>
    /\ Head(todo).w > Remaining
    /\ todo' = <<>>
    /\ IF block = "report" THEN topBits' = {} /\ UNCHANGED blockBits
                           ELSE blockBits' = {} /\ UNCHANGED topBits
    /\ warnings' = warnings \cup {"stopped"}
    /\ UNCHANGED <<frame, status, offset, block, field, decoded, adas, scanAt, fences>>

\* byteOf(): the first data byte of an AdvCAN PID, which is bit pid - 1
PidIs1(pid) ==
    \E f \in decoded : /\ f.blk = "advanced1" /\ f.bit = pid - 1
                       /\ f.to > f.from + 1 /\ DataZone[f.from + 2] = 1

HasPid1 == \E f \in decoded : f.blk = "advanced1" /\ f.bit = 0 /\ f.to > f.from + 1

AdasPid == [a \in AdasTypes |->
    CASE a = "PCW"  -> 3  [] a = "PEDESTRIAN_IN_DANGER_ZONE" -> 4  [] a = "FCW" -> 6
      [] a = "LWDL" -> 7  [] a = "LWDR" -> 8]

\* Mutant: PID 1 need not be there.
MobileyeAdasEventsWithoutPid1 == {a \in AdasTypes : PidIs1(AdasPid[a])}

MobileyeAdasEvents == {a \in AdasTypes : HasPid1 /\ PidIs1(AdasPid[a])}

\* The nested loop ends and its block is returned to the loop of the report.
LeaveBlock ==
    /\ BetweenFields
    /\ block # "report"
    /\ blockBits = {}
    /\ block' = "report"
    /\ adas' = IF block = "advanced1" THEN MobileyeAdasEvents ELSE adas
    /\ UNCHANGED <<frame, status, offset, topBits, blockBits, field, todo, decoded, scanAt, fences,
                   warnings>>

FinishReport ==
    /\ BetweenFields
    /\ block = "report"
    /\ topBits = {}
    /\ status' = "done"
    /\ UNCHANGED <<frame, offset, topBits, block, blockBits, field, todo,
                   decoded, adas, scanAt, fences, warnings>>

Next ==
    \/ RejectFrame
    \/ StartReport
    \/ FailDataZone
    \/ ParseOtherKind
    \/ StartAscii
    \/ PassField
    \/ TakeFence
    \/ BreakScan
    \/ FinishScan
    \/ \E b \in 0..31 : SkipBit(b) \/ StartField(b)
    \/ ReadOn
    \/ ReadFails
    \/ LeaveBlock
    \/ FinishReport

Spec == Init /\ [][Next]_vars

\* parseFrame() is synchronous: it runs on until it returns or throws.
FairSpec == Spec /\ WF_vars(Next)

----------------------------------------------------------------------------
(* Properties                                                              *)

\* Every variable has its type and the cursor stays in the data zone.
TypeOK ==
    /\ frame \in FrameType
    /\ status \in {"framed", "decoding", "scanning", "done", "thrown"}
    /\ offset \in 0..Len(DataZone)
    /\ topBits \subseteq 0..31 /\ blockBits \subseteq 0..31
    /\ block \in Blocks
    /\ field \in FieldType
    /\ todo \in Seq(ReadType)
    /\ decoded \subseteq FieldType
    /\ adas \subseteq AdasTypes
    /\ scanAt \in Nat
    /\ fences \in Seq(FenceType)
    /\ warnings \subseteq {"length", "failed", "unsupported", "stopped", "peo"}

\* A report that arrives whole and uses only fields the parser knows is
\* decoded field by field from exactly the bytes the device put them in, to
\* the last byte, with its ADAS warnings and without a warning of the parser.
WholeReportDecoded ==
    status = "done" /\ frame.kind = "report" /\ frame.whole /\ ~ frame.opaque
        => /\ decoded = frame.fields
           /\ adas = frame.adas
           /\ offset = Len(DataZone)
           /\ warnings = {}

\* A report cut short or holding unknown fields never passes for a good one:
\* when a field is missing, or was read from bytes the device did not put it
\* in, a warning of the decoding loops says so (not only the Length mismatch,
\* which some firmware shows on every frame).
NeverSilentlyWrong ==
    status = "done" /\ frame.kind = "report" /\ decoded # frame.fields
        => warnings \cap {"failed", "unsupported", "stopped"} # {}

\* The fence list of an ASCII frame that arrives whole is decoded fence by
\* fence, with the right points, past fences without any and past other fields.
WholeFenceListDecoded ==
    status = "done" /\ frame.kind = "ascii" /\ frame.whole
        => fences = frame.fences /\ warnings = {}

\* The record of the fence is the end of the text.
EndsText(fence) ==
    \E s \in 1..Len(frame.text) :
        frame.text[s].word = "PEO" /\ RecordLast(s, fence) = Len(frame.text)

\* Bound: a number has at most so many digits.
MAX_DIGITS == 9

\* What Number() makes of the first digits of m, of none too.
FirstDigits(n, m) == n = m \/ n = 0 \/ \E k \in 1..MAX_DIGITS : n = m \div 10 ^ k

\* The fence, of whose last number only the first digits may be there.
CutInLast(x, fence) ==
    /\ [x EXCEPT !.tail[4] = fence.tail[4]] = fence
    /\ FirstDigits(x.tail[4], fence.tail[4])

\* Of a list that was cut anywhere or has a damaged field, every fence is one
\* the device sent, in its order.  The only exception is a fence that ends the
\* text and was cut within its last number: that number may be the first
\* digits of what was sent, or 0.  A fence that is there and not decoded
\* leaves a warning.
FencesAreTheDevices ==
    status = "done" /\ frame.kind = "ascii"
        => /\ \E at \in [1..Len(fences) -> 1..Len(frame.fences)] :
                \A i \in 1..Len(fences) :
                    /\ i > 1 => at[i - 1] < at[i]
                    /\ \/ fences[i] = frame.fences[at[i]]
                       \/ /\ i = Len(fences) /\ EndsText(fences[i])
                          /\ CutInLast(fences[i], frame.fences[at[i]])
           /\ Len(fences) < Cardinality({k \in DOMAIN frame.text : frame.text[k].word = "PEO"})
                => "peo" \in warnings

\* "Fence 16 was cut short by the truncated frame, so it's dropped rather than
\* reported with fabricated/incomplete data" (tracker-parser.service.spec.ts):
\* every fence reported, of a truncated frame too, is one the device sent.
CutFenceIsDropped ==
    status = "done" /\ frame.kind = "ascii"
        => \A i \in DOMAIN fences : \E k \in DOMAIN frame.fences : fences[i] = frame.fences[k]

\* parseFrame() ends on every frame, whatever counts and lengths it reads.
ParseEnds == <>(status \in {"done", "thrown"})

\* "Once a read fails we can no longer trust field boundaries for subsequent
\* bits, so stop rather than guess" (parseReportDataZone): of a report that
\* uses known fields only, no field is taken from other bytes than its own.
NothingGuessed == ~ frame.opaque => decoded \subseteq frame.fields
============================================================================
