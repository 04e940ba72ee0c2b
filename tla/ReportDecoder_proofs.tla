------------------------ MODULE ReportDecoder_proofs ------------------------
(***************************************************************************)
(* Proofs about ReportDecoder, for every set of frames: its types, and     *)
(* that a report a device can send is decoded into what was sent, wherever *)
(* it is cut.                                                              *)
(***************************************************************************)
EXTENDS DeviceFrames, SequenceTheorems, WellFoundedInduction, TLAPS

----------------------------------------------------------------------------
(* The types of the reads.                                                 *)

LEMMA ReadType1 ==
  /\ \A w \in Nat : Read(w) \in PlainRead
  /\ LengthPrefixed \in PlainRead
  /\ GnssInfoMask \in GnssRead
  BY DEF Read, LengthPrefixed, GnssInfoMask, PlainRead, GnssRead

LEMMA ReadsType ==
  ASSUME NEW widths \in Seq(Nat)
  PROVE  Reads(widths) \in Seq(PlainRead)
<1>1. \A i \in 1..Len(widths) : Read(widths[i]) \in PlainRead
  BY ReadType1
<1> QED BY <1>1 DEF Reads

LEMMA FlagsType ==
  ASSUME NEW options \in Seq([bit : 0..31, read : PlainRead])
  PROVE  FlagsFor(options) \in FlagsRead
  BY DEF FlagsFor, FlagsRead

LEMMA CountType ==
  ASSUME NEW reads \in Seq(PlainRead \cup FlagsRead)
  PROVE  CountOf(reads) \in RepeatRead
  BY DEF CountOf, RepeatRead

LEMMA WhenType ==
  ASSUME NEW b \in 0..31, NEW S, NEW r \in S
  PROVE  When(b, r) \in [bit : 0..31, read : S]
  BY DEF When

\* A sequence of chosen options is as long as the options and typed like them.
LEMMA ChosenType ==
  ASSUME NEW S, PlainRead \subseteq S, NEW options \in Seq([bit : 0..31, read : S]), NEW bits
  PROVE  Chosen(options, bits) \in Seq(S) /\ Len(Chosen(options, bits)) = Len(options)
<1>1. Read(0) \in S
  BY ReadType1
<1> DEFINE T == [bit : 0..31, read : S]
<1>2. \A o \in T : o.read \in S
  OBVIOUS
<1> HIDE DEF T
<1>3. options \in Seq(T)
  BY DEF T
<1>4. \A i \in 1..Len(options) : options[i].read \in S
  BY <1>2, <1>3
<1> QED BY <1>1, <1>3, <1>4 DEF Chosen

LEMMA SatellitesType == Satellites \in FlagsRead
<1> DEFINE T == [bit : 0..31, read : PlainRead]
<1>1. \A b \in 0..3 : When(b, Read(1)) \in T
  BY ReadType1, WhenType
<1>2. <<When(0, Read(1)), When(1, Read(1)), When(2, Read(1)), When(3, Read(1))>> \in Seq(T)
  BY <1>1
<1> QED BY <1>2, FlagsType DEF Satellites

LEMMA FixReadsType ==
  ASSUME NEW infoMask
  PROVE  FixReads(infoMask) \in Seq(PlainRead \cup FlagsRead) /\ Len(FixReads(infoMask)) = 9
<1> DEFINE S == PlainRead \cup FlagsRead
           T == [bit : 0..31, read : S]
           O == <<When(0, Read(1)), When(1, Read(1)), When(2, Read(2)), When(3, Read(2)),
                  When(4, Read(2)), When(5, Read(4)), When(6, Read(4)), When(7, Read(7)),
                  When(8, Satellites)>>
<1>1. \A b \in 0..31, w \in Nat : When(b, Read(w)) \in T
  BY ReadType1, WhenType
<1>2. When(8, Satellites) \in T
  BY SatellitesType, WhenType
<1>3. O \in Seq(T) /\ Len(O) = 9
  BY <1>1, <1>2
<1>4. PlainRead \subseteq S
  OBVIOUS
<1> HIDE DEF S, T, O
<1>5. Chosen(O, infoMask) \in Seq(S) /\ Len(Chosen(O, infoMask)) = 9
  BY <1>3, <1>4, ChosenType DEF T
<1> QED BY <1>5 DEF FixReads, O, S

LEMMA OneWireType == OneWireSensor \in Seq(PlainRead \cup FlagsRead) /\ Len(OneWireSensor) = 2
<1> DEFINE T == [bit : 0..31, read : PlainRead]
<1>1. When(0, Read(2)) \in T /\ When(1, Read(1)) \in T
  BY ReadType1, WhenType
<1> HIDE DEF T
<1>4. <<When(0, Read(2)), When(1, Read(1))>> \in Seq(T)
  BY <1>1
<1>2. FlagsFor(<<When(0, Read(2)), When(1, Read(1))>>) \in FlagsRead
  BY <1>4, FlagsType DEF T
<1>3. Read(8) \in PlainRead
  BY ReadType1
<1> QED BY <1>2, <1>3 DEF OneWireSensor

\* The lists of widths that occur.
Widths ==
    { <<1>>, <<2>>, <<3>>, <<4>>, <<1, 1>>, <<1, 2>>, <<2, 1>>, <<2, 2>>, <<2, 4>>, <<3, 5>>,
      <<1, 1, 1>>, <<1, 2, 3, 1>>, <<2, 2, 2, 4, 1>>, <<1, 1, 2, 2, 2>>,
      <<1, 1, 1, 1, 1, 1, 1, 1, 1>> }

LEMMA WidthsType ==
  ASSUME NEW widths \in Widths
  PROVE  Reads(widths) \in Seq(PlainRead) /\ Reads(widths) \in Seq(ReadType)
<1>a. /\ <<1>> \in Seq(Nat) /\ <<2>> \in Seq(Nat) /\ <<3>> \in Seq(Nat) /\ <<4>> \in Seq(Nat)
      /\ <<1, 1>> \in Seq(Nat) /\ <<1, 2>> \in Seq(Nat) /\ <<2, 1>> \in Seq(Nat)
      /\ <<2, 2>> \in Seq(Nat) /\ <<2, 4>> \in Seq(Nat) /\ <<3, 5>> \in Seq(Nat)
  OBVIOUS
<1>b. /\ <<1, 1, 1>> \in Seq(Nat) /\ <<1, 2, 3, 1>> \in Seq(Nat)
      /\ <<2, 2, 2, 4, 1>> \in Seq(Nat) /\ <<1, 1, 2, 2, 2>> \in Seq(Nat)
      /\ <<1, 1, 1, 1, 1, 1, 1, 1, 1>> \in Seq(Nat)
  OBVIOUS
<1>1. widths \in Seq(Nat)
  BY <1>a, <1>b, Zenon DEF Widths
<1>2. Reads(widths) \in Seq(PlainRead)
  BY <1>1, ReadsType
<1>3. Seq(PlainRead) \subseteq Seq(ReadType)
  BY DEF ReadType
<1> QED BY <1>2, <1>3

LEMMA OneReadType ==
  /\ <<LengthPrefixed>> \in Seq(ReadType)
  /\ <<GnssInfoMask>> \in Seq(ReadType)
  /\ \A reads \in Seq(PlainRead) \cup Seq(PlainRead \cup FlagsRead) :
        <<CountOf(reads)>> \in Seq(ReadType)
<1>1. LengthPrefixed \in ReadType /\ GnssInfoMask \in ReadType
  BY ReadType1 DEF ReadType
<1>2. Seq(PlainRead) \subseteq Seq(PlainRead \cup FlagsRead)
  OBVIOUS
<1>3. \A reads \in Seq(PlainRead \cup FlagsRead) : CountOf(reads) \in ReadType
  BY CountType DEF ReadType
<1> QED BY <1>1, <1>2, <1>3

\* What each bit stands for is a sequence of reads.
LEMMA ReportReadsType == ASSUME NEW b PROVE ReportReads(b) \in Seq(ReadType)
<1>1. \A w \in Widths : Reads(w) \in Seq(ReadType)
  BY WidthsType
<1>2. {<<1, 1>>, <<1>>, <<2, 1>>, <<2, 2, 2, 4, 1>>, <<1, 2>>, <<4>>} \subseteq Widths
  BY DEF Widths
<1>3. <<>> \in Seq(ReadType)
  OBVIOUS
<1> QED BY <1>1, <1>2, <1>3, OneReadType DEF ReportReads

LEMMA EventDataReadsType == ASSUME NEW b PROVE EventDataReads(b) \in Seq(ReadType)
<1>1. \A w \in Widths : Reads(w) \in Seq(ReadType)
  BY WidthsType
<1>2. {<<2>>, <<1, 2>>, <<1>>, <<2, 4>>, <<3, 5>>, <<1, 1, 1, 1, 1, 1, 1, 1, 1>>,
       <<1, 1, 2, 2, 2>>, <<1, 1, 1>>, <<4>>} \subseteq Widths
  BY DEF Widths
<1>3. <<>> \in Seq(ReadType)
  OBVIOUS
<1>4. <<CountOf(OneWireSensor)>> \in Seq(ReadType)
  BY OneWireType, OneReadType
<1> QED BY <1>1, <1>2, <1>3, <1>4, OneReadType DEF EventDataReads

LEMMA CanInfoMask1ReadsType == ASSUME NEW b PROVE CanInfoMask1Reads(b) \in Seq(ReadType)
<1>1. \A w \in Widths : Reads(w) \in Seq(ReadType)
  BY WidthsType
<1>2. {<<1>>, <<2>>, <<3>>, <<4>>, <<2, 2>>, <<1, 1>>} \subseteq Widths
  BY DEF Widths
<1>3. <<>> \in Seq(ReadType)
  OBVIOUS
<1> QED BY <1>1, <1>2, <1>3, OneReadType DEF CanInfoMask1Reads

LEMMA CanInfoMask2ReadsType == ASSUME NEW b PROVE CanInfoMask2Reads(b) \in Seq(ReadType)
<1>1. \A w \in Widths : Reads(w) \in Seq(ReadType) /\ Reads(w) \in Seq(PlainRead)
  BY WidthsType
<1>2. {<<1>>, <<2>>, <<3>>, <<4>>, <<1, 1>>, <<1, 2, 3, 1>>} \subseteq Widths
  BY DEF Widths
<1>3. <<>> \in Seq(ReadType)
  OBVIOUS
<1>4. <<CountOf(Reads(<<3>>))>> \in Seq(ReadType) /\ <<CountOf(Reads(<<1, 2, 3, 1>>))>> \in Seq(ReadType)
  BY <1>1, <1>2, OneReadType
<1> QED BY <1>1, <1>2, <1>3, <1>4, OneReadType DEF CanInfoMask2Reads

LEMMA FieldReadsType ==
  ASSUME NEW blk \in Blocks, NEW b
  PROVE  FieldReads(blk, b) \in Seq(ReadType)
<1>1. \A w \in Widths : Reads(w) \in Seq(ReadType)
  BY WidthsType
<1>2. {<<1>>, <<2>>, <<4>>} \subseteq Widths
  BY DEF Widths
<1>3. <<>> \in Seq(ReadType)
  OBVIOUS
<1>4. ElectricInfoMask1Reads(b) \in Seq(ReadType)
  BY <1>1, <1>2, <1>3 DEF ElectricInfoMask1Reads
<1>5. CanInfoMask3Reads(b) \in Seq(ReadType)
  BY <1>1, <1>2, <1>3 DEF CanInfoMask3Reads
<1> QED BY <1>4, <1>5, OneReadType, ReportReadsType, EventDataReadsType, CanInfoMask1ReadsType,
           CanInfoMask2ReadsType DEF FieldReads, Blocks

\* The reads of a repeated record, found by their number.
LEMMA RecordsType ==
  ASSUME NEW S, NEW reads \in Seq(S), NEW count \in Nat
  PROVE  Records(count, reads) \in Seq(S)
<1> DEFINE n == Len(reads)
<1>1. n \in Nat
  OBVIOUS
<1>2. CASE n = 0
  <2>1. count * n = 0
    BY <1>1, <1>2
  <2> QED BY <2>1 DEF Records
<1>3. CASE n > 0
  <2>1. \A i \in Nat : (i % n) + 1 \in 1..n
    BY <1>1, <1>3
  <2>2. \A i \in 1..(count * n) : reads[((i - 1) % n) + 1] \in S
    BY <2>1
  <2>3. count * n \in Nat
    BY <1>1
  <2> QED BY <2>2, <2>3 DEF Records
<1> QED BY <1>1, <1>2, <1>3
----------------------------------------------------------------------------
(* Type correctness.                                                       *)

LEMMA ZoneType ==
  ASSUME NEW f \in FrameType
  PROVE  DataZoneOf(f) \in Seq(0..255)
<1>1. f.body \in Seq(0..255)
  BY DEF FrameType
<1> DEFINE n == Len(f.body) - 9
<1>2. n \in Int /\ n <= Len(f.body)
  BY <1>1
<1>4. ASSUME NEW i \in 12..n PROVE f.body[i] \in 0..255
  <2>1. i \in 1..Len(f.body)
    BY <1>1, <1>2
  <2> QED BY <1>1, <2>1, ElementOfSeq
<1>3. SubSeq(f.body, 12, n) \in Seq(0..255)
  BY <1>2, <1>4, SubSeqProperties
<1> QED BY <1>3 DEF DataZoneOf, HEADER_PREFIX_BYTES, TRAILER_BYTES

LEMMA BitsType ==
  ASSUME NEW zone, NEW at
  PROVE  BitsIn(zone, at, 1) \subseteq 0..31 /\ BitsIn(zone, at, 2) \subseteq 0..31
         /\ BitsIn(zone, at, 4) \subseteq 0..31
  BY DEF BitsIn

\* The values a value asks for are reads.
LEMMA FollowType ==
  ASSUME NEW r \in ReadType, DataZone \in Seq(0..255), offset \in Nat, offset + r.w <= Len(DataZone)
  PROVE  Follow(r) \in Seq(ReadType)
<1>7. r.w \in Nat
  BY DEF ReadType, PlainRead, FlagsRead, RepeatRead, GnssRead
<1>8. r.w > 0 => offset + 1 \in 1..Len(DataZone)
  BY <1>7
<1>0. r.w > 0 => DataZone[offset + 1] \in 0..255
  BY <1>8, ElementOfSeq
<1>9. ASSUME r.w > 0 PROVE DataZone[offset + 1] \in Nat
  <2>1. DataZone[offset + 1] \in 0..255
    BY <1>0, <1>9
  <2>2. \A v \in 0..255 : v \in Nat
    OBVIOUS
  <2> QED BY <2>1, <2>2, Zenon
<1>1. CASE r.then = "nothing"
  BY <1>1 DEF Follow
<1>2. CASE r.then = "bytes"
  <2>1. r.w = 1
    BY <1>2 DEF ReadType, PlainRead, FlagsRead, RepeatRead, GnssRead
  <2>3. DataZone[offset + 1] \in Nat
    BY <1>9, <2>1
  <2>2. Read(DataZone[offset + 1]) \in ReadType
    BY <2>3, ReadType1 DEF ReadType
  <2> QED BY <1>2, <2>2 DEF Follow
<1>3. CASE r.then = "repeat"
  <2>1. r \in RepeatRead
    BY <1>3 DEF ReadType, PlainRead, FlagsRead, RepeatRead, GnssRead
  <2>2. r.w = 1 /\ r.body \in Seq(PlainRead \cup FlagsRead)
    BY <2>1 DEF RepeatRead
  <2>5. DataZone[offset + 1] \in Nat
    BY <1>9, <2>2
  <2>3. Records(DataZone[offset + 1], r.body) \in Seq(PlainRead \cup FlagsRead)
    BY <2>5, <2>2, RecordsType
  <2>4. Seq(PlainRead \cup FlagsRead) \subseteq Seq(ReadType)
    BY DEF ReadType
  <2> QED BY <1>3, <2>3, <2>4 DEF Follow
<1>4. CASE r.then = "flags"
  <2>1. r \in FlagsRead
    BY <1>4 DEF ReadType, PlainRead, FlagsRead, RepeatRead, GnssRead
  <2>2. r.body \in Seq([bit : 0..31, read : PlainRead])
    BY <2>1 DEF FlagsRead
  <2>3. Chosen(r.body, BitsAt(offset, 1)) \in Seq(PlainRead)
    BY <2>2, ChosenType
  <2>4. Seq(PlainRead) \subseteq Seq(ReadType)
    BY DEF ReadType
  <2> QED BY <1>4, <2>3, <2>4 DEF Follow
<1>5. CASE r.then = "gnss"
  <2>1. FixReads(BitsAt(offset, 2)) \in Seq(PlainRead \cup FlagsRead)
    BY FixReadsType
  <2>2. <<CountOf(FixReads(BitsAt(offset, 2)))>> \in Seq(ReadType)
    BY <2>1, OneReadType
  <2> QED BY <1>5, <2>2 DEF Follow
<1>6. r.then \in {"nothing", "bytes", "repeat", "flags", "gnss"}
  BY DEF ReadType, PlainRead, FlagsRead, RepeatRead, GnssRead
<1> QED BY <1>1, <1>2, <1>3, <1>4, <1>5, <1>6

\* A fence is made of sequences of numbers.
LEMMA NumType ==
  ASSUME NEW text \in Seq(Token), NEW i \in Nat \ {0}
  PROVE  Num(text, i) \in Nat
<1>1. CASE i <= Len(text)
  <2>1. text[i] \in Token
    BY <1>1
  <2>2. text[i].value \in Nat
    BY <2>1 DEF Token
  <2> QED BY <2>2 DEF Num
<1>2. CASE ~ (i <= Len(text))
  BY <1>2 DEF Num, Finite
<1> QED BY <1>1, <1>2

LEMMA NumsType ==
  ASSUME NEW text \in Seq(Token), NEW i \in Nat \ {0}, NEW n \in Nat
  PROVE  Nums(text, i, n) \in Seq(Nat)
<1>1. \A k \in 1..n : Num(text, i + k - 1) \in Nat
  BY NumType
<1> QED BY <1>1 DEF Nums

LEMMA FenceAtType ==
  ASSUME NEW text \in Seq(Token), NEW i \in Nat \ {0}, HeadIsGood(text, i)
  PROVE  /\ PointCount(text, i) \in Nat
         /\ FenceAt(text, i) \in FenceType
         /\ RecordEnd(text, i) \in Nat /\ RecordEnd(text, i) > i
<1>1. PointCount(text, i) \in Nat
  <2>1. Num(text, i + 4) \in Nat /\ Num(text, i + 3) \in Nat
    BY NumType
  <2> QED BY <2>1 DEF HeadIsGood, PointCount
<1>2. TailStart(text, i) \in Nat \ {0}
  BY <1>1 DEF TailStart
<1>3. Nums(text, i + 1, 4) \in Seq(Nat) /\ Nums(text, TailStart(text, i), 4) \in Seq(Nat)
  <2>1. i + 1 \in Nat \ {0} /\ 4 \in Nat
    OBVIOUS
  <2> QED BY <2>1, <1>2, NumsType
<1>4. ASSUME NEW p \in 1..PointCount(text, i) PROVE Nums(text, i + 3 + 2 * p, 2) \in Seq(Nat)
  <2>1. i + 3 + 2 * p \in Nat \ {0} /\ 2 \in Nat
    BY <1>1
  <2> QED BY <2>1, NumsType
<1>5. [p \in 1..PointCount(text, i) |-> Nums(text, i + 3 + 2 * p, 2)] \in Seq(Seq(Nat))
  <2> DEFINE S == Seq(Nat)
  <2>1. \A p \in 1..PointCount(text, i) : Nums(text, i + 3 + 2 * p, 2) \in S
    BY <1>4
  <2> HIDE DEF S
  <2>2. [p \in 1..PointCount(text, i) |-> Nums(text, i + 3 + 2 * p, 2)] \in Seq(S)
    BY <1>1, <2>1
  <2> QED BY <2>2 DEF S
<1>6. FenceAt(text, i) \in FenceType
  BY <1>3, <1>5 DEF FenceAt, FenceType
<1>7. RecordEnd(text, i) \in Nat /\ RecordEnd(text, i) > i
  BY <1>1 DEF RecordEnd, TailStart
<1> QED BY <1>1, <1>6, <1>7

\* The scan starts at the first field.
ScanStarts == scanAt > 0

LEMMA InitType == Init => TypeOK /\ ScanStarts
<1> SUFFICES ASSUME Init PROVE TypeOK /\ ScanStarts
  OBVIOUS
<1>1. frame \in FrameType
  BY FramesAssumption DEF Init
<1>2. Len(DataZone) \in Nat
  BY <1>1, ZoneType DEF DataZone
<1>3. field \in FieldType
  BY DEF Init, NoField, FieldType, Blocks
<1> QED BY <1>1, <1>2, <1>3 DEF Init, TypeOK, Blocks, ScanStarts

LEMMA StepType == TypeOK /\ ScanStarts /\ [Next]_vars => (TypeOK /\ ScanStarts)'
<1> SUFFICES ASSUME TypeOK, ScanStarts, [Next]_vars PROVE (TypeOK /\ ScanStarts)'
  OBVIOUS
<1> DEFINE L == Len(DataZone)
<1>a. frame \in FrameType /\ DataZone \in Seq(0..255) /\ L \in Nat
  BY ZoneType DEF TypeOK, DataZone
<1>b. UNCHANGED frame => UNCHANGED DataZone
  BY DEF DataZone
<1>c. LengthWarning \subseteq {"length"}
  BY DEF LengthWarning
<1>1. CASE RejectFrame
  BY <1>1, <1>b DEF RejectFrame, TypeOK, ScanStarts
<1>2. CASE StartReport
  <2>1. BitsAt(REPORT_PREFIX_BYTES - 4, 4) \subseteq 0..31
    BY BitsType DEF BitsAt
  <2> QED BY <1>2, <1>a, <1>b, <1>c, <2>1 DEF StartReport, TypeOK, ScanStarts, REPORT_PREFIX_BYTES
<1>3. CASE FailDataZone
  BY <1>3, <1>b, <1>c DEF FailDataZone, TypeOK, ScanStarts
<1>4. CASE ParseOtherKind
  BY <1>4, <1>b, <1>c DEF ParseOtherKind, TypeOK, ScanStarts
<1>5. CASE StartAscii
  BY <1>5, <1>b, <1>c DEF StartAscii, TypeOK, ScanStarts
<1>6. CASE PassField
  BY <1>6, <1>b DEF PassField, TypeOK, ScanStarts
<1>7. CASE TakeFence
  <2>1. frame.text \in Seq(Token)
    BY <1>a DEF FrameType
  <2>2. /\ FenceAt(frame.text, scanAt) \in FenceType
        /\ RecordEnd(frame.text, scanAt) \in Nat /\ RecordEnd(frame.text, scanAt) > scanAt
    BY <1>7, <2>1, FenceAtType DEF TakeFence, RecordIsGood, TypeOK, ScanStarts
  <2> QED BY <1>7, <1>b, <2>2 DEF TakeFence, TypeOK, ScanStarts
<1>8. CASE BreakScan
  BY <1>8, <1>b DEF BreakScan, TypeOK, ScanStarts
<1>9. CASE FinishScan
  BY <1>9, <1>b DEF FinishScan, TypeOK, ScanStarts
<1>10. ASSUME NEW b \in 0..31, SkipBit(b) PROVE (TypeOK /\ ScanStarts)'
  BY <1>10, <1>b DEF SkipBit, ConsumeBit, TypeOK, ScanStarts
<1>11. ASSUME NEW b \in 0..31, StartField(b) PROVE (TypeOK /\ ScanStarts)'
  <2>1. FieldReads(block, b) \in Seq(ReadType)
    BY FieldReadsType DEF TypeOK
  <2>2. [blk |-> block, bit |-> b, from |-> offset, to |-> offset] \in FieldType
    BY <1>a DEF TypeOK, FieldType
  <2> QED BY <1>11, <1>b, <2>1, <2>2 DEF StartField, ConsumeBit, TypeOK, ScanStarts
<1>12. CASE ReadOn
  <2> DEFINE r == Head(todo)
  <2>1. r \in ReadType /\ Tail(todo) \in Seq(ReadType)
    BY <1>12 DEF ReadOn, TypeOK
  <2>2. r.w \in Nat
    BY <2>1 DEF ReadType, PlainRead, FlagsRead, RepeatRead, GnssRead
  <2>3. offset + r.w <= L /\ offset \in Nat
    BY <1>12, <1>a, <2>2 DEF ReadOn, Remaining, TypeOK
  <2>4. Follow(r) \o Tail(todo) \in Seq(ReadType)
    BY <1>a, <2>1, <2>3, FollowType
  <2>5. offset' \in 0..L
    BY <1>12, <1>a, <2>2, <2>3 DEF ReadOn
  <2>8. offset' \in Nat
    BY <2>5, <1>a
  <2>9. [field EXCEPT !.to = offset'] \in FieldType
    BY <2>8 DEF TypeOK, FieldType
  <2>6. decoded' \subseteq FieldType
    BY <1>12, <2>9 DEF ReadOn, CompleteField, TypeOK
  <2>7. block' \in Blocks /\ blockBits' \subseteq 0..31
    BY <1>12, BitsType DEF ReadOn, CompleteField, TypeOK, NestedBlock, Blocks, BitsAt
  <2> QED BY <1>12, <1>b, <2>4, <2>5, <2>6, <2>7 DEF ReadOn, TypeOK, ScanStarts
<1>13. CASE ReadFails
  <2>1. <<>> \in Seq(ReadType)
    OBVIOUS
  <2>2. topBits' \subseteq 0..31 /\ blockBits' \subseteq 0..31
    BY <1>13 DEF ReadFails, TypeOK
  <2> QED BY <1>13, <1>b, <2>1, <2>2 DEF ReadFails, TypeOK, ScanStarts
<1>14. CASE LeaveBlock
  BY <1>14, <1>b DEF LeaveBlock, MobileyeAdasEvents, TypeOK, ScanStarts, Blocks
<1>15. CASE FinishReport
  BY <1>15, <1>b DEF FinishReport, TypeOK, ScanStarts
<1>16. CASE UNCHANGED vars
  BY <1>16, <1>b DEF vars, TypeOK, ScanStarts
<1> QED BY <1>1, <1>2, <1>3, <1>4, <1>5, <1>6, <1>7, <1>8, <1>9, <1>10, <1>11, <1>12, <1>13,
           <1>14, <1>15, <1>16 DEF Next

\* Whatever bytes and fields arrive, the cursor stays in the data zone, what
\* is still to be read are reads, and the fences found are fences.
THEOREM TypeInvariance == Spec => [](TypeOK /\ ScanStarts)
  BY InitType, StepType, PTL DEF Spec

THEOREM TypeCorrect == Spec => []TypeOK
  BY TypeInvariance, PTL

(***************************************************************************)
(* The fields of a report.  A field carries no tag, so all rests on        *)
(* alignment: as long as nothing has failed, the cursor is where the       *)
(* device began the next field, and inside a field at one of its marks.    *)
(***************************************************************************)

----------------------------------------------------------------------------
(* The order of the fields.                                                *)

\* Place(), of a bit that need not have a field.
Slot(blk, b) == IF blk = "report" THEN 33 * b ELSE 33 * MaskBit(blk) + b + 1

LEMMA MaskBits ==
  /\ \A blk \in Blocks \ {"report"} : /\ MaskBit(blk) \in DOMAIN NestedBlock
                                      /\ NestedBlock[MaskBit(blk)] = blk
  /\ \A b \in DOMAIN NestedBlock : /\ NestedBlock[b] \in Blocks \ {"report"}
                                   /\ MaskBit(NestedBlock[b]) = b
  /\ DOMAIN NestedBlock \subseteq 0..31
  BY DEF MaskBit, NestedBlock, Blocks

LEMMA SlotType ==
  ASSUME NEW blk \in Blocks, NEW b \in 0..31
  PROVE  Slot(blk, b) \in Nat
<1>1. blk # "report" => MaskBit(blk) \in 0..31
  BY MaskBits
<1> QED BY <1>1 DEF Slot

LEMMA PlaceIsSlot ==
  ASSUME NEW g \in FieldType
  PROVE  Place(g) = Slot(g.blk, g.bit) /\ Place(g) \in Nat
<1>1. g.blk \in Blocks /\ g.bit \in 0..31
  BY DEF FieldType
<1> QED BY <1>1, SlotType DEF Place, Slot

LEMMA SlotUnique ==
  ASSUME NEW x \in Blocks, NEW y \in Blocks, NEW b \in 0..31, NEW c \in 0..31,
         Slot(x, b) = Slot(y, c)
  PROVE  x = y /\ b = c
<1>1. /\ x # "report" => MaskBit(x) \in 0..31
      /\ y # "report" => MaskBit(y) \in 0..31
      /\ x # "report" /\ y # "report" /\ MaskBit(x) = MaskBit(y) => x = y
  BY MaskBits
<1>2. \A m, n \in 0..31 : /\ 33 * m + b + 1 = 33 * n + c + 1 => m = n /\ b = c
                          /\ 33 * m + b + 1 # 33 * c /\ 33 * b # 33 * n + c + 1
  OBVIOUS
<1>3. CASE x = "report" /\ y = "report"
  BY <1>3 DEF Slot
<1>4. CASE x = "report" /\ y # "report"
  <2>1. 33 * b = 33 * MaskBit(y) + c + 1
    BY <1>4 DEF Slot
  <2> QED BY <1>1, <1>2, <1>4, <2>1
<1>5. CASE x # "report" /\ y = "report"
  <2>1. 33 * MaskBit(x) + b + 1 = 33 * c
    BY <1>5 DEF Slot
  <2> QED BY <1>1, <1>2, <1>5, <2>1
<1>6. CASE x # "report" /\ y # "report"
  <2>1. 33 * MaskBit(x) + b + 1 = 33 * MaskBit(y) + c + 1
    BY <1>6 DEF Slot
  <2> QED BY <1>1, <1>2, <1>6, <2>1
<1> QED BY <1>3, <1>4, <1>5, <1>6

\* The places of a block are in the order of its bits, after that of its mask
\* and before that of the next bit of the report.
LEMMA SlotOrder ==
  ASSUME NEW x \in Blocks, NEW b \in 0..31, NEW c \in 0..31
  PROVE  /\ b <= c <=> Slot(x, b) <= Slot(x, c)
         /\ x = "report" => Slot(x, b) = 33 * b
         /\ x # "report" => /\ MaskBit(x) \in 0..31
                            /\ Slot(x, b) \in (33 * MaskBit(x) + 1)..(33 * MaskBit(x) + 32)
<1>1. CASE x = "report"
  BY <1>1 DEF Slot
<1>2. CASE x # "report"
  <2> DEFINE m == MaskBit(x)
  <2>1. m \in 0..31
    BY <1>2, MaskBits
  <2>2. Slot(x, b) = 33 * m + b + 1 /\ Slot(x, c) = 33 * m + c + 1
    BY <1>2 DEF Slot
  <2> HIDE DEF m
  <2>3. Slot(x, b) \in (33 * m + 1)..(33 * m + 32) /\ (b <= c <=> Slot(x, b) <= Slot(x, c))
    BY <2>1, <2>2
  <2> QED BY <1>2, <2>1, <2>3 DEF m
<1> QED BY <1>1, <1>2

LEMMA BlockOrder ==
  ASSUME NEW x \in Blocks, NEW y \in Blocks, x # y, NEW b \in 0..31, NEW c \in 0..31, NEW s \in Int
  PROVE  /\ x = "report" /\ b <= MaskBit(y) => Slot(y, c) >= Slot(x, b)
         /\ x # "report" /\ s \in (33 * MaskBit(x))..(33 * MaskBit(x) + 32) /\ Slot(y, c) > s
              => Slot(y, c) >= Slot(x, b)
<1> DEFINE m == MaskBit(x)
           n == MaskBit(y)
           i == Slot(x, b)
           j == Slot(y, c)
<1>1. /\ x # "report" => m \in 0..31 /\ i = 33 * m + b + 1
      /\ y # "report" => n \in 0..31 /\ j = 33 * n + c + 1
      /\ x # "report" /\ y # "report" => m # n
      /\ x = "report" => i = 33 * b
      /\ y = "report" => j = 33 * c
  BY MaskBits DEF Slot
<1> SUFFICES /\ x = "report" /\ b <= n => j >= i
             /\ x # "report" /\ s \in (33 * m)..(33 * m + 32) /\ j > s => j >= i
  OBVIOUS
<1> HIDE DEF m, n, i, j
<1>2. CASE x = "report"
  BY <1>1, <1>2
<1>3. CASE x # "report"
  <2> SUFFICES ASSUME s \in (33 * m)..(33 * m + 32), j > s PROVE j >= i
    BY <1>3
  <2>1. CASE y = "report"
    BY <1>1, <1>3, <2>1
  <2>2. CASE y # "report"
    <3>1. n >= m
      BY <1>1, <1>3, <2>2
    <3>2. n > m
      BY <1>1, <1>3, <2>2, <3>1
    <3> QED BY <1>1, <1>3, <2>2, <3>2
  <2> QED BY <2>1, <2>2
<1> QED BY <1>2, <1>3

\* No two fields of a report have the same place.
LEMMA PlaceUnique ==
  ASSUME NEW F \in SUBSET FieldType, NEW zone, InMasks(zone, F),
         NEW g \in F, NEW h \in F, Place(g) = Place(h)
  PROVE  g = h
<1>1. g.blk = h.blk /\ g.bit = h.bit
  BY PlaceIsSlot, SlotUnique DEF FieldType
<1> QED BY <1>1 DEF InMasks

----------------------------------------------------------------------------
(* The bytes that arrived are the ones sent.                               *)

LEMMA SameByte ==
  ASSUME NEW sent \in Seq(0..255), NEW zone, zone = SubSeq(sent, 1, Len(zone)),
         Len(zone) \in Nat, Len(zone) <= Len(sent), NEW i \in 1..Len(zone)
  PROVE  zone[i] = sent[i]
<1> DEFINE n == Len(zone)
<1>1. n \in 0..Len(sent)
  OBVIOUS
<1> HIDE DEF n
<1>2. SubSeq(sent, 1, n)[i] = sent[1 + i - 1]
  BY <1>1 DEF n
<1> QED BY <1>2 DEF n

LEMMA SameBits ==
  ASSUME NEW sent \in Seq(0..255), NEW zone, zone = SubSeq(sent, 1, Len(zone)),
         Len(zone) \in Nat, Len(zone) <= Len(sent),
         NEW at \in Nat, NEW w \in {1, 2, 4}, at + w <= Len(zone)
  PROVE  BitsIn(zone, at, w) = BitsIn(sent, at, w)
<1>1. ASSUME NEW b \in 0..(8 * w - 1) PROVE zone[at + w - b \div 8] = sent[at + w - b \div 8]
  <2>1. b \div 8 \in 0..(w - 1)
    OBVIOUS
  <2>2. at + w - b \div 8 \in 1..Len(zone)
    BY <2>1
  <2> QED BY <2>2, SameByte
<1> QED BY <1>1 DEF BitsIn

\* A repetition is determined by its count and its body.
LEMMA RepetitionIsRecords ==
  ASSUME NEW count \in Nat, NEW body, Len(body) \in Nat, NEW x, IsRepetition(x, count, body)
  PROVE  x = Records(count, body)
<1> DEFINE n == Len(body)
<1>1. x = [i \in 1..(count * n) |-> x[i]]
  BY DEF IsRepetition
<1>2. ASSUME NEW i \in 1..(count * n) PROVE x[i] = body[((i - 1) % n) + 1]
  <2> DEFINE k == (i - 1) \div n
             j == ((i - 1) % n) + 1
  <2>0. n \in Nat /\ i \in Nat
    OBVIOUS
  <2>1. n > 0
    BY <2>0
  <2> HIDE DEF n
  <2>2. /\ (i - 1) \div n \in Int /\ (i - 1) % n \in 0..(n - 1)
        /\ i - 1 = n * ((i - 1) \div n) + ((i - 1) % n)
    <3>1. \A p \in Int : \A q \in Nat : q > 0 => p \div q \in Int /\ p % q \in 0..(q - 1)
      OBVIOUS
    <3>2. \A p \in Int : \A q \in Nat : q > 0 => p = q * (p \div q) + (p % q)
      OBVIOUS
    <3> QED BY <2>0, <2>1, <3>1, <3>2
  <2>3. k \in Int /\ j \in 1..n /\ i = k * n + j
    BY <2>0, <2>1, <2>2
  <2> HIDE DEF k, j
  <2>4. k >= 0
    <3>1. k < 0 => k * n <= 0 - n
      BY <2>3, <2>0, <2>1
    <3> QED BY <3>1, <2>3, <2>0
  <2>5. k <= count - 1
    <3>1. k >= count => k * n >= count * n
      BY <2>3, <2>0
    <3>2. k * n \in Int /\ count * n \in Int /\ i <= count * n
      BY <2>3, <2>0 DEF n
    <3> QED BY <3>1, <3>2, <2>3, <2>0
  <2>6. x[k * n + j] = body[j]
    BY <2>3, <2>4, <2>5 DEF IsRepetition, n
  <2> QED BY <2>3, <2>6 DEF k, j
<1> QED BY <1>1, <1>2 DEF Records

\* Where the bytes are there, the decoder makes of a value what the device meant.
LEMMA AskedIsFollow ==
  ASSUME NEW sent \in Seq(0..255), DataZone = SubSeq(sent, 1, Len(DataZone)),
         DataZone \in Seq(0..255), Len(DataZone) <= Len(sent), offset \in Nat,
         NEW r \in ReadType, offset + r.w <= Len(DataZone),
         NEW x, Asks(r, sent, offset, x)
  PROVE  x = Follow(r)
<1>0. Len(DataZone) \in Nat
  OBVIOUS
<1>1. r.w \in Nat /\ r.then \in {"nothing", "bytes", "repeat", "flags", "gnss"}
  BY DEF ReadType, PlainRead, FlagsRead, RepeatRead, GnssRead
<1>2. r.w > 0 => DataZone[offset + 1] = sent[offset + 1] /\ sent[offset + 1] \in 0..255
  <2> SUFFICES ASSUME r.w > 0 PROVE DataZone[offset + 1] = sent[offset + 1] /\ sent[offset + 1] \in 0..255
    OBVIOUS
  <2>1. offset + 1 \in 1..Len(DataZone) /\ offset + 1 \in 1..Len(sent)
    BY <1>0, <1>1
  <2> QED BY <2>1, <1>0, SameByte, ElementOfSeq
<1>3. CASE r.then = "nothing"
  BY <1>3 DEF Asks, Follow
<1>4. CASE r.then = "bytes"
  <2>1. r.w = 1
    BY <1>4 DEF ReadType, PlainRead, FlagsRead, RepeatRead, GnssRead
  <2> QED BY <1>4, <2>1, <1>2 DEF Asks, Follow
<1>5. CASE r.then = "repeat"
  <2>1. r.w = 1 /\ r.body \in Seq(PlainRead \cup FlagsRead)
    BY <1>5 DEF ReadType, PlainRead, FlagsRead, RepeatRead, GnssRead
  <2>2. \A v \in 0..255 : v \in Nat
    OBVIOUS
  <2>3. sent[offset + 1] \in Nat /\ DataZone[offset + 1] = sent[offset + 1]
    <3>1. DataZone[offset + 1] = sent[offset + 1] /\ sent[offset + 1] \in 0..255
      BY <2>1, <1>2
    <3> QED BY <3>1, <2>2, Zenon
  <2>4. Len(r.body) \in Nat
    BY <2>1
  <2>5. x = Records(sent[offset + 1], r.body)
    BY <1>5, <2>3, <2>4, RepetitionIsRecords DEF Asks
  <2> QED BY <1>5, <2>3, <2>5 DEF Follow
<1>6. CASE r.then = "flags"
  <2>1. r.w = 1
    BY <1>6 DEF ReadType, PlainRead, FlagsRead, RepeatRead, GnssRead
  <2>2. BitsIn(DataZone, offset, 1) = BitsIn(sent, offset, 1)
    BY <2>1, <1>0, SameBits
  <2> QED BY <1>6, <2>2 DEF Asks, Follow, BitsAt
<1>7. CASE r.then = "gnss"
  <2>1. r.w = 2
    BY <1>7 DEF ReadType, PlainRead, FlagsRead, RepeatRead, GnssRead
  <2>2. BitsIn(DataZone, offset, 2) = BitsIn(sent, offset, 2)
    BY <2>1, <1>0, SameBits
  <2> QED BY <1>7, <2>2 DEF Asks, Follow, BitsAt
<1> QED BY <1>1, <1>3, <1>4, <1>5, <1>6, <1>7

----------------------------------------------------------------------------
(* The cursor is where the device wrote the next value.                    *)

Good == warnings \cap {"failed", "unsupported", "stopped"} = {}

\* The fields after a place, and the bits of a mask that stand for such places.
Ahead(s) == { g \in frame.fields : Place(g) > s }

Bits(sent, blk, s) == { b \in Announced(sent, frame.fields, blk) : Slot(blk, b) > s }

\* The loop of a nested block is within the places of the block; when the loop
\* of the report goes on, the masks of all nested fields ahead are ahead too.
InBlock(sent, s) ==
    IF block = "report"
    THEN todo = <<>> => \A g \in Ahead(s) : g.blk # "report" => 33 * MaskBit(g.blk) > s
    ELSE /\ blockBits = Bits(sent, block, s)
         /\ s \in (33 * MaskBit(block))..(33 * MaskBit(block) + 32)

Between(sent, s) ==
    /\ StartAt(Ahead(s), offset, Len(sent))
    /\ decoded = frame.fields \ Ahead(s)

AtMark(m, s) ==
    /\ m.at = offset /\ m.rest = todo
    /\ m.field \in frame.fields /\ Place(m.field) = s
    /\ field = [m.field EXCEPT !.to = field.to] /\ field.blk = block
    /\ decoded = frame.fields \ (Ahead(s) \cup {m.field})
    /\ field.blk = "report" /\ field.bit \in DOMAIN NestedBlock
          => todo = Reads(<<4>>) /\ offset = field.from

\* Everything up to place s is read, or its field is being read.
Aligned(sent, marks, s) ==
    /\ topBits = Bits(sent, "report", s)
    /\ InBlock(sent, s)
    /\ todo = <<>> => Between(sent, s)
    /\ todo # <<>> => \E m \in marks : AtMark(m, s)

SentAs(sent, marks) == Arrived(frame, sent) /\ IsReport(frame, sent, marks)

LEMMA SentFacts ==
  ASSUME TypeOK, NEW sent \in Seq(0..255), NEW marks, SentAs(sent, marks)
  PROVE  /\ frame.fields \in SUBSET FieldType
         /\ DataZone \in Seq(0..255) /\ Len(DataZone) \in Nat /\ Len(sent) \in Nat
         /\ Len(DataZone) <= Len(sent)
         /\ DataZone = SubSeq(sent, 1, Len(DataZone))
         /\ InMasks(sent, frame.fields) /\ InOrder(frame.fields, Len(sent))
         /\ Spelled(sent, frame.fields, marks)
<1>1. frame \in FrameType
  BY DEF TypeOK
<1>2. DataZone \in Seq(0..255)
  BY <1>1, ZoneType DEF DataZone
<1> QED BY <1>1, <1>2 DEF SentAs, Arrived, IsReport, FrameType, DataZone

LEMMA AnnouncedType ==
  ASSUME NEW zone, NEW F, NEW blk
  PROVE  Announced(zone, F, blk) \subseteq 0..31
  BY BitsType DEF Announced

\* A nested block with a field or with a bit set has its own bit set.
LEMMA NestedAnnounced ==
  ASSUME NEW zone, NEW F \in SUBSET FieldType, InMasks(zone, F), NEW g \in F, g.blk # "report"
  PROVE  MaskBit(g.blk) \in Announced(zone, F, "report")
<1>1. g.bit \in Announced(zone, F, g.blk)
  BY DEF InMasks
<1>2. PICK h \in F : MaskField(h, g.blk)
  BY <1>1 DEF Announced
<1>3. h.bit \in Announced(zone, F, h.blk)
  BY DEF InMasks
<1> QED BY <1>2, <1>3 DEF MaskField

LEMMA MinIsLeast ==
  ASSUME NEW S \in SUBSET (0..31), S # {}
  PROVE  Min(S) \in S /\ \A x \in S : Min(S) <= x
<1> DEFINE R == OpToRel(<, Nat)
<1>a. IsWellFoundedOn(R, Nat)
  BY NatLessThanWellFounded
<1>1. \A x, y \in Nat : <<x, y>> \in R <=> x < y
  BY DEF OpToRel
<1> HIDE DEF R
<1>0. S \subseteq Nat
  OBVIOUS
<1>2. PICK m \in S : \A x \in S : ~ (<<x, m>> \in R)
  BY <1>0, <1>a, WFMin
<1>3. \A x \in S : m <= x
  <2>1. \A x \in S : x \in Nat /\ m \in Nat /\ ~ (x < m)
    BY <1>0, <1>1, <1>2
  <2> QED BY <2>1
<1> QED BY <1>3 DEF Min

\* The loops come to the bits in the order of the places.
LEMMA NextBit ==
  ASSUME TypeOK, NEW sent \in Seq(0..255), NEW marks, SentAs(sent, marks),
         NEW s \in Int, Aligned(sent, marks, s), NEW b \in 0..31, AtBit(b)
  PROVE  /\ Slot(block, b) \in Nat
         /\ b \in Announced(sent, frame.fields, block)
         /\ Slot(block, b) > s
         /\ \A g \in Ahead(s) : Place(g) >= Slot(block, b)
<1> DEFINE F == frame.fields
<1>1. /\ F \in SUBSET FieldType /\ InMasks(sent, F) /\ block \in Blocks /\ todo = <<>>
      /\ \A g \in F : g.blk \in Blocks /\ g.bit \in 0..31
      /\ \A g \in F : g.bit \in Announced(sent, F, g.blk)
  <2>1. F \in SUBSET FieldType /\ InMasks(sent, F)
    BY SentFacts
  <2>2. block \in Blocks /\ todo = <<>>
    BY DEF TypeOK, AtBit, BetweenFields
  <2>3. \A g \in F : g.blk \in Blocks /\ g.bit \in 0..31
    BY <2>1 DEF FieldType
  <2>4. \A g \in F : g.bit \in Announced(sent, F, g.blk)
    BY <2>1 DEF InMasks
  <2> QED BY <2>1, <2>2, <2>3, <2>4
<1>2. /\ \A x \in Blocks : Announced(sent, F, x) \subseteq 0..31
      /\ \A x \in Blocks : Bits(sent, x, s) \subseteq 0..31
  BY AnnouncedType DEF Bits
<1>3. topBits = Bits(sent, "report", s) /\ (block # "report" => blockBits = Bits(sent, block, s))
  BY DEF Aligned, InBlock
<1>4. b \in Bits(sent, block, s) /\ \A x \in Bits(sent, block, s) : b <= x
  <2> DEFINE bits == Bits(sent, block, s)
  <2>1. bits # {} /\ b = Min(bits)
    BY <1>3 DEF AtBit
  <2>2. bits \in SUBSET (0..31)
    BY <1>1, <1>2
  <2> HIDE DEF bits
  <2>3. b \in bits /\ \A x \in bits : b <= x
    BY <2>1, <2>2, MinIsLeast
  <2> QED BY <2>3 DEF bits
<1>5. Slot(block, b) \in Nat
  BY <1>1, SlotType
<1>6. ASSUME NEW g \in Ahead(s) PROVE Place(g) >= Slot(block, b)
  <2>1. g \in F /\ Place(g) = Slot(g.blk, g.bit) /\ Place(g) \in Nat /\ Place(g) > s
    BY <1>1, PlaceIsSlot DEF Ahead
  <2>2. g.blk \in Blocks /\ g.bit \in 0..31 /\ (g.blk # "report" => MaskBit(g.blk) \in 0..31)
    BY <1>1, <2>1, MaskBits
  <2>3. g.bit \in Announced(sent, F, g.blk)
    BY <1>1, <2>1
  <2>4. CASE g.blk = block
    <3>1. b <= g.bit
      BY <1>4, <2>1, <2>3, <2>4 DEF Bits
    <3>2. Slot(block, b) <= Slot(block, g.bit)
      BY <3>1, <1>1, <2>2, SlotOrder
    <3> QED BY <3>2, <1>5, <2>1, <2>4
  <2>5. CASE g.blk # block /\ block = "report"
    <3>1. MaskBit(g.blk) \in Announced(sent, F, "report")
      BY <1>1, <2>1, <2>5, NestedAnnounced
    <3>2. 33 * MaskBit(g.blk) > s
      BY <1>1, <2>5 DEF Aligned, InBlock
    <3>3. b <= MaskBit(g.blk)
      BY <1>4, <2>5, <3>1, <3>2 DEF Bits, Slot
    <3> QED BY <3>3, <1>1, <2>1, <2>2, <2>5, BlockOrder
  <2>6. CASE g.blk # block /\ block # "report"
    <3>1. s \in (33 * MaskBit(block))..(33 * MaskBit(block) + 32)
      BY <2>6 DEF Aligned, InBlock
    <3> QED BY <3>1, <1>1, <2>1, <2>2, <2>6, BlockOrder
  <2> QED BY <2>4, <2>5, <2>6
<1> QED BY <1>4, <1>5, <1>6 DEF Bits

\* With the bit taken out, the bits left are those of the places after its own.
LEMMA BitConsumed ==
  ASSUME TypeOK, NEW sent \in Seq(0..255), NEW marks, SentAs(sent, marks),
         NEW s \in Int, Aligned(sent, marks, s), NEW b \in 0..31, AtBit(b),
         ConsumeBit(b), UNCHANGED <<frame, block>>
  PROVE  /\ topBits' = Bits(sent, "report", Slot(block, b))'
         /\ block # "report" =>
               /\ blockBits' = Bits(sent, block, Slot(block, b))'
               /\ Slot(block, b) \in (33 * MaskBit(block))..(33 * MaskBit(block) + 32)
<1> DEFINE F == frame.fields
<1>1. block \in Blocks /\ (block # "report" => MaskBit(block) \in 0..31)
  BY MaskBits DEF TypeOK
<1>2. topBits = Bits(sent, "report", s) /\ (block # "report" => blockBits = Bits(sent, block, s))
  BY DEF Aligned, InBlock
<1>3. \A x \in Blocks : Announced(sent, F, x) \subseteq 0..31 /\ Bits(sent, x, s) \subseteq 0..31
  BY AnnouncedType DEF Bits
<1>4. b \in Bits(sent, block, s) /\ \A x \in Bits(sent, block, s) : b <= x
  <2> DEFINE bits == Bits(sent, block, s)
  <2>1. bits # {} /\ b = Min(bits)
    BY <1>2 DEF AtBit
  <2>2. bits \in SUBSET (0..31)
    BY <1>1, <1>3
  <2> HIDE DEF bits
  <2>3. b \in bits /\ \A x \in bits : b <= x
    BY <2>1, <2>2, MinIsLeast
  <2> QED BY <2>3 DEF bits
<1>5. \A t : Bits(sent, "report", t)' = Bits(sent, "report", t) /\ Bits(sent, block, t)' = Bits(sent, block, t)
  BY DEF Bits
<1>6. Bits(sent, block, Slot(block, b)) = Bits(sent, block, s) \ {b}
  <2> SUFFICES ASSUME NEW x \in 0..31
               PROVE  /\ x \in Bits(sent, block, s) /\ x # b => Slot(block, x) > Slot(block, b)
                      /\ Slot(block, x) > Slot(block, b) => Slot(block, x) > s /\ x # b
    BY <1>1, <1>3, <1>4 DEF Bits
  <2>1. x \in Bits(sent, block, s) /\ x # b => x > b
    BY <1>4
  <2>2. Slot(block, x) \in Nat /\ Slot(block, b) \in Nat /\ Slot(block, b) > s
    BY <1>1, <1>4, SlotType DEF Bits
  <2>3. x <= b <=> Slot(block, x) <= Slot(block, b)
    BY <1>1, SlotOrder
  <2> QED BY <2>1, <2>2, <2>3
<1>7. CASE block = "report"
  BY <1>2, <1>5, <1>6, <1>7 DEF ConsumeBit
<1>8. CASE block # "report"
  <2>1. s \in (33 * MaskBit(block))..(33 * MaskBit(block) + 32)
    BY <1>8 DEF Aligned, InBlock
  <2>2. Slot(block, b) \in (33 * MaskBit(block))..(33 * MaskBit(block) + 32)
    <3> DEFINE m == MaskBit(block)
               i == Slot(block, b)
    <3>1. m \in 0..31 /\ i \in (33 * m + 1)..(33 * m + 32)
      BY <1>1, <1>8, SlotOrder
    <3> HIDE DEF m, i
    <3>2. i \in (33 * m)..(33 * m + 32)
      BY <3>1
    <3> QED BY <3>2 DEF m, i
  <2>3. \A x \in 0..31 : Slot("report", x) > Slot(block, b) <=> Slot("report", x) > s
    <3>1. \A m, x \in 0..31, p, q \in Int : p \in (33 * m)..(33 * m + 32) /\ q \in (33 * m)..(33 * m + 32)
             => (33 * x > p <=> 33 * x > q)
      OBVIOUS
    <3>2. Slot(block, b) \in Int
      <4>1. Slot(block, b) \in Nat
        BY <1>1, SlotType
      <4> QED BY <4>1
    <3> QED BY <1>1, <1>8, <2>1, <2>2, <3>1, <3>2 DEF Slot
  <2>4. Bits(sent, "report", Slot(block, b)) = Bits(sent, "report", s)
    BY <2>3, <1>3 DEF Bits, Blocks
  <2> QED BY <1>2, <1>5, <1>6, <1>8, <2>2, <2>4 DEF ConsumeBit
<1> QED BY <1>7, <1>8

LEMMA MaskReads ==
  /\ \A b \in DOMAIN NestedBlock : FieldReads("report", b) = Reads(<<4>>)
  /\ Reads(<<4>>) # <<>> /\ Head(Reads(<<4>>)) = Read(4) /\ Tail(Reads(<<4>>)) = <<>>
<1>1. \A b \in DOMAIN NestedBlock : FieldReads("report", b) = Reads(<<4>>)
  BY DEF FieldReads, ReportReads, NestedBlock
<1>2. Reads(<<4>>) = <<Read(4)>>
  BY DEF Reads
<1>3. \A x : <<x>> # <<>> /\ Head(<<x>>) = x /\ Tail(<<x>>) = <<>>
  OBVIOUS
<1> QED BY <1>1, <1>2, <1>3

\* A nested field whose mask bit is not before a bit of the report that is no
\* mask bit is behind it, and so is its mask.
LEMMA MaskAhead ==
  ASSUME NEW F \in SUBSET FieldType, NEW g \in F, g.blk # "report", NEW b \in 0..31,
         Place(g) > 33 * b, b \notin DOMAIN NestedBlock
  PROVE  33 * MaskBit(g.blk) > 33 * b
<1> DEFINE m == MaskBit(g.blk)
           p == Place(g)
<1>1. g.blk \in Blocks /\ g.bit \in 0..31
  BY DEF FieldType
<1>2. m \in 0..31 /\ m # b
  BY <1>1, MaskBits
<1>3. p \in (33 * m + 1)..(33 * m + 32)
  BY <1>1, PlaceIsSlot, SlotOrder
<1>4. p > 33 * b
  OBVIOUS
<1> HIDE DEF m, p
<1>5. m >= b
  BY <1>2, <1>3, <1>4
<1>6. 33 * m > 33 * b
  BY <1>2, <1>5
<1> QED BY <1>6 DEF m

\* A reserved bit: no field has its place.
LEMMA SkipAligned ==
  ASSUME TypeOK, NEW sent \in Seq(0..255), NEW marks, SentAs(sent, marks),
         NEW s \in Int, Aligned(sent, marks, s), NEW b \in 0..31, SkipBit(b), Good'
  PROVE  \E t \in Int : Aligned(sent, marks, t)'
<1> DEFINE F == frame.fields
<1>1. /\ F \in SUBSET FieldType /\ InMasks(sent, F) /\ block \in Blocks /\ AtBit(b) /\ ConsumeBit(b)
      /\ UNCHANGED <<frame, offset, block, todo, decoded>> /\ todo = <<>>
  BY SentFacts DEF SkipBit, TypeOK, AtBit, BetweenFields
<1>2. <<block, b>> \in Reserved
  BY DEF SkipBit, Good
<1>0. PICK t : t = Slot(block, b)
  OBVIOUS
<1>3. t \in Nat /\ t > s /\ \A g \in Ahead(s) : Place(g) >= t
  BY <1>0, <1>1, NextBit
<1>4. \A g \in F : Place(g) \in Nat /\ Place(g) # t
  <2> SUFFICES ASSUME NEW g \in F PROVE Place(g) \in Nat /\ Place(g) # t
    OBVIOUS
  <2>1. Place(g) \in Nat /\ Place(g) = Slot(g.blk, g.bit) /\ g.blk \in Blocks /\ g.bit \in 0..31
    BY <1>1, PlaceIsSlot DEF FieldType
  <2>2. <<g.blk, g.bit>> \notin Reserved
    BY <1>1 DEF InMasks
  <2>3. ASSUME Place(g) = t PROVE FALSE
    <3>1. g.blk = block /\ g.bit = b
      <4>1. Slot(g.blk, g.bit) = Slot(block, b) /\ block \in Blocks
        BY <2>1, <2>3, <1>0, <1>1
      <4>2. g.blk \in Blocks /\ g.bit \in 0..31
        BY <2>1
      <4> QED BY <4>1, <4>2, SlotUnique
    <3> QED BY <3>1, <2>2, <1>2
  <2> QED BY <2>1, <2>3
<1>5. Ahead(t)' = Ahead(s)
  <2>1. \A g \in F : Place(g) > s <=> Place(g) > t
    BY <1>3, <1>4 DEF Ahead
  <2> QED BY <1>1, <2>1 DEF Ahead
<1>6. Between(sent, t)'
  BY <1>1, <1>5 DEF Between, Aligned
<1>7. InBlock(sent, t)'
  <2>1. CASE block # "report"
    BY <1>0, <1>1, <2>1, BitConsumed DEF InBlock
  <2>2. CASE block = "report"
    <3>1. t = 33 * b /\ b \notin DOMAIN NestedBlock
      BY <1>0, <2>2, MaskReads DEF Slot, SkipBit
    <3>2. \A g \in Ahead(s) : g \in F /\ Place(g) > 33 * b
      BY <1>3, <1>4, <3>1 DEF Ahead
    <3>3. \A g \in Ahead(s) : g.blk # "report" => 33 * MaskBit(g.blk) > t
      BY <1>1, <3>1, <3>2, MaskAhead
    <3> QED BY <1>1, <1>5, <2>2, <3>3 DEF InBlock
  <2> QED BY <2>1, <2>2
<1>8. topBits' = Bits(sent, "report", t)'
  BY <1>0, <1>1, BitConsumed
<1>9. Aligned(sent, marks, t)'
  BY <1>1, <1>6, <1>7, <1>8 DEF Aligned
<1> QED BY <1>3, <1>9

\* The field that starts is the first one ahead.
LEMMA StartAligned ==
  ASSUME TypeOK, NEW sent \in Seq(0..255), NEW marks, SentAs(sent, marks),
         NEW s \in Int, Aligned(sent, marks, s), NEW b \in 0..31, StartField(b)
  PROVE  \E t \in Int : Aligned(sent, marks, t)'
<1> DEFINE F == frame.fields
<1>1. /\ F \in SUBSET FieldType /\ InMasks(sent, F) /\ Spelled(sent, F, marks) /\ block \in Blocks
      /\ AtBit(b) /\ ConsumeBit(b) /\ FieldReads(block, b) # <<>> /\ todo = <<>>
      /\ UNCHANGED <<frame, offset, block, decoded>> /\ todo' = FieldReads(block, b)
  BY SentFacts DEF StartField, TypeOK, AtBit, BetweenFields
<1>2. field' = [blk |-> block, bit |-> b, from |-> offset, to |-> offset]
  BY DEF StartField
<1>0. PICK t : t = Slot(block, b)
  OBVIOUS
<1>3. t \in Nat /\ t > s /\ (\A g \in Ahead(s) : Place(g) >= t) /\ b \in Announced(sent, F, block)
  BY <1>0, <1>1, NextBit
<1>4. PICK g \in F : g.blk = block /\ g.bit = b
  BY <1>1, <1>3 DEF InMasks
<1>5. g \in FieldType /\ Place(g) = t
  BY <1>0, <1>1, <1>4, PlaceIsSlot
<1>6. g.from = offset
  <2>1. StartAt(Ahead(s), offset, Len(sent)) /\ g \in Ahead(s)
    BY <1>1, <1>3, <1>5 DEF Aligned, Between, Ahead
  <2>2. PICK h \in Ahead(s) : h.from = offset /\ Place(h) <= t
    BY <2>1, <1>5 DEF StartAt
  <2>3. h \in F /\ Place(h) \in Nat /\ Place(h) >= t
    BY <1>1, <1>3, PlaceIsSlot DEF Ahead
  <2>4. Place(h) = Place(g)
    BY <2>2, <2>3, <1>3, <1>5
  <2> QED BY <2>2, <2>3, <2>4, <1>1, PlaceUnique
<1>7. PICK m \in marks : m.field = g /\ m.at = g.from /\ m.rest = FieldReads(block, b)
  BY <1>1, <1>4 DEF Spelled
<1>8. decoded' = F \ (Ahead(t)' \cup {g})
  <2>1. decoded' = F \ Ahead(s)
    BY <1>1 DEF Aligned, Between
  <2>2. Ahead(s) = Ahead(t) \cup {g}
    <3>1. \A h \in Ahead(s) : h \in F /\ (Place(h) > t \/ h = g)
      <4> SUFFICES ASSUME NEW h \in Ahead(s) PROVE h \in F /\ (Place(h) > t \/ h = g)
        OBVIOUS
      <4>1. h \in F /\ Place(h) \in Nat /\ Place(h) >= t
        BY <1>1, <1>3, PlaceIsSlot DEF Ahead
      <4> QED BY <4>1, <1>1, <1>3, <1>5, PlaceUnique
    <3>2. \A h \in F : Place(h) \in Nat
      BY <1>1, PlaceIsSlot
    <3>3. \A h \in Ahead(t) \cup {g} : h \in F /\ Place(h) > s
      BY <3>2, <1>3, <1>5 DEF Ahead
    <3> QED BY <3>1, <3>3 DEF Ahead
  <2>3. Ahead(t)' = Ahead(t)
    BY <1>1 DEF Ahead
  <2> QED BY <2>1, <2>2, <2>3
<1>9. AtMark(m, t)'
  <2>1. field' = [g EXCEPT !.to = field'.to] /\ field'.blk = block
    BY <1>2, <1>4, <1>5, <1>6 DEF FieldType
  <2>2. field'.blk = "report" /\ field'.bit \in DOMAIN NestedBlock
          => todo' = Reads(<<4>>) /\ offset' = field'.from
    BY <1>1, <1>2, MaskReads
  <2> QED BY <1>1, <1>5, <1>6, <1>7, <1>8, <2>1, <2>2 DEF AtMark
<1>10. InBlock(sent, t)'
  <2>1. CASE block # "report"
    BY <1>0, <1>1, <2>1, BitConsumed DEF InBlock
  <2> QED BY <1>1, <2>1 DEF InBlock
<1>11. topBits' = Bits(sent, "report", t)'
  BY <1>0, <1>1, BitConsumed
<1>12. Aligned(sent, marks, t)'
  BY <1>1, <1>9, <1>10, <1>11 DEF Aligned
<1> QED BY <1>3, <1>12

\* One value further: to the next mark, or to the field's end, where the
\* device put the next field; the bits of a nested block are those of its mask.
LEMMA ReadAligned ==
  ASSUME TypeOK, NEW sent \in Seq(0..255), NEW marks, SentAs(sent, marks),
         NEW s \in Int, Aligned(sent, marks, s), ReadOn
  PROVE  \E t \in Int : Aligned(sent, marks, t)'
<1> DEFINE F == frame.fields
           r == Head(todo)
<1>1. /\ F \in SUBSET FieldType /\ InMasks(sent, F) /\ InOrder(F, Len(sent))
      /\ Spelled(sent, F, marks) /\ block \in Blocks
      /\ todo # <<>> /\ r.w <= Remaining /\ todo \in Seq(ReadType) /\ offset \in Nat
      /\ UNCHANGED <<frame, topBits, field>>
      /\ offset' = offset + r.w /\ todo' = Follow(r) \o Tail(todo)
  BY SentFacts DEF ReadOn, TypeOK
<1>2. /\ DataZone \in Seq(0..255) /\ Len(DataZone) \in Nat /\ Len(DataZone) <= Len(sent)
      /\ DataZone = SubSeq(sent, 1, Len(DataZone))
  BY SentFacts
<1>3. r \in ReadType /\ r.w \in Nat
  BY <1>1 DEF ReadType, PlainRead, FlagsRead, RepeatRead, GnssRead
<1>4. offset + r.w <= Len(DataZone)
  BY <1>1, <1>2, <1>3 DEF Remaining
<1>5. PICK m \in marks : AtMark(m, s)
  BY <1>1 DEF Aligned
<1>0. PICK g : g = m.field
  OBVIOUS
<1>6. g \in F /\ Place(g) = s /\ g \in FieldType /\ g.blk = block /\ g.bit = field.bit /\ g.from = field.from
  BY <1>0, <1>1, <1>5 DEF AtMark, FieldType
<1>7. m.rest = todo /\ m.at = offset
  BY <1>5 DEF AtMark
<1>8. /\ Asks(r, sent, offset, m.asked)
      /\ \E n \in marks : n.field = g /\ n.at = offset + r.w /\ n.rest = m.asked \o Tail(todo)
  BY <1>0, <1>1, <1>7 DEF Spelled
<1>9. m.asked = Follow(r)
  BY <1>1, <1>2, <1>3, <1>4, <1>8, AskedIsFollow
<1>10. PICK n \in marks : n.field = g /\ n.at = offset' /\ n.rest = todo'
  BY <1>1, <1>8, <1>9
<1>11. Bits(sent, "report", s)' = Bits(sent, "report", s) /\ Ahead(s)' = Ahead(s)
  BY <1>1 DEF Bits, Ahead
<1>12. field.blk = block /\ field = [g EXCEPT !.to = field.to]
       /\ decoded = F \ (Ahead(s) \cup {g})
       /\ (block = "report" /\ field.bit \in DOMAIN NestedBlock => todo = Reads(<<4>>) /\ offset = field.from)
  BY <1>0, <1>5 DEF AtMark
<1> DEFINE mask == block = "report" /\ field.bit \in DOMAIN NestedBlock
<1>13. mask => r = Read(4) /\ todo' = <<>>
  <2>1. mask => Follow(r) = <<>> /\ Tail(todo) = <<>> /\ r = Read(4)
    BY <1>12, MaskReads DEF Follow, Read
  <2> QED BY <1>1, <2>1
<1>14. CASE todo' # <<>>
  <2>1. UNCHANGED <<decoded, block, blockBits>>
    BY <1>14 DEF ReadOn
  <2>2. AtMark(n, s)'
    BY <1>1, <1>6, <1>10, <1>11, <1>12, <1>13, <1>14, <2>1 DEF AtMark
  <2>3. InBlock(sent, s)'
    BY <1>1, <1>14, <2>1 DEF InBlock, Aligned, Bits
  <2>4. Aligned(sent, marks, s)'
    BY <1>1, <1>11, <1>14, <2>2, <2>3 DEF Aligned
  <2> QED BY <2>4
<1>15. CASE todo' = <<>>
  <2>1. g.to = offset'
    BY <1>1, <1>10, <1>15, <1>0 DEF Spelled
  <2>2. decoded' = decoded \cup {[field EXCEPT !.to = offset']}
    BY <1>15 DEF ReadOn, CompleteField
  <2>3. [field EXCEPT !.to = offset'] = g
    BY <1>6, <1>12, <2>1 DEF FieldType
  <2>4. decoded' = F \ Ahead(s)
    BY <1>6, <1>12, <2>2, <2>3 DEF Ahead
  <2>5. StartAt(Ahead(s), offset', Len(sent))
    <3>1. After(F, g) = Ahead(s)
      BY <1>6 DEF After, Ahead
    <3> QED BY <3>1, <1>1, <1>6, <2>1 DEF InOrder
  <2>6. Between(sent, s)'
    BY <1>1, <1>11, <2>4, <2>5 DEF Between
  <2>7. InBlock(sent, s)'
    <3>1. CASE mask
      <4>1. block' = NestedBlock[g.bit] /\ blockBits' = BitsAt(offset, 4)
        BY <1>6, <1>12, <1>15, <3>1 DEF ReadOn, CompleteField
      <4>0. PICK nested : nested = NestedBlock[g.bit]
        OBVIOUS
      <4>2. nested \in Blocks \ {"report"} /\ MaskBit(nested) = g.bit
        BY <1>6, <3>1, <4>0, MaskBits
      <4>3. BitsAt(offset, 4) = BitsIn(sent, g.from, 4)
        <5>1. offset + 4 <= Len(DataZone) /\ offset = g.from
          BY <1>4, <1>6, <1>12, <1>13, <3>1 DEF Read
        <5> QED BY <5>1, <1>1, <1>2, SameBits DEF BitsAt
      <4>4. Announced(sent, F, nested) = BitsIn(sent, g.from, 4)
        <5>1. MaskField(g, nested)
          BY <1>6, <3>1, <4>2 DEF MaskField
        <5>2. \A h \in F : MaskField(h, nested) => h = g
          BY <1>1, <1>6, <5>1 DEF InMasks, MaskField
        <5> QED BY <5>1, <5>2, <1>6, <4>2 DEF Announced
      <4>5. s = 33 * MaskBit(nested) /\ MaskBit(nested) \in 0..31
        <5>1. s = 33 * g.bit /\ g.bit \in 0..31
          BY <1>6, <3>1 DEF Place, FieldType
        <5> QED BY <4>2, <5>1
      <4>6. \A b \in 0..31 : Slot(nested, b) > s
        <5> DEFINE k == MaskBit(nested)
        <5>1. \A b \in 0..31 : Slot(nested, b) = 33 * k + b + 1
          BY <4>2 DEF Slot
        <5>2. s = 33 * k /\ k \in 0..31
          BY <4>5
        <5> HIDE DEF k
        <5>3. \A b \in 0..31 : 33 * k + b + 1 > 33 * k
          BY <5>2
        <5> QED BY <5>1, <5>2, <5>3
      <4>7. Bits(sent, nested, s) = Announced(sent, F, nested)
        BY <4>6, AnnouncedType DEF Bits
      <4>8. Bits(sent, nested, s)' = Bits(sent, nested, s)
        BY <1>1 DEF Bits
      <4>9. s \in (33 * MaskBit(nested))..(33 * MaskBit(nested) + 32)
        BY <4>5
      <4> QED BY <4>0, <4>1, <4>2, <4>3, <4>4, <4>7, <4>8, <4>9 DEF InBlock
    <3>2. CASE ~ mask
      <4>1. UNCHANGED <<block, blockBits>>
        BY <1>12, <1>15, <3>2 DEF ReadOn, CompleteField
      <4>2. CASE block = "report"
        <5>1. g.bit \in 0..31 /\ g.bit \notin DOMAIN NestedBlock /\ s = 33 * g.bit
          BY <1>6, <1>12, <3>2, <4>2 DEF Place, FieldType
        <5>2. \A h \in Ahead(s) : h.blk # "report" => 33 * MaskBit(h.blk) > s
          BY <1>1, <5>1, MaskAhead DEF Ahead
        <5> QED BY <1>11, <4>1, <4>2, <5>2 DEF InBlock
      <4>3. CASE block # "report"
        BY <1>1, <4>1, <4>3 DEF InBlock, Aligned, Bits
      <4> QED BY <4>2, <4>3
    <3> QED BY <3>1, <3>2
  <2>8. Aligned(sent, marks, s)'
    BY <1>1, <1>11, <1>15, <2>6, <2>7 DEF Aligned
  <2> QED BY <2>8
<1> QED BY <1>14, <1>15

\* A nested block ends: nothing of it is ahead.
LEMMA LeaveAligned ==
  ASSUME TypeOK, NEW sent \in Seq(0..255), NEW marks, SentAs(sent, marks),
         NEW s \in Int, Aligned(sent, marks, s), LeaveBlock
  PROVE  Aligned(sent, marks, s)'
<1> DEFINE F == frame.fields
<1>1. /\ F \in SUBSET FieldType /\ InMasks(sent, F) /\ block \in Blocks /\ block # "report"
      /\ todo = <<>> /\ blockBits = {} /\ block' = "report"
      /\ UNCHANGED <<frame, offset, topBits, todo, decoded>>
  BY SentFacts DEF LeaveBlock, TypeOK, BetweenFields
<1>2. Bits(sent, "report", s)' = Bits(sent, "report", s) /\ Ahead(s)' = Ahead(s)
  BY <1>1 DEF Bits, Ahead
<1>3. blockBits = Bits(sent, block, s) /\ s \in (33 * MaskBit(block))..(33 * MaskBit(block) + 32)
  BY <1>1 DEF Aligned, InBlock
<1>4. ASSUME NEW g \in Ahead(s), g.blk # "report" PROVE 33 * MaskBit(g.blk) > s
  <2> DEFINE m == MaskBit(block)
             k == MaskBit(g.blk)
             p == Place(g)
  <2>1. g \in F /\ p > s /\ g.blk \in Blocks /\ g.bit \in 0..31 /\ p = Slot(g.blk, g.bit)
    BY <1>1, PlaceIsSlot DEF Ahead, FieldType
  <2>2. g.blk # block
    <3>1. g.bit \in Announced(sent, F, g.blk)
      BY <1>1, <2>1 DEF InMasks
    <3>2. g.blk = block => g.bit \in Bits(sent, block, s)
      BY <2>1, <3>1 DEF Bits
    <3> QED BY <1>1, <1>3, <3>2
  <2>3. m \in 0..31 /\ k \in 0..31 /\ m # k
    BY <1>1, <1>4, <2>1, <2>2, MaskBits
  <2>4. p \in (33 * k + 1)..(33 * k + 32)
    BY <1>4, <2>1, SlotOrder
  <2>5. s \in (33 * m)..(33 * m + 32)
    BY <1>3
  <2> SUFFICES 33 * k > s
    OBVIOUS
  <2> HIDE DEF m, k, p
  <2>6. k >= m
    BY <2>1, <2>3, <2>4, <2>5
  <2>7. k > m
    BY <2>3, <2>6
  <2> QED BY <2>3, <2>5, <2>7
<1>5. InBlock(sent, s)'
  BY <1>1, <1>2, <1>4 DEF InBlock
<1>6. Between(sent, s)'
  BY <1>1, <1>2 DEF Aligned, Between
<1> QED BY <1>1, <1>2, <1>5, <1>6 DEF Aligned

\* With no bit left, no field is ahead and the cursor is at the end.
LEMMA FinishAligned ==
  ASSUME TypeOK, NEW sent \in Seq(0..255), NEW marks, SentAs(sent, marks),
         NEW s \in Int, Aligned(sent, marks, s), FinishReport
  PROVE  decoded = frame.fields /\ offset = Len(sent) /\ block = "report"
<1> DEFINE F == frame.fields
<1>1. /\ F \in SUBSET FieldType /\ InMasks(sent, F) /\ block = "report"
      /\ todo = <<>> /\ topBits = {} /\ Bits(sent, "report", s) = {}
  BY SentFacts DEF FinishReport, BetweenFields, Aligned
<1>2. ASSUME NEW g \in Ahead(s) PROVE FALSE
  <2>1. g \in F /\ Place(g) > s
    BY DEF Ahead
  <2>2. CASE g.blk = "report"
    <3>1. g.bit \in Announced(sent, F, "report") /\ Slot("report", g.bit) > s
      BY <1>1, <2>1, <2>2 DEF InMasks, Place, Slot
    <3> QED BY <3>1, <1>1 DEF Bits
  <2>3. CASE g.blk # "report"
    <3>1. 33 * MaskBit(g.blk) > s
      BY <1>1, <2>3 DEF Aligned, InBlock
    <3>2. MaskBit(g.blk) \in Announced(sent, F, "report")
      BY <1>1, <2>1, <2>3, NestedAnnounced
    <3> QED BY <3>1, <3>2, <1>1 DEF Bits, Slot
  <2> QED BY <2>2, <2>3
<1>3. Ahead(s) = {}
  BY <1>2
<1> QED BY <1>1, <1>3 DEF Aligned, Between, StartAt

----------------------------------------------------------------------------
(* The invariant of a report, and what it proves.                          *)

Begins ==
    status = "framed" => block = "report" /\ todo = <<>> /\ decoded = {} /\ warnings = {}

\* As long as no decoding loop has warned, the fields are read where they are.
InStep(sent, marks) ==
    Good => /\ status = "decoding" => \E s \in Int : Aligned(sent, marks, s)
            /\ status = "done" => decoded = frame.fields /\ offset = Len(sent) /\ block = "report"

Unwarned == frame.whole /\ ~ frame.opaque => warnings = {}

\* Once the AdvCAN block is through, its warnings are the device's.
AdvFields == { g \in frame.fields : g.blk = "advanced1" }

AdasRead == Good /\ frame.whole /\ block # "advanced1" /\ AdvFields \subseteq decoded
              => adas = frame.adas

ReportInv ==
    frame.kind = "report" =>
        /\ status # "scanning"
        /\ HonestLength(frame)
        /\ Begins /\ Unwarned /\ AdasRead
        /\ \E sent \in Seq(0..255) : \E marks : SentAs(sent, marks) /\ InStep(sent, marks)

LEMMA InitReport == DeviceSends /\ Init => ReportInv
<1> SUFFICES ASSUME DeviceSends, Init, frame.kind = "report" PROVE ReportInv
  BY DEF ReportInv
<1>1. ReportFromDevice(frame)
  BY DEF DeviceSends, Init, FromDevice
<1>2. PICK sent \in Seq(0..255) : Arrived(frame, sent) /\ \E marks : IsReport(frame, sent, marks)
  BY <1>1 DEF ReportFromDevice
<1>3. PICK marks : IsReport(frame, sent, marks)
  BY <1>2
<1>4. SentAs(sent, marks) /\ InStep(sent, marks)
  BY <1>2, <1>3 DEF SentAs, InStep, Init
<1>5. AdasRead
  <2> SUFFICES ASSUME AdvFields \subseteq {} PROVE frame.adas = {}
    BY DEF AdasRead, Init
  <2>1. PidFields(frame.fields, 1) = {}
    BY DEF PidFields, AdvFields
  <2>2. frame.adas = Raised(sent, frame.fields)
    BY <1>3 DEF IsReport
  <2> QED BY <2>1, <2>2 DEF Raised
<1>6. HonestLength(frame)
  BY <1>1 DEF ReportFromDevice
<1> QED BY <1>4, <1>5, <1>6 DEF ReportInv, Begins, Unwarned, Init

\* The mask of the report is at the end of its fixed part.
LEMMA BeginAligned ==
  ASSUME TypeOK, NEW sent \in Seq(0..255), NEW marks, SentAs(sent, marks), Begins, StartReport
  PROVE  Aligned(sent, marks, -1)'
<1> DEFINE F == frame.fields
<1>1. /\ F \in SUBSET FieldType /\ InMasks(sent, F) /\ InOrder(F, Len(sent))
      /\ block = "report" /\ todo = <<>> /\ decoded = {} /\ offset' = REPORT_PREFIX_BYTES
      /\ UNCHANGED <<frame, block, todo, decoded>>
  BY SentFacts DEF StartReport, Begins
<1>2. Ahead(-1)' = F
  <2>1. \A g \in F : Place(g) > -1
    BY <1>1, PlaceIsSlot
  <2> QED BY <1>1, <2>1 DEF Ahead
<1>3. Between(sent, -1)'
  BY <1>1, <1>2 DEF Between, InOrder
<1>4. topBits' = Bits(sent, "report", -1)'
  <2>1. topBits' = BitsIn(DataZone, 4, 4) /\ 4 + 4 <= Len(DataZone)
    BY DEF StartReport, REPORT_PREFIX_BYTES, BitsAt
  <2>2. BitsIn(DataZone, 4, 4) = BitsIn(sent, 4, 4)
    <3>1. /\ DataZone = SubSeq(sent, 1, Len(DataZone)) /\ Len(DataZone) \in Nat
          /\ Len(DataZone) <= Len(sent)
      BY SentFacts
    <3>2. 4 \in Nat /\ 4 \in {1, 2, 4}
      OBVIOUS
    <3> QED BY <2>1, <3>1, <3>2, SameBits
  <2>3. Announced(sent, F, "report") = BitsIn(sent, 4, 4)
    BY DEF Announced, REPORT_PREFIX_BYTES
  <2>4. \A b \in 0..31 : Slot("report", b) > -1
    BY DEF Slot
  <2>5. Bits(sent, "report", -1) = Announced(sent, F, "report")
    BY <2>4, AnnouncedType DEF Bits
  <2> QED BY <1>1, <2>1, <2>2, <2>3, <2>5 DEF Bits
<1>5. InBlock(sent, -1)'
  <2>1. \A g \in F : g.blk # "report" => 33 * MaskBit(g.blk) > -1
    <3> SUFFICES ASSUME NEW g \in F, g.blk # "report" PROVE 33 * MaskBit(g.blk) > -1
      OBVIOUS
    <3>1. MaskBit(g.blk) \in 0..31
      BY <1>1, MaskBits DEF FieldType
    <3>2. \A m \in 0..31 : 33 * m > -1
      OBVIOUS
    <3> QED BY <3>1, <3>2
  <2> QED BY <1>1, <1>2, <2>1 DEF InBlock
<1> QED BY <1>1, <1>3, <1>4, <1>5 DEF Aligned

\* The decoder takes the warnings from the fields the device put them in.
LEMMA AdasTaken ==
  ASSUME NEW sent, NEW marks, SentAs(sent, marks), frame.whole,
         decoded \subseteq frame.fields, AdvFields \subseteq decoded
  PROVE  MobileyeAdasEvents = frame.adas
<1>1. DataZone = sent /\ frame.adas = Raised(sent, frame.fields)
  BY DEF SentAs, Arrived, IsReport, DataZone
<1>2. HasPid1 <=> PidFields(frame.fields, 1) # {}
  BY DEF HasPid1, PidFields, AdvFields
<1>3. \A pid : PidIs1(pid) <=> \E g \in PidFields(frame.fields, pid) : sent[g.from + 2] = 1
  BY <1>1 DEF PidIs1, PidFields, AdvFields
<1> QED BY <1>1, <1>2, <1>3 DEF MobileyeAdasEvents, Raised

\* Whatever is asked for is there, in a report that arrived whole.
LEMMA NeverShort ==
  ASSUME TypeOK, NEW sent \in Seq(0..255), NEW marks, SentAs(sent, marks), frame.whole,
         NEW s \in Int, Aligned(sent, marks, s), todo # <<>>
  PROVE  ~ (Head(todo).w > Remaining)
<1>1. PICK m \in marks : m.at = offset /\ m.rest = todo
  BY DEF Aligned, AtMark
<1>2. offset + Head(todo).w <= Len(sent)
  BY <1>1, SentFacts DEF Spelled
<1>3. DataZone = sent /\ Len(sent) \in Nat
  BY SentFacts DEF SentAs, Arrived, DataZone
<1>4. Head(todo) \in ReadType /\ offset \in Nat
  BY <1>3 DEF TypeOK
<1>5. Head(todo).w \in Nat
  BY <1>4 DEF ReadType, PlainRead, FlagsRead, RepeatRead, GnssRead
<1> QED BY <1>2, <1>3, <1>4, <1>5 DEF Remaining

LEMMA ReportStays ==
  /\ [Next]_vars => UNCHANGED frame
  /\ Next /\ frame.kind = "report" /\ status # "scanning" =>
        \/ RejectFrame \/ StartReport \/ FailDataZone \/ ReadOn \/ ReadFails
        \/ LeaveBlock \/ FinishReport \/ \E b \in 0..31 : SkipBit(b) \/ StartField(b)
<1>1. [Next]_vars => UNCHANGED frame
  BY DEF Next, vars, RejectFrame, StartReport, FailDataZone, ParseOtherKind, StartAscii, PassField,
         TakeFence, BreakScan, FinishScan, SkipBit, StartField, ReadOn, ReadFails, LeaveBlock,
         FinishReport
<1>2. frame.kind = "report" /\ status # "scanning" =>
          ~ (ParseOtherKind \/ StartAscii \/ PassField \/ TakeFence \/ BreakScan \/ FinishScan)
  BY DEF ParseOtherKind, StartAscii, PassField, TakeFence, BreakScan, FinishScan
<1> QED BY <1>1, <1>2 DEF Next

LEMMA StepReport == TypeOK /\ ReportInv /\ [Next]_vars => ReportInv'
<1> SUFFICES ASSUME TypeOK, ReportInv, [Next]_vars, frame.kind = "report" PROVE ReportInv'
  BY ReportStays DEF ReportInv
<1>a. UNCHANGED frame
  BY ReportStays
<1>b. status # "scanning" /\ HonestLength(frame) /\ Begins /\ Unwarned /\ AdasRead
  BY DEF ReportInv
<1>c. PICK sent \in Seq(0..255) : \E marks : SentAs(sent, marks) /\ InStep(sent, marks)
  BY DEF ReportInv
<1>d. PICK marks : SentAs(sent, marks) /\ InStep(sent, marks)
  BY <1>c
<1>e. SentAs(sent, marks)' /\ HonestLength(frame)' /\ AdvFields' = AdvFields
  BY <1>a, <1>b, <1>d DEF SentAs, Arrived, IsReport, HonestLength, AdvFields
<1> SUFFICES /\ status' # "scanning" /\ Begins' /\ Unwarned' /\ AdasRead' /\ InStep(sent, marks)'
  BY <1>e DEF ReportInv
<1>1. CASE RejectFrame
  BY <1>1, <1>a, <1>b, <1>e DEF RejectFrame, Begins, Unwarned, AdasRead, InStep, Good
<1>2. CASE StartReport
  <2>1. Aligned(sent, marks, -1)'
    BY <1>2, <1>b, <1>d, BeginAligned
  <2>2. frame.whole => LengthWarning = {}
    BY <1>b DEF HonestLength, LengthWarning
  <2>3. AdasRead'
    BY <1>2, <1>a, <1>b, <1>e DEF StartReport, AdasRead, Begins, Good
  <2> QED BY <1>2, <1>a, <1>b, <2>1, <2>2, <2>3 DEF StartReport, Begins, Unwarned, InStep
<1>3. CASE FailDataZone
  <2>1. Len(DataZone) < REPORT_PREFIX_BYTES
    BY <1>3 DEF FailDataZone
  <2>2. ~ frame.whole
    BY <1>d, <2>1 DEF SentAs, Arrived, IsReport, DataZone, REPORT_PREFIX_BYTES
  <2>3. ~ Good'
    BY <1>3 DEF FailDataZone, Good
  <2> QED BY <1>3, <1>a, <2>2, <2>3 DEF FailDataZone, Begins, Unwarned, AdasRead, InStep
<1>4. ASSUME NEW b \in 0..31, SkipBit(b)
      PROVE  status' # "scanning" /\ Begins' /\ Unwarned' /\ AdasRead' /\ InStep(sent, marks)'
  <2>1. status = "decoding" /\ status' = "decoding" /\ AtBit(b) /\ (Good' => Good)
        /\ UNCHANGED <<block, decoded, adas>>
    BY <1>4 DEF SkipBit, AtBit, BetweenFields, Good
  <2>2. Good => \E s \in Int : Aligned(sent, marks, s)
    BY <1>d, <2>1 DEF InStep
  <2>3. Good' => \E s \in Int : Aligned(sent, marks, s)'
    BY <1>4, <1>d, <2>1, <2>2, SkipAligned
  <2>4. Unwarned'
    <3> SUFFICES ASSUME frame.whole, ~ frame.opaque PROVE warnings' = {}
      BY <1>a DEF Unwarned
    <3>1. warnings = {} /\ Good
      BY <1>b DEF Unwarned, Good
    <3>2. b \in Announced(sent, frame.fields, block) /\ block \in Blocks
      BY <3>1, <1>d, <2>1, <2>2, NextBit DEF TypeOK
    <3>3. ~ HasUnknown(sent, frame.fields)
      BY <1>d DEF SentAs, IsReport
    <3> QED BY <1>4, <3>1, <3>2, <3>3 DEF SkipBit, HasUnknown
  <2>5. AdasRead'
    BY <1>a, <1>b, <1>e, <2>1 DEF AdasRead
  <2> QED BY <2>1, <2>3, <2>4, <2>5 DEF Begins, InStep
<1>5. ASSUME NEW b \in 0..31, StartField(b)
      PROVE  status' # "scanning" /\ Begins' /\ Unwarned' /\ AdasRead' /\ InStep(sent, marks)'
  <2>1. status = "decoding" /\ status' = "decoding" /\ UNCHANGED <<block, decoded, adas, warnings>>
    BY <1>5 DEF StartField, AtBit, BetweenFields
  <2>2. Good' => \E s \in Int : Aligned(sent, marks, s)'
    BY <1>5, <1>d, <2>1, StartAligned DEF InStep, Good
  <2> QED BY <1>a, <1>b, <1>e, <2>1, <2>2 DEF Begins, InStep, Unwarned, AdasRead, Good
<1>6. CASE ReadOn
  <2>1. status = "decoding" /\ status' = "decoding" /\ UNCHANGED <<adas, warnings>> /\ todo # <<>>
    BY <1>6 DEF ReadOn
  <2>2. Good' => \E s \in Int : Aligned(sent, marks, s)'
    BY <1>6, <1>d, <2>1, ReadAligned DEF InStep, Good
  <2>3. AdasRead'
    <3> SUFFICES ASSUME Good, frame.whole, block' # "advanced1", AdvFields \subseteq decoded'
                 PROVE  adas = frame.adas
      BY <1>a, <1>e, <2>1 DEF AdasRead, Good
    <3>1. PICK s \in Int : Aligned(sent, marks, s)
      BY <1>d, <2>1 DEF InStep
    <3>2. field.blk = block /\ field \in FieldType
      BY <2>1, <3>1 DEF Aligned, AtMark, TypeOK
    <3>3. CASE UNCHANGED <<decoded, block>>
      BY <3>3, <1>b DEF AdasRead
    <3>4. CASE CompleteField(offset')
      <4>1. block # "advanced1"
        BY <3>2, <3>4 DEF CompleteField
      <4>2. [field EXCEPT !.to = offset'] \notin AdvFields
        BY <3>2, <4>1 DEF AdvFields, FieldType
      <4>3. AdvFields \subseteq decoded
        BY <3>4, <4>2 DEF CompleteField
      <4> QED BY <4>1, <4>3, <1>b DEF AdasRead
    <3> QED BY <3>3, <3>4, <1>6 DEF ReadOn
  <2> QED BY <1>a, <1>b, <2>1, <2>2, <2>3 DEF Begins, InStep, Unwarned
<1>7. CASE ReadFails
  <2>1. status = "decoding" /\ status' = "decoding" /\ todo # <<>> /\ Head(todo).w > Remaining
        /\ ~ Good'
    BY <1>7 DEF ReadFails, Good
  <2>2. ~ (frame.whole /\ ~ frame.opaque)
    BY <1>b, <1>d, <2>1, NeverShort DEF Unwarned, InStep, Good
  <2> QED BY <1>a, <2>1, <2>2 DEF Begins, InStep, Unwarned, AdasRead
<1>8. CASE LeaveBlock
  <2>1. status = "decoding" /\ status' = "decoding" /\ UNCHANGED <<decoded, warnings>>
        /\ todo = <<>> /\ block' = "report"
    BY <1>8 DEF LeaveBlock, BetweenFields
  <2>2. Good' => \E s \in Int : Aligned(sent, marks, s)'
    BY <1>8, <1>d, <2>1, LeaveAligned DEF InStep, Good
  <2>3. AdasRead'
    <3> SUFFICES ASSUME Good, frame.whole, AdvFields \subseteq decoded PROVE adas' = frame.adas
      BY <1>a, <1>e, <2>1 DEF AdasRead, Good
    <3>1. CASE block = "advanced1"
      <4>1. decoded \subseteq frame.fields
        BY <1>d, <2>1 DEF InStep, Aligned, Between
      <4> QED BY <1>8, <1>d, <3>1, <4>1, AdasTaken DEF LeaveBlock
    <3>2. CASE block # "advanced1"
      BY <1>8, <1>b, <3>2 DEF LeaveBlock, AdasRead
    <3> QED BY <3>1, <3>2
  <2> QED BY <1>a, <1>b, <2>1, <2>2, <2>3 DEF Begins, InStep, Unwarned
<1>9. CASE FinishReport
  <2>1. status = "decoding" /\ status' = "done" /\ UNCHANGED <<decoded, offset, block, adas, warnings>>
    BY <1>9 DEF FinishReport, BetweenFields
  <2>2. Good' => decoded = frame.fields /\ offset = Len(sent) /\ block = "report"
    BY <1>9, <1>d, <2>1, FinishAligned DEF InStep, Good
  <2> QED BY <1>a, <1>b, <1>e, <2>1, <2>2 DEF Begins, InStep, Unwarned, AdasRead, Good
<1>10. CASE UNCHANGED vars
  <2>1. \A s : Aligned(sent, marks, s) => Aligned(sent, marks, s)'
    BY <1>10 DEF vars, Aligned, InBlock, Between, AtMark, Bits, Ahead
  <2>2. InStep(sent, marks)'
    BY <1>10, <1>d, <2>1 DEF vars, InStep, Good
  <2> QED BY <1>10, <1>b, <1>e, <2>2 DEF vars, Begins, Unwarned, AdasRead, Good
<1> QED BY <1>b, <1>1, <1>2, <1>3, <1>4, <1>5, <1>6, <1>7, <1>8, <1>9, <1>10, ReportStays

THEOREM ReportInvariance == DeviceSends => (Spec => []ReportInv)
<1> SUFFICES ASSUME DeviceSends PROVE Spec => []ReportInv
  OBVIOUS
<1>1. Init => ReportInv
  BY InitReport
<1> QED BY <1>1, StepReport, TypeCorrect, PTL DEF Spec

\* A report that arrives whole and holds fields of any number and length that
\* the parser knows is decoded field by field from the bytes they are in.
THEOREM WholeDecoded == DeviceSends => (Spec => []WholeReportDecoded)
<1>1. ReportInv => WholeReportDecoded
  <2> SUFFICES ASSUME ReportInv, status = "done", frame.kind = "report", frame.whole, ~ frame.opaque
               PROVE  /\ decoded = frame.fields /\ adas = frame.adas
                      /\ offset = Len(DataZone) /\ warnings = {}
    BY DEF WholeReportDecoded
  <2>1. warnings = {} /\ Good
    BY DEF ReportInv, Unwarned, Good
  <2>2. PICK sent \in Seq(0..255) : \E marks : SentAs(sent, marks) /\ InStep(sent, marks)
    BY DEF ReportInv
  <2>3. decoded = frame.fields /\ offset = Len(sent) /\ block = "report" /\ DataZone = sent
    BY <2>1, <2>2 DEF InStep, SentAs, Arrived, DataZone
  <2>4. adas = frame.adas
    BY <2>1, <2>3 DEF ReportInv, AdasRead, AdvFields
  <2> QED BY <2>1, <2>3, <2>4
<1> QED BY <1>1, ReportInvariance, PTL

\* Wherever a report is cut and whatever unknown fields it holds, one that
\* does not give exactly the device's fields carries a warning.
THEOREM NeverWrongSilently == DeviceSends => (Spec => []NeverSilentlyWrong)
<1>1. ReportInv => NeverSilentlyWrong
  BY DEF ReportInv, InStep, Good, NeverSilentlyWrong
<1> QED BY <1>1, ReportInvariance, PTL

----------------------------------------------------------------------------
(***************************************************************************)
(* Why parseFrame() ends, whatever lengths, counts and masks it reads.     *)
(* Every step of the loops over the masks makes something smaller: the     *)
(* first of these that a step changes are the bytes ahead of the cursor,   *)
(* the bits of the Data Mask, the nested blocks left open, the bits of the *)
(* nested mask and the reads of the field.                                 *)
(***************************************************************************)
FewerBits(bits, new) == new \subseteq bits /\ new # bits

LoopAdvances ==
    \/ offset < offset'
    \/ UNCHANGED offset /\ FewerBits(topBits, topBits')
    \/ UNCHANGED <<offset, topBits>> /\ block # "report" /\ block' = "report"
    \/ UNCHANGED <<offset, topBits, block>> /\ FewerBits(blockBits, blockBits')
    \/ UNCHANGED <<offset, topBits, block, blockBits>> /\ Len(todo') < Len(todo)

Advances ==
    \/ status = "framed" /\ status' # "framed"
    \/ status \in {"decoding", "scanning"} /\ status' = "done"
    \/ status = "scanning" /\ UNCHANGED status /\ scanAt \in 1..Len(frame.text) /\ scanAt < scanAt'
    \/ status = "decoding" /\ UNCHANGED status /\ LoopAdvances

\* The mask of a nested block is one read of four bytes.
MaskIsOneRead ==
    todo # <<>> /\ field.blk = "report" /\ field.bit \in DOMAIN NestedBlock
        => todo = Reads(<<4>>)

LEMMA FourBytes ==
  /\ Head(Reads(<<4>>)).w = 4 /\ Follow(Head(Reads(<<4>>))) \o Tail(Reads(<<4>>)) = <<>>
<1>1. Reads(<<4>>) = <<Read(4)>>
  BY DEF Reads
<1>2. Head(<<Read(4)>>) = Read(4) /\ Tail(<<Read(4)>>) = <<>>
  OBVIOUS
<1>3. Read(4).w = 4 /\ Follow(Read(4)) = <<>>
  BY DEF Read, Follow
<1>4. Head(Reads(<<4>>)) = Read(4) /\ Tail(Reads(<<4>>)) = <<>>
  BY <1>1, <1>2, Zenon
<1>5. <<>> \o <<>> = <<>>
  OBVIOUS
<1> QED BY <1>3, <1>4, <1>5, Zenon

LEMMA StepMask == TypeOK /\ MaskIsOneRead /\ [Next]_vars => MaskIsOneRead'
<1> SUFFICES ASSUME TypeOK, MaskIsOneRead, [Next]_vars PROVE MaskIsOneRead'
  OBVIOUS
<1>1. ASSUME NEW b \in 0..31, StartField(b) PROVE MaskIsOneRead'
  <2>1. field' = [blk |-> block, bit |-> b, from |-> offset, to |-> offset]
        /\ todo' = FieldReads(block, b)
    BY <1>1 DEF StartField
  <2>2. field'.blk = block /\ field'.bit = b
    BY <2>1
  <2>3. b \in DOMAIN NestedBlock => ReportReads(b) = Reads(<<4>>)
    BY DEF ReportReads, NestedBlock
  <2>4. block = "report" => FieldReads(block, b) = ReportReads(b)
    BY DEF FieldReads
  <2>5. NestedBlock' = NestedBlock
    BY DEF NestedBlock
  <2> QED BY <2>1, <2>2, <2>3, <2>4, <2>5 DEF MaskIsOneRead
<1>2. CASE ReadOn
  <2>1. todo # <<>> /\ field' = field /\ todo' = Follow(Head(todo)) \o Tail(todo)
    BY <1>2 DEF ReadOn
  <2>2. todo = Reads(<<4>>) => todo' = <<>>
    BY <2>1, FourBytes
  <2> QED BY <2>1, <2>2 DEF MaskIsOneRead, NestedBlock
<1>3. CASE ReadFails
  BY <1>3 DEF ReadFails, MaskIsOneRead
<1>4. ASSUME UNCHANGED <<field, todo>> PROVE MaskIsOneRead'
  BY <1>4 DEF MaskIsOneRead, NestedBlock
<1>5. ASSUME NEW b \in 0..31, SkipBit(b) PROVE UNCHANGED <<field, todo>>
  BY <1>5 DEF SkipBit
<1>6. CASE \/ RejectFrame \/ StartReport \/ FailDataZone \/ ParseOtherKind \/ StartAscii \/ PassField
           \/ TakeFence \/ BreakScan \/ FinishScan \/ LeaveBlock \/ FinishReport \/ UNCHANGED vars
  BY <1>6, <1>4 DEF RejectFrame, StartReport, FailDataZone, ParseOtherKind, StartAscii, PassField,
                    TakeFence, BreakScan, FinishScan, LeaveBlock, FinishReport, vars
<1> QED BY <1>1, <1>2, <1>3, <1>4, <1>5, <1>6 DEF Next

\* A bit is taken out of the mask of the innermost loop.
LEMMA BitTaken ==
  ASSUME TypeOK, NEW b \in 0..31, AtBit(b), ConsumeBit(b), UNCHANGED <<offset, block>>
  PROVE  LoopAdvances
<1>1. ASSUME NEW bits \in SUBSET (0..31), bits # {}, b = Min(bits)
      PROVE  FewerBits(bits, bits \ {b})
  <2>1. bits \in SUBSET Nat
    BY <1>1
  <2>2. b \in bits
    BY <1>1, <2>1, MinIsLeast
  <2> QED BY <2>2 DEF FewerBits
<1>2. topBits \in SUBSET (0..31) /\ blockBits \in SUBSET (0..31)
  BY DEF TypeOK
<1>3. CASE block = "report"
  <2>1. topBits # {} /\ b = Min(topBits) /\ topBits' = topBits \ {b}
    BY <1>3 DEF AtBit, ConsumeBit
  <2> QED BY <1>1, <1>2, <2>1 DEF LoopAdvances
<1>4. CASE block # "report"
  <2>1. blockBits # {} /\ b = Min(blockBits) /\ blockBits' = blockBits \ {b} /\ topBits' = topBits
    BY <1>4 DEF AtBit, ConsumeBit
  <2> QED BY <1>1, <1>2, <2>1 DEF LoopAdvances
<1> QED BY <1>3, <1>4

\* A read takes bytes, or is one of no width, which nothing follows.
LEMMA ReadAdvances == TypeOK /\ MaskIsOneRead /\ ReadOn => LoopAdvances
<1> SUFFICES ASSUME TypeOK, MaskIsOneRead, ReadOn PROVE LoopAdvances
  OBVIOUS
<1>1. /\ todo \in Seq(ReadType) /\ todo # <<>> /\ offset \in Nat
      /\ offset' = offset + Head(todo).w /\ topBits' = topBits
      /\ todo' = Follow(Head(todo)) \o Tail(todo)
  BY DEF TypeOK, ReadOn
<1>2. Head(todo) \in ReadType
  BY <1>1
<1>3. Head(todo).w \in Nat /\ (Head(todo).w = 0 => Head(todo).then = "nothing")
  BY <1>2 DEF ReadType, PlainRead, FlagsRead, RepeatRead, GnssRead
<1>4. CASE Head(todo).w = 0
  <2>1. Follow(Head(todo)) = <<>>
    BY <1>3, <1>4 DEF Follow
  <2>2. todo' = Tail(todo) /\ Len(todo') < Len(todo)
    <3>1. Tail(todo) \in Seq(ReadType) /\ Len(Tail(todo)) < Len(todo)
      BY <1>1
    <3>2. <<>> \o Tail(todo) = Tail(todo)
      BY <3>1
    <3> QED BY <1>1, <2>1, <3>1, <3>2
  <2>3. ~ (field.blk = "report" /\ field.bit \in DOMAIN NestedBlock)
    BY <1>1, <1>4, FourBytes DEF MaskIsOneRead
  <2>4. block' = block /\ blockBits' = blockBits
    BY <2>3 DEF ReadOn, CompleteField
  <2> QED BY <1>1, <1>4, <2>2, <2>4 DEF LoopAdvances
<1>5. CASE Head(todo).w # 0
  BY <1>1, <1>3, <1>5 DEF LoopAdvances
<1> QED BY <1>4, <1>5

\* A read that fails empties the mask of its loop, and the field.
LEMMA FailureAdvances == TypeOK /\ ReadFails => LoopAdvances
<1> SUFFICES ASSUME TypeOK, ReadFails PROVE LoopAdvances
  OBVIOUS
<1>1. todo \in Seq(ReadType) /\ todo # <<>> /\ todo' = <<>> /\ offset' = offset /\ block' = block
  BY DEF TypeOK, ReadFails
<1>2. Len(todo') < Len(todo)
  BY <1>1
<1>3. topBits' \subseteq topBits /\ blockBits' \subseteq blockBits
      /\ (topBits' = topBits \/ blockBits' = blockBits)
  BY DEF ReadFails
<1> QED BY <1>1, <1>2, <1>3 DEF LoopAdvances, FewerBits

LEMMA StepAdvances == TypeOK /\ ScanStarts /\ MaskIsOneRead /\ [Next]_vars => [Advances]_vars
<1> SUFFICES ASSUME TypeOK, ScanStarts, MaskIsOneRead, Next PROVE Advances
  OBVIOUS
<1>1. CASE RejectFrame \/ StartReport \/ FailDataZone \/ ParseOtherKind \/ StartAscii
  BY <1>1 DEF RejectFrame, StartReport, FailDataZone, ParseOtherKind, StartAscii, Advances
<1>2. CASE PassField
  BY <1>2 DEF PassField, Advances, TypeOK, ScanStarts
<1>3. CASE TakeFence
  <2>1. frame.text \in Seq(Token) /\ scanAt \in Nat \ {0}
    BY DEF TypeOK, FrameType, ScanStarts
  <2>2. RecordEnd(frame.text, scanAt) > scanAt
    BY <1>3, <2>1, FenceAtType DEF TakeFence, RecordIsGood
  <2> QED BY <1>3, <2>1, <2>2 DEF TakeFence, Advances
<1>4. CASE BreakScan \/ FinishScan
  BY <1>4 DEF BreakScan, FinishScan, Advances
<1>5. ASSUME NEW b \in 0..31, SkipBit(b) \/ StartField(b) PROVE Advances
  <2>1. /\ AtBit(b) /\ ConsumeBit(b) /\ UNCHANGED <<offset, block>>
        /\ status = "decoding" /\ status' = status
    BY <1>5 DEF SkipBit, StartField, AtBit, BetweenFields
  <2> QED BY <2>1, BitTaken DEF Advances
<1>6. CASE ReadOn
  BY <1>6, ReadAdvances DEF ReadOn, Advances
<1>7. CASE ReadFails
  BY <1>7, FailureAdvances DEF ReadFails, Advances
<1>8. CASE LeaveBlock
  BY <1>8 DEF LeaveBlock, BetweenFields, Advances, LoopAdvances
<1>9. CASE FinishReport
  BY <1>9 DEF FinishReport, BetweenFields, Advances
<1> QED BY <1>1, <1>2, <1>3, <1>4, <1>5, <1>6, <1>7, <1>8, <1>9 DEF Next

\* Every step of parseFrame() gets on: on no frame, whatever its bytes say,
\* does a loop go round without using up bytes, bits or reads.
THEOREM ParseAdvances == Spec => [][Advances]_vars
<1>1. Init => MaskIsOneRead
  BY DEF Init, MaskIsOneRead
<1>2. Spec => []MaskIsOneRead
  BY <1>1, StepMask, TypeCorrect, PTL DEF Spec
<1> QED BY <1>2, StepAdvances, TypeInvariance, PTL DEF Spec
=============================================================================
