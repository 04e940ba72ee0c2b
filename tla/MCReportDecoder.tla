-------------------------- MODULE MCReportDecoder --------------------------
(***************************************************************************)
(* The device's side: reports put together field by field, and cut short   *)
(* at every length, as the splitter's fallback does when a data byte is    *)
(* 0x23 (FrameSplitter, run splitter_hash_in_data).                        *)
(***************************************************************************)
EXTENDS DeviceFrames, SequencesExt

Part(blk, bit, bytes) == [blk |-> blk, bit |-> bit, bytes |-> bytes]

MaskBytes(bits, w) ==
    [i \in 1..w |-> MapThenSumSet(LAMBDA b : IF b \div 8 = w - i THEN 2 ^ (b % 8) ELSE 0, bits)]

\* A nested block: the mask, then the fields it announces.
Nested(bit, blk, fields) ==
    << Part("report", bit, MaskBytes({fields[i][1] : i \in DOMAIN fields}, 4)) >>
      \o [i \in DOMAIN fields |-> Part(blk, fields[i][1], fields[i][2])]

Plain(bit, bytes) == <<Part("report", bit, bytes)>>

\* What a report can be made of, in the order of the Data Mask bits.
Pieces == <<
    Plain(0, <<2, 1>>),
    Plain(1, <<4>>),
    Plain(2, <<15, 160, 80>>),
    \* two fixes of speed and satellites: gps and beidou, then none
    Plain(3, <<1, 4, 2,  0, 60, 3, 7, 5,  0, 61, 0>>),
    Plain(4, <<2, 208, 0, 1, 0, 9, 0, 0, 0, 7, 31>>),
    Plain(5, <<>>),
    Plain(7, <<1, 0, 0>>),
    Nested(8, "event", << <<2, <<1>>>>, <<6, <<>>>>, <<8, <<2, 1, 9>>>>,
                          <<9, <<2,  1, 2, 3, 4, 5, 6, 7, 8, 1, 0, 5,
                                     8, 7, 6, 5, 4, 3, 2, 1, 2, 50>>>> >>),
    Nested(9, "can1", << <<0, <<2, 87, 1>>>>, <<5, <<0, 90>>>>, <<9, <<40, 2>>>> >>),
    Nested(10, "can2", << <<24, <<1, 1, 3, 0>>>>, <<29, <<1, 17, 0, 8, 0, 9, 1, 0>>>> >>),
    Nested(11, "electric1", << <<3, <<200>>>>, <<4, <<0, 1>>>> >>),
    Nested(11, "electric1", << <<3, <<200>>>>, <<13, <<0, 1>>>> >>),
    Plain(12, <<1, 1, 128, 0, 0, 1>>),
    Nested(23, "can3", << <<8, <<3>>>> >>),
    Nested(24, "advanced1", << <<0, <<1, 1>>>>, <<6, <<1, 1>>>>, <<7, <<1, 0>>>> >>),
    Nested(24, "advanced1", << <<5, <<1, 1>>>> >>)
>>

TopBit(i) == Pieces[i][1].bit

PieceSets(n) ==
    { S \in SUBSET (1..Len(Pieces)) :
        Cardinality(S) <= n /\ \A i, j \in S : i = j \/ TopBit(i) # TopBit(j) }

\* The parts of a report, in order.
PartsOf(S) ==
    LET chosen == SelectSeq([i \in 1..Len(Pieces) |-> i], LAMBDA i : i \in S)
    IN  FlattenSeq([i \in DOMAIN chosen |-> Pieces[chosen[i]]])

\* Where in the data zone each one is.
FieldsOf(parts) ==
    LET start[i \in 1..(Len(parts) + 1)] ==
            IF i = 1 THEN REPORT_PREFIX_BYTES ELSE start[i - 1] + Len(parts[i - 1].bytes)
    IN  { [blk |-> parts[i].blk, bit |-> parts[i].bit, from |-> start[i], to |-> start[i + 1]] :
            i \in { j \in DOMAIN parts : parts[j].bytes # <<>> } }

ZoneOf(S, parts) ==
    <<6, 1, 30, 1>> \o MaskBytes({TopBit(i) : i \in S}, 4)
      \o FlattenSeq([i \in DOMAIN parts |-> parts[i].bytes])

\* The binary section around a data zone; the Length counts what follows it.
BodyOf(zone) ==
    <<0, Len(zone) + 18>> \o <<134, 85, 70, 1, 2, 3, 4, 5>> \o <<110>>
      \o zone \o <<7, 234, 1, 2, 3, 4, 5>> \o <<0, 9>>

Frame(kind, body) ==
    [kind |-> kind, body |-> body, fields |-> {}, adas |-> {}, opaque |-> FALSE, whole |-> TRUE,
     text |-> <<>>, fences |-> <<>>]

Report(S) ==
    LET parts == PartsOf(S)
    IN  [kind |-> "report", body |-> BodyOf(ZoneOf(S, parts)), fields |-> FieldsOf(parts),
         adas |-> IF 15 \in S THEN {"LWDL"} ELSE {}, opaque |-> {12, 13} \cap S # {},
         whole |-> TRUE, text |-> <<>>, fences |-> <<>>]

\* The report with only the first n bytes of its binary section.
Cut(report, n) ==
    [report EXCEPT !.body = SubSeq(report.body, 1, n), !.whole = (n = Len(report.body))]

CutReports(size) ==
    UNION { {Cut(r, n) : n \in 20..Len(r.body)} : r \in {Report(S) : S \in PieceSets(size)} }

(***************************************************************************)
(* Where the device wrote each value, found by writing the fields out.     *)
(***************************************************************************)
AskedFor(r, zone, at) ==
    CASE r.then = "nothing" -> <<>>
      [] r.then = "bytes"   -> <<Read(zone[at + 1])>>
      [] r.then = "repeat"  -> FlattenSeq([i \in 1..zone[at + 1] |-> r.body])
      [] r.then = "flags"   -> Chosen(r.body, BitsIn(zone, at, 1))
      [] r.then = "gnss"    -> <<CountOf(FixReads(BitsIn(zone, at, 2)))>>

RECURSIVE MarksFrom(_, _, _, _)
MarksFrom(g, zone, at, rest) ==
    IF rest = <<>> THEN {[field |-> g, at |-> at, rest |-> <<>>, asked |-> <<>>]}
    ELSE LET asked == AskedFor(Head(rest), zone, at)
         IN  {[field |-> g, at |-> at, rest |-> rest, asked |-> asked]}
               \cup MarksFrom(g, zone, at + Head(rest).w, asked \o Tail(rest))

MarksOf(zone, fields) ==
    UNION { MarksFrom(g, zone, g.from, FieldReads(g.blk, g.bit)) :
              g \in { h \in fields : FieldReads(h.blk, h.bit) # <<>> } }

\* The reports below are reports a device can send.
ASSUME ReportsAreReports ==
    \A S \in PieceSets(3) :
        LET zone == ZoneOf(S, PartsOf(S))
            r    == Report(S)
        IN  /\ IsReport(r, zone, MarksOf(zone, r.fields))
            /\ Arrived(r, zone) /\ HonestLength(r)

ASSUME CutReportsArrived ==
    \A S \in PieceSets(2) : \A n \in 20..Len(Report(S).body) :
        Arrived(Cut(Report(S), n), ZoneOf(S, PartsOf(S)))

Others ==
    { Frame("heartbeat", BodyOf(<<6, 1>>)), Frame("heartbeat", BodyOf(<<6>>)),
      Frame("hex", BodyOf(<<1>>)),
      [Frame("report", <<0, 1, 9>>) EXCEPT !.whole = FALSE] }

----------------------------------------------------------------------------
(* ASCII frames with fence lists.                                          *)

Number(n)  == [word |-> "number", value |-> n]
Word(w)    == [word |-> w, value |-> 0]
Numbers(s) == [i \in DOMAIN s |-> Number(s[i])]

\* Fences without a point, with one and with two; the tails all differ.
Fence(id, start, points) ==
    [head |-> <<id, 1, start, start + Len(points) - 1>>, points |-> points,
     tail |-> <<30, 2, 60 + id, 10 + id>>]

Fences == {Fence(4, 1, <<>>), Fence(5, 1, <<<<34, 32>>>>), Fence(6, 3, <<<<35, 31>>, <<36, 30>>>>)}

RecordOf(f) ==
    <<Word("PEO")>> \o Numbers(f.head) \o FlattenSeq([i \in DOMAIN f.points |-> Numbers(f.points[i])])
      \o Numbers(f.tail)

\* A command key and the records, each followed by other fields or by none
TextOf(list, gap) ==
    <<Word("text")>> \o FlattenSeq([i \in DOMAIN list |-> RecordOf(list[i]) \o gap])

StartsOf(list, gap) ==
    LET start[k \in 1..Len(list)] ==
            IF k = 1 THEN 2 ELSE start[k - 1] + Len(RecordOf(list[k - 1]) \o gap)
    IN  start

Texts(list) == { TextOf(list, <<>>), TextOf(list, <<Number(7)>>) }

AsciiFrame(text, list, whole) ==
    [Frame("ascii", BodyOf(<<1>>)) EXCEPT !.text = text, !.fences = list, !.whole = whole]

\* What is left of a field cut within.
CutField(token) ==
    IF token.word = "number" THEN {token, Word("empty"), Number(token.value \div 10)}
                             ELSE {token, Word("empty"), Word("text")}

CutTexts(text) ==
    UNION { {SubSeq(text, 1, n - 1) \o <<t>> : t \in CutField(text[n])} : n \in 1..Len(text) }

DamagedTexts(text) == { [text EXCEPT ![n] = Word("text")] : n \in 1..Len(text) }

FenceLists == UNION { [1..n -> Fences] : n \in 0..2 }

AsciiFrames ==
    UNION { {AsciiFrame(text, l, TRUE) : text \in Texts(l)}
              \cup {AsciiFrame(t, l, FALSE) :
                       t \in UNION { CutTexts(text) \cup DamagedTexts(text) : text \in Texts(l) }}
            : l \in FenceLists }

\* And the lists are lists a device can send, or what arrives of one.
ASSUME ListsAreLists ==
    \A list \in FenceLists, gap \in {<<>>, <<Number(7)>>} :
        LET text == TextOf(list, gap)
        IN  /\ IsFenceList(text, StartsOf(list, gap), list)
            /\ \A t \in {text} \cup CutTexts(text) \cup DamagedTexts(text) : Degraded(t, text)
            /\ HonestLength(AsciiFrame(text, list, TRUE))

MCFrames    == AsciiFrames \cup CutReports(2) \cup {Report(S) : S \in PieceSets(3)} \cup Others
MCCutFrames == CutReports(2)
MCCutLists  == UNION { {AsciiFrame(t, l, FALSE) : t \in CutTexts(TextOf(l, <<>>))} : l \in FenceLists }
============================================================================
