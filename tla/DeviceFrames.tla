---------------------------- MODULE DeviceFrames ----------------------------
(***************************************************************************)
(* What a device sends, said without the decoder's loops: which frames are *)
(* reports and fence lists of the protocol, and what may have become of    *)
(* them on the way.  The theorems about the decoder hold for every set of  *)
(* such frames; MCReportDecoder evaluates the definitions on its own.      *)
(***************************************************************************)
EXTENDS ReportDecoder

\* The bytes that arrived are the first ones of the data zone that was sent;
\* of a whole frame they are all there and the Length field says so.
Arrived(f, sent) ==
    /\ Len(DataZoneOf(f)) <= Len(sent)
    /\ DataZoneOf(f) = SubSeq(sent, 1, Len(DataZoneOf(f)))
    /\ f.whole => DataZoneOf(f) = sent

HonestLength(f) == f.whole => f.body[1] * 256 + f.body[2] = Len(f.body) - 2

----------------------------------------------------------------------------
(* Reports.                                                                *)

\* The Data Mask bit that announces the mask of a nested block.
MaskBit(blk) ==
    CASE blk = "event" -> 8  [] blk = "can1" -> 9   [] blk = "can2" -> 10
      [] blk = "electric1" -> 11  [] blk = "can3" -> 23  [] blk = "advanced1" -> 24

MaskField(g, blk) == g.blk = "report" /\ g.bit = MaskBit(blk)

\* The bits set in the mask of a block; no nested mask, no bits.
Announced(zone, fields, blk) ==
    IF blk = "report" THEN BitsIn(zone, REPORT_PREFIX_BYTES - 4, 4)
    ELSE UNION { BitsIn(zone, g.from, 4) : g \in { h \in fields : MaskField(h, blk) } }

\* The fields are the ones the masks announce.  A field this decoder does not
\* know may have bytes of its own or none.
InMasks(zone, fields) ==
    /\ \A g \in fields : /\ g.bit \in Announced(zone, fields, g.blk)
                         /\ <<g.blk, g.bit>> \notin Reserved
    /\ \A blk \in Blocks : \A b \in Announced(zone, fields, blk) :
          FieldReads(blk, b) # <<>> => \E g \in fields : g.blk = blk /\ g.bit = b
    /\ \A g, h \in fields : g.blk = h.blk /\ g.bit = h.bit => g = h

\* A mask comes before the fields it announces, those by their bits.
Place(g) == IF g.blk = "report" THEN 33 * g.bit ELSE 33 * MaskBit(g.blk) + g.bit + 1

\* The first of some fields starts at the given byte; without fields it is the end.
StartAt(fields, at, end) ==
    IF fields = {} THEN at = end
    ELSE \E g \in fields : g.from = at /\ \A h \in fields : Place(g) <= Place(h)

After(fields, g) == { h \in fields : Place(h) > Place(g) }

\* The fields lie one behind the other, from the mask to the end of the zone.
InOrder(fields, end) ==
    /\ StartAt(fields, REPORT_PREFIX_BYTES, end)
    /\ \A g \in fields : StartAt(After(fields, g), g.to, end)

\* x is the sequence body, count times over.
IsRepetition(x, count, body) ==
    /\ x \in Seq(ReadType)
    /\ Len(x) = count * Len(body)
    /\ \A k \in 0..(count - 1), j \in 1..Len(body) : x[k * Len(body) + j] = body[j]

\* What a value says of the ones that follow it.
Asks(r, zone, at, x) ==
    CASE r.then = "nothing" -> x = <<>>
      [] r.then = "bytes"   -> x = <<Read(zone[at + 1])>>
      [] r.then = "repeat"  -> IsRepetition(x, zone[at + 1], r.body)
      [] r.then = "flags"   -> x = Chosen(r.body, BitsIn(zone, at, 1))
      [] r.then = "gnss"    -> x = <<CountOf(FixReads(BitsIn(zone, at, 2)))>>

(***************************************************************************)
(* The device wrote each field value by value.  A mark is a place between  *)
(* two of its values: the field, the position, the values still to come    *)
(* and those that the next one asks for.                                   *)
(***************************************************************************)
Spelled(zone, fields, marks) ==
    /\ \A g \in fields : FieldReads(g.blk, g.bit) # <<>> =>
          \E m \in marks : m.field = g /\ m.at = g.from /\ m.rest = FieldReads(g.blk, g.bit)
    /\ \A m \in marks :
          IF m.rest = <<>> THEN m.at = m.field.to
          ELSE /\ m.at + Head(m.rest).w <= Len(zone)
               /\ Asks(Head(m.rest), zone, m.at, m.asked)
               /\ \E n \in marks : /\ n.field = m.field
                                   /\ n.at = m.at + Head(m.rest).w
                                   /\ n.rest = m.asked \o Tail(m.rest)

\* Some bit that is set stands for a field this decoder does not know.
HasUnknown(zone, fields) ==
    \E blk \in Blocks : \E b \in Announced(zone, fields, blk) :
        FieldReads(blk, b) = <<>> /\ <<blk, b>> \notin Reserved

\* The fields of an AdvCAN PID that have data bytes.
PidFields(fields, pid) ==
    { g \in fields : g.blk = "advanced1" /\ g.bit = pid - 1 /\ g.to > g.from + 1 }

\* A camera that reports (PID 1) raises a warning by a 1 in its own PID.
Raised(zone, fields) ==
    { a \in AdasTypes : /\ PidFields(fields, 1) # {}
                        /\ \E g \in PidFields(fields, AdasPid[a]) : zone[g.from + 2] = 1 }

IsReport(f, sent, marks) ==
    /\ Len(sent) >= REPORT_PREFIX_BYTES
    /\ InMasks(sent, f.fields)
    /\ InOrder(f.fields, Len(sent))
    /\ Spelled(sent, f.fields, marks)
    /\ f.opaque = HasUnknown(sent, f.fields)
    /\ f.adas = Raised(sent, f.fields)

ReportFromDevice(f) ==
    /\ HonestLength(f)
    /\ \E sent \in Seq(0..255) : Arrived(f, sent) /\ \E marks : IsReport(f, sent, marks)

----------------------------------------------------------------------------
(* Fence lists.                                                            *)

IsNumber(token, n) == token.word = "number" /\ token.value = n

\* The fields from start on are the record of the fence.
RecordAt(text, start, fence) ==
    /\ Len(fence.head) = 4 /\ Len(fence.tail) = 4
    /\ fence.head[4] - fence.head[3] + 1 = Len(fence.points)
    /\ RecordLast(start, fence) <= Len(text)
    /\ text[start].word = "PEO"
    /\ \A k \in 1..4 : IsNumber(text[start + k], fence.head[k])
    /\ \A p \in 1..Len(fence.points) :
          /\ Len(fence.points[p]) = 2
          /\ \A k \in 1..2 : IsNumber(text[start + 2 + 2 * p + k], fence.points[p][k])
    /\ \A k \in 1..4 : IsNumber(text[start + 4 + 2 * Len(fence.points) + k], fence.tail[k])

\* The text lists the fences, one behind the other; between and before them
\* is anything but the word PEO.
IsFenceList(text, starts, list) ==
    /\ starts \in Seq(Nat \ {0})
    /\ Len(starts) = Len(list)
    /\ \A k \in 1..Len(list) : RecordAt(text, starts[k], list[k])
    /\ \A j, k \in 1..Len(list) : j < k => RecordLast(starts[j], list[j]) < starts[k]
    /\ \A i \in 1..Len(text) : text[i].word = "PEO" => \E k \in 1..Len(list) : starts[k] = i

\* What is left of a field cut within: nothing, or the first digits.
LeftOf(token, sent) ==
    \/ token.word = "empty"
    \/ /\ token.word = "number"
       /\ sent.word = "number" => FirstDigits(token.value, sent.value)

\* What arrives of a text: some fields unreadable, the end cut off, and with
\* it all of the last field or the last digits of the number it was.
Degraded(text, sent) ==
    /\ Len(text) <= Len(sent)
    /\ \A i \in 1..Len(text) :
          \/ text[i] = sent[i]
          \/ text[i].word = "text"
          \/ i = Len(text) /\ LeftOf(text[i], sent[i])

ListFromDevice(f) ==
    /\ HonestLength(f)
    /\ \E sent \in Seq(Token), starts \in Seq(Nat \ {0}) :
          /\ IsFenceList(sent, starts, f.fences)
          /\ Degraded(f.text, sent)
          /\ f.whole => f.text = sent

----------------------------------------------------------------------------
FromDevice(f) ==
    /\ f.kind = "report" => ReportFromDevice(f)
    /\ f.kind = "ascii" => ListFromDevice(f)

DeviceSends == \A f \in Frames : FromDevice(f)
=============================================================================
