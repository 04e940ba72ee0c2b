-------------------------- MODULE FenceScan_proofs --------------------------
(***************************************************************************)
(* Proofs about the fence scan of ReportDecoder, for every text of any     *)
(* length.  A record has no length of its own, so all rests on one fact:   *)
(* a record whose numbers are all there ends where the device ended it.    *)
(***************************************************************************)
EXTENDS ReportDecoder_proofs, FiniteSetTheorems

LEMMA SeqByIndex ==
  ASSUME NEW S, NEW s \in Seq(S)
  PROVE  s = [k \in 1..Len(s) |-> s[k]]
  OBVIOUS

LEMMA AllFiniteMember ==
  ASSUME NEW text, NEW i \in Nat, NEW n \in Nat, AllFinite(text, i, n), NEW j \in i..(i + n - 1)
  PROVE  Finite(text, j)
<1>1. j - i \in 0..(n - 1)
  OBVIOUS
<1>2. Finite(text, i + (j - i))
  BY <1>1 DEF AllFinite
<1> QED BY <1>2

\* All the fields of a good record are there and are numbers or empty.
LEMMA GoodRecord ==
  ASSUME NEW text \in Seq(Token), NEW s \in Nat \ {0}, RecordIsGood(text, s)
  PROVE  /\ PointCount(text, s) \in Nat
         /\ RecordEnd(text, s) = s + 9 + 2 * PointCount(text, s)
         /\ \A j \in (s + 1)..(RecordEnd(text, s) - 1) : Finite(text, j)
         /\ RecordEnd(text, s) - 1 <= Len(text)
<1> DEFINE P == PointCount(text, s)
<1>1. HeadIsGood(text, s) /\ AllFinite(text, s + 5, 2 * P + 4)
  BY DEF RecordIsGood
<1>2. P \in Nat
  BY <1>1, FenceAtType
<1> HIDE DEF P
<1>3. RecordEnd(text, s) = s + 9 + 2 * P
  BY <1>2 DEF RecordEnd, TailStart, P
<1>4. ASSUME NEW j \in (s + 1)..(s + 8 + 2 * P) PROVE Finite(text, j)
  <2>1. CASE j <= s + 4
    <3>1. AllFinite(text, s + 1, 4)
      BY <1>1 DEF HeadIsGood
    <3>2. j \in (s + 1)..(s + 1 + 4 - 1)
      BY <1>2, <2>1
    <3> QED BY <3>1, <3>2, AllFiniteMember
  <2>2. CASE j > s + 4
    <3>1. j \in (s + 5)..(s + 5 + (2 * P + 4) - 1)
      BY <1>2, <2>2
    <3>2. 2 * P + 4 \in Nat /\ s + 5 \in Nat
      BY <1>2
    <3> QED BY <1>1, <3>1, <3>2, AllFiniteMember
  <2> QED BY <1>2, <2>1, <2>2
<1>5. Finite(text, s + 8 + 2 * P)
  BY <1>2, <1>4
<1>6. s + 8 + 2 * P <= Len(text)
  BY <1>5 DEF Finite
<1> QED BY <1>2, <1>3, <1>4, <1>6 DEF P

\* A number of the device's that arrived readable before the end is unchanged.
LEMMA SameField ==
  ASSUME NEW text \in Seq(Token), NEW sent, Degraded(text, sent),
         NEW j \in Nat \ {0}, Finite(text, j), j < Len(text),
         NEW n \in Nat, IsNumber(sent[j], n)
  PROVE  Num(text, j) = n
<1>1. j \in 1..Len(text)
  OBVIOUS
<1>2. text[j] = sent[j] \/ text[j].word = "text"
  BY <1>1 DEF Degraded
<1>3. text[j].word \in {"number", "empty"}
  BY DEF Finite
<1> QED BY <1>2, <1>3 DEF Num, IsNumber

\* And at the end it is the first digits of what was sent, or nothing.
LEMMA LastField ==
  ASSUME NEW text \in Seq(Token), NEW sent, Degraded(text, sent),
         NEW j \in 1..Len(text), Finite(text, j), NEW n, IsNumber(sent[j], n)
  PROVE  FirstDigits(Num(text, j), n)
<1>1. text[j].word \in {"number", "empty"}
  BY DEF Finite
<1>2. text[j] = sent[j] \/ LeftOf(text[j], sent[j])
  BY <1>1 DEF Degraded
<1>3. FirstDigits(n, n) /\ FirstDigits(0, n)
  BY Zenon DEF FirstDigits
<1>4. CASE text[j].word = "empty"
  BY <1>3, <1>4, Zenon DEF Num
<1>5. CASE text[j].word = "number"
  <2>1. Num(text, j) = text[j].value /\ sent[j].word = "number" /\ sent[j].value = n
    BY <1>5 DEF Num, IsNumber
  <2>2. text[j].word # "empty"
    BY <1>5
  <2> QED BY <1>2, <1>3, <2>1, <2>2, Zenon DEF LeftOf
<1> QED BY <1>1, <1>4, <1>5

\* The record that starts at s, of which all that the scan looks at is there,
\* is the fence the device sent; only the very last field of the text can be
\* the first digits of what was sent.
LEMMA RecordDecoded ==
  ASSUME NEW text \in Seq(Token), NEW sent \in Seq(Token), Degraded(text, sent),
         NEW s \in Nat \ {0}, NEW e \in FenceType, RecordAt(sent, s, e), RecordIsGood(text, s)
  PROVE  /\ RecordEnd(text, s) = RecordLast(s, e) + 1
         /\ \/ FenceAt(text, s) = e
            \/ /\ RecordLast(s, e) = Len(text)
               /\ FenceAt(text, s).points = e.points
               /\ CutInLast(FenceAt(text, s), e)
<1> DEFINE P == PointCount(text, s)
           last == RecordLast(s, e)
<1>1. /\ P \in Nat
      /\ RecordEnd(text, s) = s + 9 + 2 * P
      /\ \A j \in (s + 1)..(s + 8 + 2 * P) : Finite(text, j)
      /\ s + 8 + 2 * P <= Len(text)
  <2>1. RecordEnd(text, s) - 1 = s + 8 + 2 * P
    BY GoodRecord
  <2> QED BY <2>1, GoodRecord
<1>2. e.head \in Seq(Nat) /\ e.points \in Seq(Seq(Nat)) /\ e.tail \in Seq(Nat)
  BY DEF FenceType
<1>17. Len(e.head) = 4 /\ Len(e.tail) = 4
  BY DEF RecordAt
<1>3. \A k \in 1..4 : e.head[k] \in Nat /\ e.tail[k] \in Nat
  BY <1>2, <1>17, ElementOfSeq
<1>4. ASSUME NEW k \in 1..4 PROVE Num(text, s + k) = e.head[k]
  <2>1. s + k \in (s + 1)..(s + 8 + 2 * P) /\ s + k < Len(text) /\ s + k \in Nat \ {0}
    BY <1>1
  <2>2. IsNumber(sent[s + k], e.head[k])
    BY DEF RecordAt
  <2> QED BY <1>1, <1>3, <2>1, <2>2, SameField
<1>5. P = Len(e.points)
  BY <1>4 DEF PointCount, RecordAt
<1>6. last = s + 8 + 2 * P
  BY <1>5 DEF RecordLast
<1>7. Nums(text, s + 1, 4) = e.head
  <2>1. \A k \in 1..4 : Num(text, s + 1 + k - 1) = e.head[k]
    <3>1. \A k \in 1..4 : s + 1 + k - 1 = s + k
      OBVIOUS
    <3> QED BY <3>1, <1>4
  <2>2. Nums(text, s + 1, 4) = [k \in 1..4 |-> e.head[k]]
    BY <2>1 DEF Nums
  <2>3. e.head = [k \in 1..Len(e.head) |-> e.head[k]]
    BY <1>2, SeqByIndex
  <2> QED BY <1>17, <2>2, <2>3
<1>8. ASSUME NEW p \in 1..P PROVE Nums(text, s + 3 + 2 * p, 2) = e.points[p]
  <2>1. e.points[p] \in Seq(Nat) /\ Len(e.points[p]) = 2
    BY <1>2, <1>5, ElementOfSeq DEF RecordAt
  <2>2. ASSUME NEW k \in 1..2 PROVE Num(text, s + 3 + 2 * p + k - 1) = e.points[p][k]
    <3> DEFINE j == s + 2 + 2 * p + k
    <3>1. j \in (s + 1)..(s + 8 + 2 * P) /\ j < Len(text) /\ j \in Nat \ {0}
      BY <1>1
    <3>2. IsNumber(sent[j], e.points[p][k])
      BY <1>5 DEF RecordAt
    <3>3. e.points[p][k] \in Nat
      BY <2>1
    <3>4. Num(text, j) = e.points[p][k]
      BY <1>1, <3>1, <3>2, <3>3, SameField
    <3>5. s + 3 + 2 * p + k - 1 = j
      BY <1>1
    <3> QED BY <3>4, <3>5
  <2>3. Nums(text, s + 3 + 2 * p, 2) = [k \in 1..2 |-> e.points[p][k]]
    BY <2>2 DEF Nums
  <2>4. e.points[p] = [k \in 1..Len(e.points[p]) |-> e.points[p][k]]
    BY <2>1, SeqByIndex
  <2> QED BY <2>1, <2>3, <2>4
<1>9. FenceAt(text, s).points = e.points
  <2>1. [p \in 1..P |-> Nums(text, s + 3 + 2 * p, 2)] = [p \in 1..P |-> e.points[p]]
    BY <1>8
  <2>2. e.points = [p \in 1..Len(e.points) |-> e.points[p]]
    BY <1>2, SeqByIndex
  <2> QED BY <2>1, <2>2, <1>5 DEF FenceAt
<1>10. ASSUME NEW k \in 1..4, k < 4 \/ last < Len(text)
       PROVE  Num(text, TailStart(text, s) + k - 1) = e.tail[k]
  <2> DEFINE j == s + 4 + 2 * P + k
  <2>1. j \in (s + 1)..(s + 8 + 2 * P) /\ j < Len(text) /\ j \in Nat \ {0}
    <3>1. P \in Nat /\ s + 8 + 2 * P <= Len(text) /\ Len(text) \in Nat
      BY <1>1
    <3>2. k < 4 \/ s + 8 + 2 * P < Len(text)
      BY <1>6, <1>10
    <3> HIDE DEF P
    <3> QED BY <3>1, <3>2
  <2>2. IsNumber(sent[j], e.tail[k])
    BY <1>5 DEF RecordAt
  <2>3. Num(text, j) = e.tail[k]
    BY <1>1, <1>3, <2>1, <2>2, SameField
  <2>5. TailStart(text, s) = s + 5 + 2 * P
    BY DEF TailStart
  <2>6. \A q \in Nat : s + 5 + 2 * q + k - 1 = s + 4 + 2 * q + k
    OBVIOUS
  <2>4. TailStart(text, s) + k - 1 = j
    BY <1>1, <2>5, <2>6
  <2> QED BY <2>3, <2>4
<1> DEFINE t == Nums(text, TailStart(text, s), 4)
<1>11. t = [k \in 1..4 |-> Num(text, TailStart(text, s) + k - 1)]
  BY DEF Nums
<1>12. e.tail = [k \in 1..4 |-> e.tail[k]]
  <2>1. e.tail = [k \in 1..Len(e.tail) |-> e.tail[k]]
    BY <1>2, SeqByIndex
  <2> QED BY <2>1, <1>17
<1>13. FenceAt(text, s) = [head |-> e.head, points |-> e.points, tail |-> t]
  BY <1>7, <1>9 DEF FenceAt
<1>14. e = [head |-> e.head, points |-> e.points, tail |-> e.tail]
  BY DEF FenceType
<1>15. CASE last < Len(text)
  <2>1. t = e.tail
    BY <1>10, <1>11, <1>12, <1>15
  <2> QED BY <2>1, <1>1, <1>6, <1>13, <1>14
<1>16. CASE last = Len(text)
  <2>1. [t EXCEPT ![4] = e.tail[4]] = e.tail
    <3>1. \A k \in 1..4 : [t EXCEPT ![4] = e.tail[4]][k] = e.tail[k]
      BY <1>10, <1>11
    <3>2. DOMAIN [t EXCEPT ![4] = e.tail[4]] = 1..4
      BY <1>11
    <3> QED BY <3>1, <3>2, <1>11, <1>12
  <2>2. FirstDigits(t[4], e.tail[4])
    <3> DEFINE j == s + 4 + 2 * P + 4
    <3>1. j \in (s + 1)..(s + 8 + 2 * P) /\ j \in 1..Len(text)
      BY <1>1
    <3>2. \A k \in 1..4 : IsNumber(sent[s + 4 + 2 * Len(e.points) + k], e.tail[k])
      BY DEF RecordAt
    <3>3. PICK k \in 1..4 : k = 4
      OBVIOUS
    <3>4. IsNumber(sent[j], e.tail[4])
      BY <3>2, <3>3, <1>5
    <3>5. Finite(text, j)
      BY <3>1, <1>1
    <3>6. FirstDigits(Num(text, j), e.tail[4])
      BY <3>1, <3>4, <3>5, LastField
    <3>7. TailStart(text, s) + 4 - 1 = j
      <4>1. TailStart(text, s) = s + 5 + 2 * P
        BY DEF TailStart
      <4>2. \A q \in Nat : s + 5 + 2 * q + 4 - 1 = s + 4 + 2 * q + 4
        OBVIOUS
      <4> QED BY <1>1, <4>1, <4>2
    <3>8. t[4] = Num(text, TailStart(text, s) + 4 - 1)
      BY <1>11
    <3> QED BY <3>6, <3>7, <3>8, Zenon
  <2>3. [FenceAt(text, s) EXCEPT !.tail[4] = e.tail[4]] = e /\ FenceAt(text, s).tail = t
    BY <2>1, <1>13, <1>14
  <2>4. CutInLast(FenceAt(text, s), e)
    BY <2>2, <2>3, Zenon DEF CutInLast
  <2> QED BY <2>4, <1>1, <1>6, <1>9, <1>16
<1> QED BY <1>1, <1>6, <1>15, <1>16

\* A record that is all there parses.
LEMMA RecordParses ==
  ASSUME NEW text \in Seq(Token), NEW s \in Nat \ {0}, NEW e \in FenceType, RecordAt(text, s, e)
  PROVE  RecordIsGood(text, s)
<1> DEFINE P == Len(e.points)
<1>1. P \in Nat /\ s + 8 + 2 * P <= Len(text) /\ Len(text) \in Nat
  <2>1. e.points \in Seq(Seq(Nat))
    BY DEF FenceType
  <2>2. Len(e.points) \in Nat /\ Len(text) \in Nat
    BY <2>1
  <2> QED BY <2>2 DEF RecordAt, RecordLast
<1> HIDE DEF P
<1>2. ASSUME NEW j \in Nat, j <= Len(text), NEW n, IsNumber(text[j], n)
      PROVE  Finite(text, j) /\ Num(text, j) = n
  BY <1>2 DEF IsNumber, Finite, Num
<1>3. ASSUME NEW k \in 1..4 PROVE Finite(text, s + k) /\ Num(text, s + k) = e.head[k]
  <2>1. s + k \in Nat /\ s + k <= Len(text)
    BY <1>1
  <2>2. IsNumber(text[s + k], e.head[k])
    BY DEF RecordAt
  <2> QED BY <1>2, <2>1, <2>2
<1>4. PointCount(text, s) = P
  BY <1>3 DEF PointCount, RecordAt, P
<1>5. AllFinite(text, s + 1, 4)
  <2>1. \A k \in 0..3 : Finite(text, s + 1 + k)
    <3>1. \A k \in 0..3 : s + 1 + k = s + (k + 1) /\ k + 1 \in 1..4
      OBVIOUS
    <3> QED BY <3>1, <1>3
  <2> QED BY <2>1 DEF AllFinite
<1>6. ASSUME NEW k \in 0..(2 * P + 3) PROVE Finite(text, s + 5 + k)
  <2> DEFINE j == s + 5 + k
  <2>1. j \in Nat /\ j <= Len(text)
    BY <1>1
  <2>2. CASE k < 2 * P
    <3>1. PICK p \in 1..P, i \in 1..2 : k = 2 * p - 3 + i
      <4>1. \E p \in 1..P : k = 2 * p - 2 \/ k = 2 * p - 1
        <5>1. k \div 2 + 1 \in 1..P
          BY <1>1, <2>2
        <5>2. k = 2 * (k \div 2 + 1) - 2 \/ k = 2 * (k \div 2 + 1) - 1
          BY <1>1
        <5> QED BY <5>1, <5>2
      <4>2. PICK p \in 1..P : k = 2 * p - 2 \/ k = 2 * p - 1
        BY <4>1
      <4>3. k = 2 * p - 3 + 1 \/ k = 2 * p - 3 + 2
        BY <4>2, <1>1
      <4> QED BY <4>3
    <3>2. j = s + 2 + 2 * p + i
      BY <3>1, <1>1
    <3>3. IsNumber(text[s + 2 + 2 * p + i], e.points[p][i])
      BY DEF RecordAt, P
    <3> QED BY <1>2, <2>1, <3>2, <3>3
  <2>3. CASE k >= 2 * P
    <3> DEFINE i == k - 2 * P + 1
    <3>1. i \in 1..4 /\ j = s + 4 + 2 * P + i
      BY <1>1, <2>3
    <3>2. IsNumber(text[s + 4 + 2 * P + i], e.tail[i])
      BY <3>1 DEF RecordAt, P
    <3> QED BY <1>2, <2>1, <3>1, <3>2
  <2> QED BY <1>1, <2>2, <2>3
<1>7. AllFinite(text, s + 5, 2 * P + 4)
  <2> DEFINE n == 2 * P + 4
             i == s + 5
  <2>1. \A k \in 0..(n - 1) : k \in 0..(2 * P + 3)
    BY <1>1
  <2>2. \A k \in 0..(n - 1) : Finite(text, i + k)
    BY <1>6, <2>1, Zenon
  <2> HIDE DEF n, i
  <2>3. AllFinite(text, i, n)
    BY <2>2 DEF AllFinite
  <2> QED BY <2>3 DEF n, i
<1> QED BY <1>1, <1>4, <1>5, <1>7 DEF RecordIsGood, HeadIsGood

\* And is the fence that was sent, to the last number.
LEMMA WholeRecordDecoded ==
  ASSUME NEW text \in Seq(Token), NEW s \in Nat \ {0}, NEW e \in FenceType, RecordAt(text, s, e)
  PROVE  FenceAt(text, s) = e
<1> DEFINE x == FenceAt(text, s)
           last == RecordLast(s, e)
<1>1. RecordIsGood(text, s)
  BY RecordParses
<1>2. Degraded(text, text)
  BY DEF Degraded
<1>3. RecordEnd(text, s) = last + 1 /\ (x = e \/ CutInLast(x, e))
  BY <1>1, <1>2, RecordDecoded
<1>4. last = s + 8 + 2 * Len(e.points) /\ Len(e.points) \in Nat /\ last <= Len(text)
  BY DEF RecordLast, RecordAt, FenceType
<1>5. PointCount(text, s) \in Nat
  BY <1>1, GoodRecord
<1>6. TailStart(text, s) = last - 3
  <2>1. TailStart(text, s) \in Int
    BY <1>5 DEF TailStart
  <2>2. RecordEnd(text, s) = TailStart(text, s) + 4
    BY DEF RecordEnd
  <2>3. last \in Int
    BY <1>4
  <2> QED BY <1>3, <2>1, <2>2, <2>3
<1>7. x.tail = [k \in 1..4 |-> Num(text, TailStart(text, s) + k - 1)]
  BY DEF FenceAt, Nums
<1>8. x.tail[4] = Num(text, last)
  <2>1. x.tail[4] = Num(text, TailStart(text, s) + 4 - 1)
    BY <1>7
  <2>2. TailStart(text, s) + 4 - 1 = last
    BY <1>4, <1>6
  <2> QED BY <2>1, <2>2
<1>9. Num(text, last) = e.tail[4]
  <2>1. \A k \in 1..4 : IsNumber(text[s + 4 + 2 * Len(e.points) + k], e.tail[k])
    BY DEF RecordAt
  <2>3. PICK k \in 1..4 : k = 4
    OBVIOUS
  <2>2. s + 4 + 2 * Len(e.points) + k = last
    <3>1. \A q \in Nat : s + 4 + 2 * q + k = s + 8 + 2 * q
      BY <2>3
    <3> QED BY <3>1, <1>4
  <2>4. IsNumber(text[last], e.tail[4])
    BY <2>1, <2>2, <2>3
  <2> HIDE DEF last
  <2> QED BY <2>4, <1>4 DEF IsNumber, Num, Finite
<1>10. [x.tail EXCEPT ![4] = e.tail[4]] = x.tail
  BY <1>7, <1>8, <1>9
<1>11. x = [head |-> x.head, points |-> x.points, tail |-> x.tail]
  BY DEF FenceAt
<1>12. [x EXCEPT !.tail[4] = e.tail[4]] = x
  BY <1>10, <1>11
<1> QED BY <1>3, <1>12 DEF CutInLast

----------------------------------------------------------------------------
(* The steps of the scan.                                                  *)

LEMMA FrameStays == [Next]_vars => UNCHANGED frame
  BY DEF Next, vars, RejectFrame, StartReport, FailDataZone, ParseOtherKind, StartAscii, PassField,
         TakeFence, BreakScan, FinishScan, SkipBit, StartField, ReadOn, ReadFails, LeaveBlock,
         FinishReport

\* What an ASCII frame does.
LEMMA AsciiStep ==
  ASSUME frame.kind = "ascii", status # "decoding", [Next]_vars
  PROVE  \/ RejectFrame \/ StartAscii \/ PassField \/ TakeFence \/ BreakScan \/ FinishScan
         \/ UNCHANGED vars
  BY DEF Next, StartReport, FailDataZone, ParseOtherKind, SkipBit, StartField, AtBit, BetweenFields,
         ReadOn, ReadFails, LeaveBlock, FinishReport

PeoBefore(text, n) == { k \in 1..Len(text) : text[k].word = "PEO" /\ k < n }

(***************************************************************************)
(* As long as the scan does not break off, it has found a fence for every  *)
(* word PEO it has passed: there is none within a record that parses.      *)
(***************************************************************************)
CountInv ==
    frame.kind = "ascii" =>
        /\ status # "decoding"
        /\ status = "framed" => scanAt = 1 /\ fences = <<>>
        /\ "peo" \in warnings \/ Cardinality(PeoBefore(frame.text, scanAt)) = Len(fences)
        /\ status = "done" => "peo" \in warnings \/ scanAt > Len(frame.text)

ScanInv == TypeOK /\ ScanStarts /\ CountInv

LEMMA InitCount == Init => CountInv
<1> SUFFICES ASSUME Init PROVE CountInv
  OBVIOUS
<1>1. scanAt = 1 /\ fences = <<>> /\ status = "framed"
  BY DEF Init
<1>2. PeoBefore(frame.text, 1) = {}
  BY DEF PeoBefore
<1>3. Cardinality(PeoBefore(frame.text, 1)) = Len(<<>>)
  BY <1>2, FS_EmptySet
<1> QED BY <1>1, <1>3 DEF CountInv

LEMMA StepCount == ScanInv /\ [Next]_vars => CountInv'
<1> SUFFICES ASSUME ScanInv, [Next]_vars, frame.kind = "ascii" PROVE CountInv'
  BY FrameStays DEF CountInv
<1> DEFINE text == frame.text
<1>a. text \in Seq(Token) /\ scanAt \in Nat \ {0} /\ fences \in Seq(FenceType) /\ text' = text
  BY FrameStays DEF ScanInv, TypeOK, FrameType, ScanStarts
<1>b. /\ status # "decoding"
      /\ status = "framed" => scanAt = 1 /\ fences = <<>>
      /\ "peo" \in warnings \/ Cardinality(PeoBefore(text, scanAt)) = Len(fences)
      /\ status = "done" => "peo" \in warnings \/ scanAt > Len(text)
  BY DEF ScanInv, CountInv
<1>1. CASE RejectFrame
  BY <1>1, <1>a, <1>b DEF RejectFrame, CountInv
<1>2. CASE StartAscii
  <2>1. scanAt = 1 /\ fences = <<>> /\ scanAt' = 1 /\ fences' = <<>> /\ status' = "scanning"
    BY <1>2, <1>b DEF StartAscii
  <2>2. PeoBefore(text, 1) = {}
    BY <1>a DEF PeoBefore
  <2>3. Cardinality(PeoBefore(text, 1)) = Len(<<>>)
    BY <2>2, FS_EmptySet
  <2> QED BY <2>1, <2>3, <1>a DEF CountInv
<1>3. CASE PassField
  <2>1. PeoBefore(text, scanAt + 1) = PeoBefore(text, scanAt)
    BY <1>3, <1>a DEF PassField, PeoBefore
  <2> QED BY <1>3, <1>a, <1>b, <2>1 DEF PassField, CountInv
<1>4. CASE TakeFence
  <2> DEFINE end == RecordEnd(text, scanAt)
  <2>1. /\ PointCount(text, scanAt) \in Nat
        /\ end = scanAt + 9 + 2 * PointCount(text, scanAt)
        /\ \A j \in (scanAt + 1)..(end - 1) : Finite(text, j)
    BY <1>4, <1>a, GoodRecord DEF TakeFence
  <2>2. end \in Nat /\ end > scanAt
    BY <2>1, <1>a
  <2>3. \A j \in (scanAt + 1)..(end - 1) : text[j].word # "PEO"
    BY <2>1 DEF Finite
  <2>4. scanAt \in 1..Len(text) /\ text[scanAt].word = "PEO"
    BY <1>4, <1>a DEF TakeFence
  <2> HIDE DEF text, end
  <2>5. PeoBefore(text, end) = PeoBefore(text, scanAt) \cup {scanAt}
    BY <2>2, <2>3, <2>4, <1>a DEF PeoBefore
  <2>6. scanAt \notin PeoBefore(text, scanAt)
    BY <1>a DEF PeoBefore
  <2>7. IsFiniteSet(PeoBefore(text, scanAt))
    <3>1. IsFiniteSet(1..Len(text))
      BY <1>a, FS_Interval
    <3>2. PeoBefore(text, scanAt) \subseteq 1..Len(text)
      BY DEF PeoBefore
    <3> QED BY <3>1, <3>2, FS_Subset
  <2>8. Cardinality(PeoBefore(text, end)) = Cardinality(PeoBefore(text, scanAt)) + 1
    BY <2>5, <2>6, <2>7, FS_AddElement
  <2>9. Len(fences') = Len(fences) + 1 /\ scanAt' = end /\ UNCHANGED <<status, warnings>> /\ status = "scanning"
    BY <1>4, <1>a DEF TakeFence, text, end
  <2> QED BY <1>a, <1>b, <2>8, <2>9 DEF CountInv, text
<1>5. CASE BreakScan
  BY <1>5, <1>a DEF BreakScan, CountInv
<1>6. CASE FinishScan
  BY <1>6, <1>a, <1>b DEF FinishScan, CountInv
<1>7. CASE UNCHANGED vars
  BY <1>7, <1>b DEF vars, CountInv
<1> QED BY <1>b, <1>1, <1>2, <1>3, <1>4, <1>5, <1>6, <1>7, AsciiStep

THEOREM ScanInvariance == Spec => []ScanInv
<1>1. Spec => []CountInv
  <2>1. (TypeOK /\ ScanStarts) /\ CountInv /\ [Next]_vars => CountInv'
    BY StepCount DEF ScanInv
  <2> QED BY InitCount, <2>1, TypeInvariance, PTL DEF Spec
<1>2. (TypeOK /\ ScanStarts) /\ CountInv => ScanInv
  BY DEF ScanInv
<1> QED BY <1>1, <1>2, TypeInvariance, PTL

----------------------------------------------------------------------------
(* The fences found are the device's.                                      *)

Exact(i, k) == fences[i] = frame.fences[k]

\* The last fence of a text cut in its last number.
Shortened(i, k) ==
    /\ i = Len(fences)
    /\ scanAt > Len(frame.text)
    /\ EndsText(fences[i])
    /\ CutInLast(fences[i], frame.fences[k])

\* at says which of the device's fences each of those found is.
FoundAs(at, starts) ==
    /\ at \in [1..Len(fences) -> 1..Len(frame.fences)]
    /\ \A i \in 1..Len(fences) :
          /\ i > 1 => at[i - 1] < at[i]
          /\ starts[at[i]] < scanAt
          /\ Exact(i, at[i]) \/ Shortened(i, at[i])

\* Of a whole list: those whose records the scan has passed.
FoundAll(starts) ==
    /\ warnings = {}
    /\ Len(fences) <= Len(frame.fences)
    /\ \A k \in 1..Len(fences) : Exact(k, k)
    /\ \A k \in 1..Len(frame.fences) : starts[k] < scanAt <=> k <= Len(fences)

SoFar(sent, starts) ==
    /\ IsFenceList(sent, starts, frame.fences)
    /\ Degraded(frame.text, sent)
    /\ \E at : FoundAs(at, starts)
    /\ frame.whole => frame.text = sent /\ FoundAll(starts)

ListInv ==
    frame.kind = "ascii" =>
        /\ HonestLength(frame)
        /\ \E sent \in Seq(Token), starts \in Seq(Nat \ {0}) : SoFar(sent, starts)

\* A word PEO in what arrived is where the device put the record of a fence.
LEMMA PeoIsStart ==
  ASSUME NEW text, NEW sent, NEW starts, NEW list,
         Degraded(text, sent), IsFenceList(sent, starts, list), Len(text) \in Nat, Len(sent) \in Nat,
         NEW i \in 1..Len(text), text[i].word = "PEO"
  PROVE  \E k \in 1..Len(list) : starts[k] = i
<1>1. text[i] = sent[i]
  BY DEF Degraded, LeftOf
<1>2. i \in 1..Len(sent)
  BY DEF Degraded
<1> QED BY <1>1, <1>2 DEF IsFenceList

\* The k-th record, and how it lies to the others.
LEMMA RecordsApart ==
  ASSUME NEW sent, NEW starts, NEW list \in Seq(FenceType), IsFenceList(sent, starts, list),
         NEW k \in 1..Len(list)
  PROVE  /\ starts[k] \in Nat \ {0}
         /\ list[k] \in FenceType
         /\ RecordLast(starts[k], list[k]) \in Nat
         /\ RecordLast(starts[k], list[k]) > starts[k]
         /\ RecordAt(sent, starts[k], list[k])
         /\ \A j \in 1..Len(list) : j < k => RecordLast(starts[j], list[j]) < starts[k]
         /\ \A j \in 1..Len(list) : j < k => starts[j] < starts[k]
         /\ \A j \in 1..Len(list) : k < j => RecordLast(starts[k], list[k]) < starts[j]
<1>1. \A j \in 1..Len(list) : list[j] \in FenceType /\ starts[j] \in Nat \ {0}
  BY DEF IsFenceList
<1>2. \A j \in 1..Len(list) : Len(list[j].points) \in Nat
  <2>1. \A e \in FenceType : e.points \in Seq(Seq(Nat))
    BY DEF FenceType
  <2>2. \A e \in FenceType : Len(e.points) \in Nat
    BY <2>1
  <2> QED BY <1>1, <2>2
<1>3. \A j \in 1..Len(list) : /\ RecordLast(starts[j], list[j]) \in Nat
                              /\ RecordLast(starts[j], list[j]) > starts[j]
  <2>1. \A m, l \in Nat : m + 8 + 2 * l \in Nat /\ m + 8 + 2 * l > m
    OBVIOUS
  <2> QED BY <1>1, <1>2, <2>1 DEF RecordLast
<1>4. \A i, j \in 1..Len(list) : i < j => RecordLast(starts[i], list[i]) < starts[j]
  BY DEF IsFenceList
<1>5. RecordAt(sent, starts[k], list[k])
  BY DEF IsFenceList
<1> QED BY <1>1, <1>3, <1>4, <1>5

\* The scan comes to a fence: whose it is, and where it ends.
LEMMA FenceTaken ==
  ASSUME TypeOK, ScanStarts, TakeFence,
         NEW sent \in Seq(Token), NEW starts \in Seq(Nat \ {0}), SoFar(sent, starts)
  PROVE  \E k \in 1..Len(frame.fences) :
            LET new  == FenceAt(frame.text, scanAt)
                last == RecordLast(starts[k], frame.fences[k])
            IN  /\ starts[k] = scanAt
                /\ scanAt' = last + 1
                /\ \/ new = frame.fences[k]
                   \/ /\ last = Len(frame.text)
                      /\ new.points = frame.fences[k].points
                      /\ CutInLast(new, frame.fences[k])
<1> DEFINE text == frame.text
           list == frame.fences
<1>1. text \in Seq(Token) /\ list \in Seq(FenceType) /\ scanAt \in Nat \ {0}
  BY DEF TypeOK, FrameType, ScanStarts
<1>2. IsFenceList(sent, starts, list) /\ Degraded(text, sent)
  BY DEF SoFar
<1>3. scanAt \in 1..Len(text) /\ text[scanAt].word = "PEO" /\ RecordIsGood(text, scanAt)
  BY <1>1 DEF TakeFence
<1>8. Len(text) \in Nat /\ Len(sent) \in Nat
  BY <1>1
<1>9. scanAt' = RecordEnd(text, scanAt)
  BY DEF TakeFence
<1> HIDE DEF text, list
<1>4. PICK k \in 1..Len(list) : starts[k] = scanAt
  BY <1>2, <1>3, <1>8, PeoIsStart
<1>5. list[k] \in FenceType /\ RecordAt(sent, scanAt, list[k])
  BY <1>1, <1>2, <1>4, RecordsApart
<1>6. /\ RecordEnd(text, scanAt) = RecordLast(scanAt, list[k]) + 1
      /\ \/ FenceAt(text, scanAt) = list[k]
         \/ /\ RecordLast(scanAt, list[k]) = Len(text)
            /\ FenceAt(text, scanAt).points = list[k].points
            /\ CutInLast(FenceAt(text, scanAt), list[k])
  BY <1>1, <1>2, <1>3, <1>5, RecordDecoded
<1> QED BY <1>4, <1>6, <1>9 DEF text, list

LEMMA TakeFenceFound ==
  ASSUME TypeOK, ScanStarts, TakeFence,
         NEW sent \in Seq(Token), NEW starts \in Seq(Nat \ {0}), SoFar(sent, starts)
  PROVE  \E at : FoundAs(at, starts)'
<1> DEFINE list == frame.fences
           n    == Len(fences)
<1>1. /\ list \in Seq(FenceType) /\ scanAt \in Nat \ {0} /\ fences \in Seq(FenceType)
      /\ n \in Nat /\ Len(frame.text) \in Nat /\ scanAt <= Len(frame.text)
  BY DEF TypeOK, FrameType, ScanStarts, TakeFence
<1>2. IsFenceList(sent, starts, list)
  BY DEF SoFar
<1>3. PICK k \in 1..Len(list) :
        LET new  == FenceAt(frame.text, scanAt)
            last == RecordLast(starts[k], list[k])
        IN  /\ starts[k] = scanAt
            /\ scanAt' = last + 1
            /\ \/ new = list[k]
               \/ /\ last = Len(frame.text)
                  /\ new.points = list[k].points
                  /\ CutInLast(new, list[k])
  BY FenceTaken
<1>4. PICK at : FoundAs(at, starts)
  BY DEF SoFar
<1>5. /\ \A j \in 1..Len(list) : starts[j] \in Nat
      /\ \A j \in 1..Len(list) : k < j => starts[k] < starts[j]
      /\ RecordLast(starts[k], list[k]) \in Nat /\ RecordLast(starts[k], list[k]) > starts[k]
  BY <1>1, <1>2, RecordsApart
<1>6. /\ at \in [1..n -> 1..Len(list)]
      /\ \A i \in 1..n : /\ i > 1 => at[i - 1] < at[i]
                         /\ starts[at[i]] < scanAt
                         /\ fences[i] = list[at[i]]
  <2>1. \A i, j : ~ Shortened(i, j)
    BY <1>1 DEF Shortened
  <2> QED BY <1>4, <2>1 DEF FoundAs, Exact
<1>7. /\ fences' = Append(fences, FenceAt(frame.text, scanAt))
      /\ frame' = frame
  BY DEF TakeFence
<1>8. /\ Len(fences') = n + 1
      /\ \A i \in 1..n : fences'[i] = fences[i]
      /\ fences'[n + 1] = FenceAt(frame.text, scanAt)
  BY <1>1, <1>7
<1> PICK new : new = [i \in 1..(n + 1) |-> IF i = n + 1 THEN k ELSE at[i]]
  OBVIOUS
<1>9. new \in [1..(n + 1) -> 1..Len(list)]
  BY <1>1, <1>6
<1>17. new[n + 1] = k /\ \A i \in 1..n : new[i] = at[i]
  BY <1>1
<1>10. \A i \in 1..n : at[i] < k
  <2> SUFFICES ASSUME NEW i \in 1..n PROVE at[i] < k
    OBVIOUS
  <2>1. at[i] \in 1..Len(list)
    BY <1>6
  <2>2. starts[at[i]] < starts[k]
    BY <1>3, <1>6
  <2>3. starts[at[i]] \in Nat /\ starts[k] \in Nat /\ (k < at[i] => starts[k] < starts[at[i]])
    BY <1>1, <1>5, <2>1
  <2>4. ~ (k < at[i]) /\ k # at[i]
    BY <2>2, <2>3
  <2> QED BY <1>1, <2>1, <2>4
<1>11. \A i \in 1..(n + 1) : i > 1 => new[i - 1] < new[i]
  <2> SUFFICES ASSUME NEW i \in 1..(n + 1), i > 1 PROVE new[i - 1] < new[i]
    OBVIOUS
  <2>1. CASE i = n + 1
    <3>1. i - 1 \in 1..n
      BY <1>1, <2>1
    <3> QED BY <3>1, <2>1, <1>10, <1>17
  <2>2. CASE i \in 1..n
    <3>1. i - 1 \in 1..n
      BY <1>1, <2>2
    <3> QED BY <3>1, <2>2, <1>6, <1>17
  <2> QED BY <1>1, <2>1, <2>2
<1>12. \A i \in 1..(n + 1) : starts[new[i]] < scanAt'
  <2>1. scanAt' > scanAt /\ scanAt' \in Nat
    <3>1. /\ starts[k] = scanAt /\ scanAt' = RecordLast(starts[k], list[k]) + 1
          /\ RecordLast(starts[k], list[k]) \in Nat
          /\ RecordLast(starts[k], list[k]) > starts[k]
      BY <1>3, <1>5
    <3> QED BY <3>1, <1>1
  <2>2. \A i \in 1..n : starts[at[i]] \in Nat
    BY <1>5, <1>6
  <2>3. \A i \in 1..n : starts[new[i]] < scanAt'
    BY <1>1, <1>6, <1>17, <2>1, <2>2
  <2>4. starts[new[n + 1]] < scanAt'
    BY <1>3, <1>17, <2>1
  <2>5. \A i \in 1..(n + 1) : i \in 1..n \/ i = n + 1
    BY <1>1
  <2> QED BY <2>3, <2>4, <2>5
<1>13. \A i \in 1..n : fences'[i] = list[new[i]]
  BY <1>6, <1>8, <1>17
<1>14. \/ fences'[n + 1] = list[new[n + 1]]
       \/ /\ scanAt' > Len(frame.text)
          /\ EndsText(fences'[n + 1])
          /\ CutInLast(fences'[n + 1], list[new[n + 1]])
  <2>1. new[n + 1] = k
    BY <1>1
  <2>2. RecordLast(starts[k], list[k]) = Len(frame.text) => scanAt' > Len(frame.text)
    BY <1>1, <1>3
  <2> DEFINE x == FenceAt(frame.text, scanAt)
  <2>3. ASSUME RecordLast(starts[k], list[k]) = Len(frame.text), x.points = list[k].points
        PROVE  EndsText(x)
    <3>1. scanAt \in 1..Len(frame.text) /\ frame.text[scanAt].word = "PEO"
      BY <1>1 DEF TakeFence
    <3>2. RecordLast(scanAt, x) = Len(frame.text)
      BY <2>3, <1>3 DEF RecordLast
    <3> HIDE DEF x
    <3> QED BY <3>1, <3>2 DEF EndsText
  <2>4. x = list[k] \/ (/\ RecordLast(starts[k], list[k]) = Len(frame.text)
                        /\ x.points = list[k].points
                        /\ CutInLast(x, list[k]))
    BY <1>3
  <2>5. fences'[n + 1] = x
    BY <1>8
  <2> HIDE DEF x, n, list
  <2> QED BY <2>1, <2>2, <2>3, <2>4, <2>5
<1> HIDE DEF list
<1>15. \A i \in 1..(n + 1) : (Exact(i, new[i]) \/ Shortened(i, new[i]))'
  <2> SUFFICES ASSUME NEW i \in 1..(n + 1) PROVE (Exact(i, new[i]) \/ Shortened(i, new[i]))'
    OBVIOUS
  <2>1. CASE i \in 1..n
    BY <2>1, <1>7, <1>13 DEF Exact, list
  <2>2. CASE i = n + 1
    BY <2>2, <1>7, <1>8, <1>14 DEF Exact, Shortened, EndsText, list
  <2> QED BY <1>1, <2>1, <2>2
<1>16. FoundAs(new, starts)'
  BY <1>7, <1>8, <1>9, <1>11, <1>12, <1>15 DEF FoundAs, list
<1> QED BY <1>16

\* Of a whole list every record parses, and the scan takes it when it is next.
LEMMA TakeFenceAll ==
  ASSUME TypeOK, ScanStarts, TakeFence, frame.whole,
         NEW sent \in Seq(Token), NEW starts \in Seq(Nat \ {0}), SoFar(sent, starts)
  PROVE  FoundAll(starts)'
<1> DEFINE list == frame.fences
           n    == Len(fences)
<1>1. /\ list \in Seq(FenceType) /\ scanAt \in Nat \ {0} /\ fences \in Seq(FenceType)
      /\ n \in Nat /\ scanAt <= Len(frame.text) /\ Len(list) \in Nat
  BY DEF TypeOK, FrameType, ScanStarts, TakeFence
<1>2. IsFenceList(sent, starts, list) /\ FoundAll(starts) /\ sent = frame.text
  BY DEF SoFar
<1>3. /\ warnings = {} /\ n <= Len(list)
      /\ \A k \in 1..n : fences[k] = list[k]
      /\ \A k \in 1..Len(list) : starts[k] < scanAt <=> k <= n
  BY <1>2 DEF FoundAll, Exact
<1>4. PICK k \in 1..Len(list) :
        /\ starts[k] = scanAt
        /\ scanAt' = RecordLast(starts[k], list[k]) + 1
        /\ \/ FenceAt(frame.text, scanAt) = list[k]
           \/ RecordLast(starts[k], list[k]) = Len(frame.text)
  BY FenceTaken
<1>5. /\ \A j \in 1..Len(list) : starts[j] \in Nat
      /\ RecordLast(starts[k], list[k]) \in Nat /\ RecordLast(starts[k], list[k]) > starts[k]
      /\ RecordAt(sent, starts[k], list[k]) /\ list[k] \in FenceType
      /\ \A j \in 1..Len(list) : j < k => starts[j] < starts[k]
      /\ \A j \in 1..Len(list) : k < j => RecordLast(starts[k], list[k]) < starts[j]
  BY <1>1, <1>2, RecordsApart
<1>6. k = n + 1
  <2>1. ~ (k <= n)
    BY <1>3, <1>4, <1>5
  <2>2. n + 1 \in 1..Len(list) /\ ~ (n + 1 < k)
    <3>1. n + 1 \in 1..Len(list)
      BY <1>1, <2>1
    <3>2. n + 1 < k => starts[n + 1] < scanAt
      BY <1>4, <1>5, <3>1
    <3>3. ~ (n + 1 <= n)
      BY <1>1
    <3> QED BY <1>3, <3>1, <3>2, <3>3
  <2> QED BY <1>1, <2>1, <2>2
<1>7. FenceAt(frame.text, scanAt) = list[k]
  <2>1. frame.text \in Seq(Token)
    BY DEF TypeOK, FrameType
  <2>2. RecordAt(frame.text, scanAt, list[k])
    BY <1>2, <1>4, <1>5
  <2> QED BY <1>1, <1>5, <2>1, <2>2, WholeRecordDecoded
<1>8. /\ fences' = Append(fences, list[k]) /\ frame' = frame /\ warnings' = {}
  BY <1>3, <1>7 DEF TakeFence
<1>9. Len(fences') = n + 1 /\ (\A j \in 1..n : fences'[j] = fences[j]) /\ fences'[n + 1] = list[k]
  BY <1>1, <1>8
<1>10. \A j \in 1..Len(list) : starts[j] < scanAt' <=> j <= n + 1
  <2> SUFFICES ASSUME NEW j \in 1..Len(list) PROVE starts[j] < scanAt' <=> j <= n + 1
    OBVIOUS
  <2>1. CASE j <= n
    <3>1. starts[j] < starts[k] /\ starts[j] \in Nat
      BY <2>1, <1>1, <1>5, <1>6
    <3>2. starts[j] < scanAt'
      BY <3>1, <1>4, <1>5
    <3> QED BY <2>1, <3>2, <1>1
  <2>2. CASE j = n + 1
    BY <2>2, <1>4, <1>5, <1>6
  <2>3. CASE j > n + 1
    <3>1. RecordLast(starts[k], list[k]) < starts[j] /\ starts[j] \in Nat
      BY <2>3, <1>5, <1>6
    <3>2. ~ (starts[j] < scanAt')
      BY <3>1, <1>4, <1>5
    <3> QED BY <2>3, <3>2, <1>1
  <2>4. j \in Nat /\ n \in Nat
    BY <1>1
  <2> HIDE DEF n
  <2>5. j <= n \/ j = n + 1 \/ j > n + 1
    BY <2>4
  <2> QED BY <2>1, <2>2, <2>3, <2>5
<1>11. \A j \in 1..(n + 1) : fences'[j] = list[j]
  <2> SUFFICES ASSUME NEW j \in 1..(n + 1) PROVE fences'[j] = list[j]
    OBVIOUS
  <2>1. CASE j = n + 1
    BY <2>1, <1>6, <1>9
  <2>2. CASE j # n + 1
    <3>1. j \in 1..n
      BY <2>2, <1>1
    <3> QED BY <3>1, <1>3, <1>9
  <2> QED BY <2>1, <2>2
<1> QED BY <1>1, <1>6, <1>8, <1>9, <1>10, <1>11 DEF FoundAll, Exact

LEMMA InitList == DeviceSends /\ Init => ListInv
<1> SUFFICES ASSUME DeviceSends, Init, frame.kind = "ascii" PROVE ListInv
  BY DEF ListInv
<1>1. frame \in Frames /\ frame \in FrameType
  BY FramesAssumption DEF Init
<1>2. ListFromDevice(frame)
  BY <1>1 DEF DeviceSends, FromDevice
<1>3. PICK sent \in Seq(Token), starts \in Seq(Nat \ {0}) :
        /\ IsFenceList(sent, starts, frame.fences)
        /\ Degraded(frame.text, sent)
        /\ frame.whole => frame.text = sent
  BY <1>2 DEF ListFromDevice
<1>4. Len(frame.fences) \in Nat /\ \A k \in 1..Len(frame.fences) : starts[k] \in Nat \ {0}
  BY <1>1, <1>3 DEF FrameType, IsFenceList
<1>5. fences = <<>> /\ scanAt = 1 /\ warnings = {}
  BY DEF Init
<1>6. \E at : FoundAs(at, starts)
  <2>1. PICK at : at = [i \in 1..0 |-> 1]
    OBVIOUS
  <2>2. at \in [1..Len(fences) -> 1..Len(frame.fences)]
    BY <2>1, <1>5
  <2>3. FoundAs(at, starts)
    BY <2>2, <1>5 DEF FoundAs
  <2> QED BY <2>3
<1>7. FoundAll(starts)
  BY <1>4, <1>5 DEF FoundAll
<1>8. SoFar(sent, starts)
  BY <1>3, <1>6, <1>7 DEF SoFar
<1>9. HonestLength(frame)
  BY <1>2 DEF ListFromDevice
<1> QED BY <1>8, <1>9 DEF ListInv

\* A step of the scan that finds no fence.
LEMMA NothingTaken ==
  ASSUME TypeOK, NEW sent, NEW starts \in Seq(Nat \ {0}), SoFar(sent, starts),
         UNCHANGED <<frame, fences>>,
         scanAt' \in Nat, scanAt' >= scanAt,
         frame.whole => /\ UNCHANGED warnings
                        /\ \A k \in 1..Len(frame.fences) : starts[k] < scanAt' => starts[k] < scanAt
  PROVE  SoFar(sent, starts)'
<1>1. \A k \in 1..Len(frame.fences) : starts[k] \in Nat
  BY DEF SoFar, IsFenceList
<1>2. scanAt \in Nat /\ Len(frame.text) \in Nat
  BY DEF TypeOK, FrameType
<1>3. PICK at : FoundAs(at, starts)
  BY DEF SoFar
<1>4. \A i, k : Exact(i, k) => Exact(i, k)'
  BY DEF Exact
<1>5. \A i, k : Shortened(i, k) => Shortened(i, k)'
  BY <1>2 DEF Shortened, EndsText
<1>6. FoundAs(at, starts)'
  <2>1. at \in [1..Len(fences) -> 1..Len(frame.fences)]
    BY <1>3 DEF FoundAs
  <2>2. \A i \in 1..Len(fences) : starts[at[i]] < scanAt'
    <3> SUFFICES ASSUME NEW i \in 1..Len(fences) PROVE starts[at[i]] < scanAt'
      OBVIOUS
    <3>1. at[i] \in 1..Len(frame.fences)
      BY <2>1
    <3>2. starts[at[i]] < scanAt
      BY <1>3 DEF FoundAs
    <3>3. starts[at[i]] \in Nat
      BY <1>1, <3>1
    <3>4. \A p, q, r \in Nat : p < q /\ r >= q => p < r
      OBVIOUS
    <3> QED BY <1>2, <3>2, <3>3, <3>4
  <2> QED BY <1>3, <1>4, <1>5, <2>2 DEF FoundAs
<1>7. frame.whole => FoundAll(starts)'
  <2> SUFFICES ASSUME frame.whole PROVE FoundAll(starts)'
    OBVIOUS
  <2>1. FoundAll(starts)
    BY DEF SoFar
  <2>2. \A k \in 1..Len(frame.fences) : starts[k] < scanAt' <=> starts[k] < scanAt
    BY <1>1, <1>2
  <2> QED BY <2>1, <2>2, <1>4 DEF FoundAll
<1> QED BY <1>6, <1>7 DEF SoFar

LEMMA StepList == ScanInv /\ ListInv /\ [Next]_vars => ListInv'
<1> SUFFICES ASSUME ScanInv, ListInv, [Next]_vars, frame.kind = "ascii" PROVE ListInv'
  BY FrameStays DEF ListInv
<1>a. TypeOK /\ ScanStarts /\ scanAt \in Nat \ {0} /\ frame' = frame /\ status # "decoding"
  BY FrameStays DEF ScanInv, TypeOK, ScanStarts, CountInv
<1>b. PICK sent \in Seq(Token), starts \in Seq(Nat \ {0}) : SoFar(sent, starts)
  BY DEF ListInv
<1>c. HonestLength(frame)
  BY DEF ListInv
<1>d. /\ IsFenceList(sent, starts, frame.fences) /\ Degraded(frame.text, sent)
      /\ frame.whole => frame.text = sent /\ FoundAll(starts)
  BY <1>b DEF SoFar
<1>e. frame.text \in Seq(Token) /\ frame.fences \in Seq(FenceType)
  BY <1>a DEF TypeOK, FrameType
<1> SUFFICES SoFar(sent, starts)'
  BY <1>a, <1>c DEF ListInv, HonestLength
<1>1. CASE RejectFrame
  BY <1>1, <1>a, <1>b, NothingTaken DEF RejectFrame
<1>2. CASE StartAscii
  <2>1. frame.whole => warnings' = warnings
    <3>1. frame.whole => LengthWarning = {}
      BY <1>c DEF HonestLength, LengthWarning
    <3> QED BY <3>1, <1>2, <1>d DEF StartAscii, FoundAll
  <2> QED BY <2>1, <1>2, <1>a, <1>b, NothingTaken DEF StartAscii
<1>3. CASE PassField
  <2>1. UNCHANGED <<frame, fences, warnings>> /\ scanAt' = scanAt + 1
    BY <1>3 DEF PassField
  <2>2. frame.whole => \A k \in 1..Len(frame.fences) : starts[k] < scanAt' => starts[k] < scanAt
    <3> SUFFICES ASSUME frame.whole, NEW k \in 1..Len(frame.fences), starts[k] < scanAt + 1
                 PROVE  starts[k] < scanAt
      BY <2>1
    <3>1. RecordAt(frame.text, starts[k], frame.fences[k]) /\ starts[k] \in Nat \ {0}
      BY <1>d, <1>e, RecordsApart
    <3>2. frame.text[starts[k]].word = "PEO"
      BY <3>1 DEF RecordAt
    <3>3. starts[k] # scanAt
      BY <1>3, <3>2 DEF PassField
    <3> QED BY <3>1, <3>3, <1>a
  <2> QED BY <2>1, <2>2, <1>a, <1>b, NothingTaken
<1>4. CASE TakeFence
  <2>1. \E at : FoundAs(at, starts)'
    BY <1>4, <1>a, <1>b, TakeFenceFound
  <2>2. frame.whole => FoundAll(starts)'
    BY <1>4, <1>a, <1>b, TakeFenceAll
  <2> QED BY <2>1, <2>2, <1>a, <1>d DEF SoFar
<1>5. CASE BreakScan
  <2>1. ~ frame.whole
    <3> SUFFICES ASSUME frame.whole PROVE FALSE
      OBVIOUS
    <3>1. scanAt \in 1..Len(frame.text) /\ frame.text[scanAt].word = "PEO"
      BY <1>5, <1>a, <1>e DEF BreakScan
    <3>2. PICK k \in 1..Len(frame.fences) : starts[k] = scanAt
      BY <3>1, <1>d, <1>e, PeoIsStart
    <3>3. RecordAt(frame.text, scanAt, frame.fences[k]) /\ frame.fences[k] \in FenceType
      BY <3>2, <1>d, <1>e, RecordsApart
    <3>4. RecordIsGood(frame.text, scanAt)
      BY <3>3, <1>a, <1>e, RecordParses
    <3> QED BY <3>4, <1>5 DEF BreakScan
  <2> QED BY <2>1, <1>5, <1>a, <1>b, NothingTaken DEF BreakScan
<1>6. CASE FinishScan
  BY <1>6, <1>a, <1>b, NothingTaken DEF FinishScan
<1>7. CASE UNCHANGED vars
  BY <1>7, <1>a, <1>b, NothingTaken DEF vars
<1> QED BY <1>a, <1>1, <1>2, <1>3, <1>4, <1>5, <1>6, <1>7, AsciiStep

THEOREM ListInvariance == DeviceSends => (Spec => []ListInv)
<1> SUFFICES ASSUME DeviceSends PROVE Spec => []ListInv
  OBVIOUS
<1>1. Init => ListInv
  BY InitList
<1> QED BY <1>1, StepList, ScanInvariance, PTL DEF Spec

\* A fence list that arrives whole, of any length and with any fields between
\* its fences, is decoded fence by fence and without a warning.
THEOREM WholeListDecoded == DeviceSends => (Spec => []WholeFenceListDecoded)
<1>1. ScanInv /\ ListInv => WholeFenceListDecoded
  <2> SUFFICES ASSUME ScanInv, ListInv, status = "done", frame.kind = "ascii", frame.whole
               PROVE  fences = frame.fences /\ warnings = {}
    BY DEF WholeFenceListDecoded
  <2> DEFINE list == frame.fences
  <2>1. PICK sent \in Seq(Token), starts \in Seq(Nat \ {0}) : SoFar(sent, starts)
    BY DEF ListInv
  <2>2. /\ IsFenceList(frame.text, starts, list)
        /\ warnings = {} /\ Len(fences) <= Len(list)
        /\ \A k \in 1..Len(fences) : fences[k] = list[k]
        /\ \A k \in 1..Len(list) : starts[k] < scanAt <=> k <= Len(fences)
    BY <2>1 DEF SoFar, FoundAll, Exact
  <2>3. list \in Seq(FenceType) /\ fences \in Seq(FenceType) /\ Len(frame.text) \in Nat /\ scanAt \in Nat
    BY DEF ScanInv, TypeOK, FrameType
  <2>4. scanAt > Len(frame.text)
    BY <2>2 DEF ScanInv, CountInv
  <2>5. \A k \in 1..Len(list) : starts[k] < scanAt
    <3> SUFFICES ASSUME NEW k \in 1..Len(list) PROVE starts[k] < scanAt
      OBVIOUS
    <3>1. /\ starts[k] \in Nat \ {0} /\ RecordLast(starts[k], list[k]) \in Nat
          /\ RecordLast(starts[k], list[k]) > starts[k]
          /\ RecordAt(frame.text, starts[k], list[k])
      BY <2>2, <2>3, RecordsApart
    <3>2. RecordLast(starts[k], list[k]) <= Len(frame.text)
      BY <3>1 DEF RecordAt
    <3> QED BY <3>1, <3>2, <2>3, <2>4
  <2>6. Len(fences) = Len(list)
    <3>1. Len(fences) \in Nat /\ Len(list) \in Nat
      BY <2>3
    <3>2. Len(list) \in 1..Len(list) => Len(list) <= Len(fences)
      BY <2>2, <2>5
    <3> QED BY <2>2, <3>1, <3>2
  <2> HIDE DEF list
  <2>7. fences = list
    BY <2>2, <2>3, <2>6, SeqEqual
  <2> QED BY <2>2, <2>7 DEF list
<1> QED BY <1>1, ScanInvariance, ListInvariance, PTL

\* Of a list with unreadable fields or without its end, every fence decoded is
\* one the device sent, in its order; only of a fence that ends the text can
\* the last number be the first digits of what was sent, or 0.  One that is
\* there and not decoded leaves a warning.
THEOREM ListNeverInvented == DeviceSends => (Spec => []FencesAreTheDevices)
<1>1. ScanInv /\ ListInv => FencesAreTheDevices
  <2> SUFFICES ASSUME ScanInv, ListInv, status = "done", frame.kind = "ascii"
               PROVE  FencesAreTheDevices
    BY DEF FencesAreTheDevices
  <2>1. PICK at, starts : FoundAs(at, starts)
    BY DEF ListInv, SoFar
  <2>2. at \in [1..Len(fences) -> 1..Len(frame.fences)]
    BY <2>1 DEF FoundAs
  <2>3. \A i \in 1..Len(fences) :
          /\ i > 1 => at[i - 1] < at[i]
          /\ \/ fences[i] = frame.fences[at[i]]
             \/ /\ i = Len(fences) /\ EndsText(fences[i])
                /\ CutInLast(fences[i], frame.fences[at[i]])
    BY <2>1, Zenon DEF FoundAs, Exact, Shortened
  <2> DEFINE peo == { k \in DOMAIN frame.text : frame.text[k].word = "PEO" }
  <2>4. Len(fences) < Cardinality(peo) => "peo" \in warnings
    <3> SUFFICES ASSUME "peo" \notin warnings PROVE Cardinality(peo) = Len(fences) /\ Len(fences) \in Nat
      OBVIOUS
    <3>1. frame.text \in Seq(Token) /\ scanAt \in Nat /\ Len(fences) \in Nat
      BY DEF ScanInv, TypeOK, FrameType
    <3>2. scanAt > Len(frame.text) /\ Cardinality(PeoBefore(frame.text, scanAt)) = Len(fences)
      BY DEF ScanInv, CountInv
    <3>3. peo = PeoBefore(frame.text, scanAt)
      BY <3>1, <3>2 DEF PeoBefore
    <3> QED BY <3>1, <3>2, <3>3
  <2> QED BY <2>2, <2>3, <2>4 DEF FencesAreTheDevices
<1> QED BY <1>1, ScanInvariance, ListInvariance, PTL
=============================================================================
