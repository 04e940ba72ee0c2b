---------------------------- MODULE PeoFenceList ----------------------------
(***************************************************************************)
(* parsePeoFenceList() of TrackerParserService: the geo-fence records      *)
(*   PEO,<id>,<mode>,<start>,<end>,<lon,lat>*N,<four more numbers>         *)
(* in the comma-separated fields of an ASCII frame.  A record has no       *)
(* length: its end follows from the point numbers start and end.           *)
(*                                                                         *)
(* A field is what Number() makes of it: a number, an empty string (which  *)
(* Number() takes for 0), the word PEO or some other text (not a number).  *)
(***************************************************************************)
EXTENDS Integers, Sequences

Token     == [word : {"number", "empty", "PEO", "text"}, value : Nat]
FenceType == [head : Seq(Nat), points : Seq(Seq(Nat)), tail : Seq(Nat)]

\* Number.isFinite(Number(fields[i])); past the end it is Number(undefined).
Finite(fields, i) == i <= Len(fields) /\ fields[i].word \in {"number", "empty"}

Num(fields, i) ==
    IF Finite(fields, i) /\ fields[i].word = "number" THEN fields[i].value ELSE 0

Nums(fields, i, n) == [k \in 1..n |-> Num(fields, i + k - 1)]

AllFinite(fields, i, n) == \A k \in 0..(n - 1) : Finite(fields, i + k)

\* A record whose word PEO is field i: id, mode, start and end follow.
PointCount(fields, i) == Num(fields, i + 4) - Num(fields, i + 3) + 1

HeadIsGood(fields, i) == AllFinite(fields, i + 1, 4) /\ PointCount(fields, i) >= 0

\* The field after its points: the first of the four numbers that end it.
TailStart(fields, i) == i + 5 + 2 * PointCount(fields, i)

\* Mutant: the numbers after the points are not checked.
TailUnchecked(fields, i) ==
    /\ HeadIsGood(fields, i)
    /\ AllFinite(fields, i + 5, 2 * PointCount(fields, i))
    /\ TailStart(fields, i) <= Len(fields)

RecordIsGood(fields, i) ==
    /\ HeadIsGood(fields, i)
    /\ AllFinite(fields, i + 5, 2 * PointCount(fields, i) + 4)

FenceAt(fields, i) ==
    [head   |-> Nums(fields, i + 1, 4),
     points |-> [p \in 1..PointCount(fields, i) |-> Nums(fields, i + 3 + 2 * p, 2)],
     tail   |-> Nums(fields, TailStart(fields, i), 4)]

\* Where the record of a fence ends that starts in the given field.
RecordLast(start, fence) == start + 8 + 2 * Len(fence.points)

\* Mutant: the scan goes on one field late.
RecordEndLate(fields, i) == TailStart(fields, i) + 5

\* "i = cursor + 3", and the loop's i++
RecordEnd(fields, i) == TailStart(fields, i) + 4
=============================================================================
