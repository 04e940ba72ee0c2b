------------------------ MODULE LineSplitter_proofs ------------------------
(***************************************************************************)
(* Proofs about LineSplitter, for every stream, buffer size and chunking.  *)
(*                                                                         *)
(* The inductive invariant says that the lines returned are those that end *)
(* in what has left the buffer, that the buffer begins where a line begins *)
(* and that between two calls it holds no newline.                         *)
(***************************************************************************)
EXTENDS LineSplitter, TLAPS

\* A buffer begins at the start of the stream, after a newline or at a cut.
BufferStartsALine == base = 0 \/ stream.symbols[base] = LF \/ base \in cuts

NothingHeldBack ==
    ~ calling => \A i \in (base + 1)..received : stream.symbols[i] # LF

IInv ==
    /\ TypeOK
    /\ BufferStartsALine
    /\ NothingHeldBack
    /\ lines = LinesUpTo(base)

----------------------------------------------------------------------------
(* Lines of a sequence s cut at the positions c, without the variables.    *)

StartsIn(s, c, f, p) ==
    /\ f < p
    /\ f = 0 \/ s[f] = LF \/ f \in c
    /\ \A i \in (f + 1)..(p - 1) : s[i] # LF /\ i \notin c

EndIn(s, f, p) == IF f < p - 1 /\ s[p - 1] = CR THEN p - 2 ELSE p - 1

LinesIn(s, c, n) ==
    { <<l[1], EndIn(s, l[1], l[2])>> :
        l \in { k \in (0..n) \X { p \in 1..n : s[p] = LF } :
                StartsIn(s, c, k[1], k[2]) /\ k[1] < EndIn(s, k[1], k[2]) } }

LEMMA LinesUpToIsLinesIn == \A n : LinesUpTo(n) = LinesIn(stream.symbols, cuts, n)
  BY DEF LinesUpTo, LinesIn, Starts, StartsIn, TrimmedEnd, EndIn, Newlines

\* What a line is, without the construction of the set.
LEMMA LinesInMember ==
  ASSUME NEW s, NEW c, NEW n \in Nat, NEW x
  PROVE  x \in LinesIn(s, c, n) <=>
            \E f \in 0..n, p \in 1..n :
                /\ s[p] = LF
                /\ StartsIn(s, c, f, p)
                /\ f < EndIn(s, f, p)
                /\ x = <<f, EndIn(s, f, p)>>
<1> DEFINE P == { p \in 1..n : s[p] = LF }
           K == { k \in (0..n) \X P :
                    StartsIn(s, c, k[1], k[2]) /\ k[1] < EndIn(s, k[1], k[2]) }
<1>1. ASSUME x \in LinesIn(s, c, n)
      PROVE  \E f \in 0..n, p \in 1..n :
                s[p] = LF /\ StartsIn(s, c, f, p) /\ f < EndIn(s, f, p) /\ x = <<f, EndIn(s, f, p)>>
  <2>1. PICK l \in K : x = <<l[1], EndIn(s, l[1], l[2])>>
    BY <1>1 DEF LinesIn
  <2>2. l[1] \in 0..n /\ l[2] \in 1..n /\ s[l[2]] = LF
    BY <2>1
  <2>3. StartsIn(s, c, l[1], l[2]) /\ l[1] < EndIn(s, l[1], l[2])
    BY <2>1
  <2> QED BY <2>1, <2>2, <2>3
<1>2. ASSUME NEW f \in 0..n, NEW p \in 1..n, s[p] = LF, StartsIn(s, c, f, p),
             f < EndIn(s, f, p), x = <<f, EndIn(s, f, p)>>
      PROVE  x \in LinesIn(s, c, n)
  <2>1. p \in P
    BY <1>2
  <2>2. <<f, p>> \in (0..n) \X P
    BY <2>1
  <2>3. <<f, p>>[1] = f /\ <<f, p>>[2] = p
    OBVIOUS
  <2>4. <<f, p>> \in K
    BY <2>2, <2>3, <1>2
  <2> QED BY <2>4, <2>3, <1>2 DEF LinesIn
<1> QED BY <1>1, <1>2

\* Cutting the stream where no line is being ended changes no line.
LEMMA LinesInSame ==
  ASSUME NEW s, NEW c, NEW b \in Nat, NEW r \in Nat, b <= r,
         \A i \in (b + 1)..r : s[i] # LF
  PROVE  LinesIn(s, c \cup {r}, r) = LinesIn(s, c, b)
<1>1. ASSUME NEW x \in LinesIn(s, c \cup {r}, r) PROVE x \in LinesIn(s, c, b)
  <2>1. PICK f \in 0..r, p \in 1..r :
           s[p] = LF /\ StartsIn(s, c \cup {r}, f, p) /\ f < EndIn(s, f, p) /\ x = <<f, EndIn(s, f, p)>>
    BY <1>1, LinesInMember
  <2>2. p \in 1..b /\ f \in 0..b
    BY <2>1 DEF StartsIn
  <2>3. StartsIn(s, c, f, p)
    BY <2>1, <2>2 DEF StartsIn
  <2> QED BY <2>1, <2>2, <2>3, LinesInMember
<1>2. ASSUME NEW x \in LinesIn(s, c, b) PROVE x \in LinesIn(s, c \cup {r}, r)
  <2>1. PICK f \in 0..b, p \in 1..b :
           s[p] = LF /\ StartsIn(s, c, f, p) /\ f < EndIn(s, f, p) /\ x = <<f, EndIn(s, f, p)>>
    BY <1>2, LinesInMember
  <2>2. p \in 1..r /\ f \in 0..r
    BY <2>1
  <2>3. StartsIn(s, c \cup {r}, f, p)
    BY <2>1 DEF StartsIn
  <2> QED BY <2>1, <2>2, <2>3, LinesInMember
<1> QED BY <1>1, <1>2

\* The newline at p ends the line that begins at b, and no other.
LEMMA LinesInNext ==
  ASSUME NEW s, NEW b \in Nat, NEW c, c \in SUBSET (0..b), NEW p \in Nat,
         b < p, s[p] = LF,
         \A i \in (b + 1)..(p - 1) : s[i] # LF,
         b = 0 \/ s[b] = LF \/ b \in c
  PROVE  LinesIn(s, c, p) =
            LinesIn(s, c, b) \cup (IF b < EndIn(s, b, p) THEN {<<b, EndIn(s, b, p)>>} ELSE {})
<1> DEFINE new == IF b < EndIn(s, b, p) THEN {<<b, EndIn(s, b, p)>>} ELSE {}
<1>1. ASSUME NEW x \in LinesIn(s, c, p) PROVE x \in LinesIn(s, c, b) \cup new
  <2>1. PICK f \in 0..p, q \in 1..p :
           s[q] = LF /\ StartsIn(s, c, f, q) /\ f < EndIn(s, f, q) /\ x = <<f, EndIn(s, f, q)>>
    BY <1>1, LinesInMember
  <2>2. CASE q <= b
    <3>1. q \in 1..b /\ f \in 0..b
      BY <2>1, <2>2 DEF StartsIn
    <3> QED BY <2>1, <3>1, LinesInMember
  <2>3. CASE q > b
    <3>1. q = p
      BY <2>1, <2>3
    <3>2. ~ f < b
      BY <2>1, <2>3, <3>1 DEF StartsIn
    <3>3. ~ b < f
      BY <2>1, <3>1 DEF StartsIn
    <3>4. f = b
      BY <3>2, <3>3
    <3> QED BY <2>1, <3>1, <3>4
  <2> QED BY <2>1, <2>2, <2>3
<1>2. ASSUME NEW x \in LinesIn(s, c, b) PROVE x \in LinesIn(s, c, p)
  <2>1. PICK f \in 0..b, q \in 1..b :
           s[q] = LF /\ StartsIn(s, c, f, q) /\ f < EndIn(s, f, q) /\ x = <<f, EndIn(s, f, q)>>
    BY <1>2, LinesInMember
  <2>2. f \in 0..p /\ q \in 1..p
    BY <2>1
  <2> QED BY <2>1, <2>2, LinesInMember
<1>3. ASSUME NEW x \in new PROVE x \in LinesIn(s, c, p)
  <2>1. b < EndIn(s, b, p) /\ x = <<b, EndIn(s, b, p)>>
    BY <1>3
  <2>2. StartsIn(s, c, b, p)
    BY DEF StartsIn
  <2>3. b \in 0..p /\ p \in 1..p
    OBVIOUS
  <2> QED BY <2>1, <2>2, <2>3, LinesInMember
<1> QED BY <1>1, <1>2, <1>3

----------------------------------------------------------------------------
(* The inductive invariant                                                 *)

LEMMA InitEstablishes == Init => IInv
<1> SUFFICES ASSUME Init PROVE IInv
  OBVIOUS
<1>1. stream.symbols \in Seq(Symbols)
  BY StreamsAssumption DEF Init
<1>2. TypeOK
  <2>1. Len(stream.symbols) \in Nat
    BY <1>1
  <2>2. received \in 0..Len(stream.symbols) /\ base \in 0..received
    BY <2>1 DEF Init
  <2>3. cuts \subseteq 0..base /\ resets \in 0..MaxResets
    BY BufferAssumption DEF Init
  <2>4. lines \subseteq Nat \X Nat
    BY DEF Init
  <2> QED BY <1>1, <2>2, <2>3, <2>4 DEF Init, TypeOK
<1>3. LinesUpTo(0) = {}
  BY LinesUpToIsLinesIn, LinesInMember
<1> QED BY <1>2, <1>3 DEF Init, IInv, BufferStartsALine, NothingHeldBack

LEMMA PushPreserves ==
  ASSUME IInv, NEW n \in 1..(Len(stream.symbols) - received), Push(n)
  PROVE  IInv'
<1>1. TypeOK'
  <2>1. Len(stream.symbols) \in Nat
    BY DEF IInv, TypeOK
  <2>2. received' \in 0..Len(stream'.symbols) /\ base' \in 0..received'
    BY <2>1 DEF IInv, TypeOK, Push
  <2>3. stream'.symbols \in Seq(Symbols) /\ lines' \subseteq Nat \X Nat
    BY DEF IInv, TypeOK, Push
  <2>4. cuts' \subseteq 0..base' /\ resets' \in 0..MaxResets
    BY DEF IInv, TypeOK, Push
  <2> QED BY <2>2, <2>3, <2>4 DEF TypeOK, Push
<1>2. BufferStartsALine' /\ NothingHeldBack'
  BY DEF IInv, BufferStartsALine, NothingHeldBack, Push
<1>3. lines' = LinesUpTo(base)'
  BY DEF IInv, LinesUpTo, Newlines, Starts, TrimmedEnd, Push
<1> QED BY <1>1, <1>2, <1>3 DEF IInv

LEMMA CutLinePreserves ==
  ASSUME IInv, NEW n \in 0..(BufferLength - 1), CutLine(n)
  PROVE  IInv'
<1> DEFINE s == stream.symbols
           p == base + n + 1
<1>1. base \in Nat /\ received \in Nat /\ p \in Nat /\ base < p /\ p <= received
  BY DEF IInv, TypeOK, BufferLength
<1>2. s[p] = LF /\ \A i \in (base + 1)..(p - 1) : s[i] # LF
  <2>1. s[p] = LF
    BY DEF CutLine, NewlineIndex, Buffer
  <2>2. ASSUME NEW i \in (base + 1)..(p - 1) PROVE s[i] # LF
    <3>1. i - base - 1 \in 0..(n - 1) /\ base + (i - base - 1) + 1 = i
      BY <1>1
    <3> QED BY <3>1 DEF CutLine, NewlineIndex, Buffer
  <2> QED BY <2>1, <2>2
<1>3. LinesIn(s, cuts, p) =
         LinesIn(s, cuts, base)
            \cup (IF base < EndIn(s, base, p) THEN {<<base, EndIn(s, base, p)>>} ELSE {})
  <2>1. cuts \in SUBSET (0..base) /\ (base = 0 \/ s[base] = LF \/ base \in cuts)
    BY DEF IInv, TypeOK, BufferStartsALine
  <2> HIDE DEF s, p
  <2> QED BY <1>1, <1>2, <2>1, LinesInNext
<1>4. EndIn(s, base, p) = base + LineEnd(n)
  BY <1>1 DEF EndIn, LineEnd, Buffer
<1>5. LineEnd(n) \in Nat
  BY DEF LineEnd
<1>6. lines' = LinesIn(s, cuts, p)
  BY <1>1, <1>3, <1>4, <1>5, LinesUpToIsLinesIn DEF CutLine, IInv
<1>7. LinesUpTo(base)' = LinesIn(s, cuts, p)
  <2>1. base' = p /\ stream' = stream /\ cuts' = cuts
    BY DEF CutLine
  <2>2. LinesUpTo(base)' = LinesIn(stream.symbols, cuts, base)'
    BY DEF LinesUpTo, LinesIn, Starts, StartsIn, TrimmedEnd, EndIn, Newlines
  <2> QED BY <2>1, <2>2 DEF LinesIn, StartsIn, EndIn
<1>8. TypeOK'
  <2>1. lines' \subseteq Nat \X Nat
    BY <1>1, <1>5 DEF CutLine, IInv, TypeOK
  <2>2. base' \in 0..received' /\ cuts' \subseteq 0..base'
    BY <1>1 DEF CutLine, IInv, TypeOK
  <2> QED BY <2>1, <2>2 DEF CutLine, IInv, TypeOK
<1>9. BufferStartsALine' /\ NothingHeldBack'
  BY <1>2 DEF CutLine, BufferStartsALine, NothingHeldBack
<1> QED BY <1>6, <1>7, <1>8, <1>9 DEF IInv

\* Whatever drops the buffer when it holds no newline keeps the invariant.
LEMMA DropPreserves ==
  ASSUME IInv, \A i \in (base + 1)..received : stream.symbols[i] # LF,
         stream' = stream, received' = received, lines' = lines,
         overflowed' \in BOOLEAN, calling' \in BOOLEAN, resets' \in 0..MaxResets,
         \/ base' = received /\ cuts' = cuts \cup {received}
         \/ base' = base /\ cuts' = cuts
  PROVE  IInv'
<1>1. base \in Nat /\ received \in Nat /\ base <= received /\ cuts \in SUBSET (0..base)
  BY DEF IInv, TypeOK
<1>2. TypeOK'
  <2>1. CASE base' = base /\ cuts' = cuts
    BY <2>1 DEF IInv, TypeOK
  <2>2. CASE base' = received /\ cuts' = cuts \cup {received}
    BY <2>2, <1>1 DEF IInv, TypeOK
  <2> QED BY <2>1, <2>2
<1>3. NothingHeldBack' /\ BufferStartsALine'
  BY <1>1 DEF NothingHeldBack, BufferStartsALine, IInv
<1>4. LinesUpTo(base)' = LinesIn(stream.symbols, cuts', base')
  BY DEF LinesUpTo, LinesIn, Starts, StartsIn, TrimmedEnd, EndIn, Newlines
<1>5. LinesIn(stream.symbols, cuts', base') = LinesIn(stream.symbols, cuts, base)
  <2>1. CASE base' = base /\ cuts' = cuts
    BY <2>1
  <2>2. CASE base' = received /\ cuts' = cuts \cup {received}
    <3>1. LinesIn(stream.symbols, cuts \cup {received}, received)
             = LinesIn(stream.symbols, cuts, base)
      BY <1>1, LinesInSame
    <3> QED BY <2>2, <3>1
  <2> QED BY <2>1, <2>2
<1> QED BY <1>2, <1>3, <1>4, <1>5, LinesUpToIsLinesIn DEF IInv

LEMMA SettlePreserves == ASSUME IInv, Settle PROVE IInv'
<1>1. \A i \in (base + 1)..received : stream.symbols[i] # LF
  <2>1. ASSUME NEW i \in (base + 1)..received PROVE stream.symbols[i] # LF
    <3>1. i - base - 1 \in 0..(BufferLength - 1) /\ base + (i - base - 1) + 1 = i
      BY DEF IInv, TypeOK, BufferLength
    <3> QED BY <3>1 DEF Settle, HasNewline, Buffer
  <2> QED BY <2>1
<1>2. resets' \in 0..MaxResets
  BY DEF IInv, TypeOK, Settle
<1>3. overflowed' \in BOOLEAN /\ calling' \in BOOLEAN
  <2>1. (BufferLength > MaxBufferBytes) \in BOOLEAN
    BY BufferAssumption DEF IInv, TypeOK, BufferLength
  <2>2. overflowed' = (BufferLength > MaxBufferBytes) /\ calling' = FALSE
    BY DEF Settle
  <2> QED BY <2>1, <2>2, Zenon
<1>4. \/ base' = received /\ cuts' = cuts \cup {received}
      \/ base' = base /\ cuts' = cuts
  BY DEF Settle
<1>5. stream' = stream /\ received' = received /\ lines' = lines
  BY DEF Settle
<1> QED BY <1>1, <1>2, <1>3, <1>4, <1>5, DropPreserves

LEMMA ResetPreserves == ASSUME IInv, Reset PROVE IInv'
<1>1. \A i \in (base + 1)..received : stream.symbols[i] # LF
  BY DEF IInv, NothingHeldBack, Reset
<1>2. resets' \in 0..MaxResets
  BY BufferAssumption DEF IInv, TypeOK, Reset
<1>3. overflowed' \in BOOLEAN /\ calling' \in BOOLEAN
  BY DEF IInv, TypeOK, Reset
<1> QED BY <1>1, <1>2, <1>3, DropPreserves DEF Reset

LEMMA StutterPreserves == ASSUME IInv, UNCHANGED vars PROVE IInv'
<1>1. TypeOK'
  BY DEF IInv, TypeOK, vars
<1>2. BufferStartsALine' /\ NothingHeldBack'
  BY DEF IInv, BufferStartsALine, NothingHeldBack, vars
<1>3. lines' = LinesUpTo(base)'
  BY DEF IInv, LinesUpTo, Newlines, Starts, TrimmedEnd, vars
<1> QED BY <1>1, <1>2, <1>3 DEF IInv

\* The inductive invariant holds in every reachable state.
THEOREM Invariant == Spec => []IInv
<1>1. IInv /\ [Next]_vars => IInv'
  BY PushPreserves, CutLinePreserves, SettlePreserves, ResetPreserves, StutterPreserves DEF Next
<1> QED BY InitEstablishes, <1>1, PTL DEF Spec

----------------------------------------------------------------------------
(* What follows                                                            *)

\* Every variable of the splitter keeps its type and the buffer stays a slice
\* of what arrived.
THEOREM TypeCorrect == Spec => []TypeOK
<1>1. IInv => TypeOK
  BY DEF IInv
<1> QED BY <1>1, Invariant, PTL

\* After any number of calls of push() the lines returned are exactly the lines
\* of the bytes that arrived, for every stream, chunking and buffer size.
THEOREM EveryLineOnce == Spec => []LinesAreExact
<1>1. ASSUME IInv, ~ calling PROVE lines = LinesUpTo(received)
  <2> DEFINE s == stream.symbols
  <2>1. base \in Nat /\ received \in Nat /\ base <= received /\ cuts \in SUBSET (0..base)
    BY <1>1 DEF IInv, TypeOK
  <2>2. \A i \in (base + 1)..received : s[i] # LF
    BY <1>1 DEF IInv, NothingHeldBack
  <2>3. ASSUME NEW x PROVE x \in LinesIn(s, cuts, received) <=> x \in LinesIn(s, cuts, base)
    <3>1. ASSUME NEW f \in 0..received, NEW p \in 1..received, s[p] = LF,
                 StartsIn(s, cuts, f, p)
          PROVE  f \in 0..base /\ p \in 1..base
      BY <2>1, <2>2, <3>1 DEF StartsIn
    <3>2. 0..base \subseteq 0..received /\ 1..base \subseteq 1..received
      BY <2>1
    <3> QED BY <2>1, <3>1, <3>2, LinesInMember
  <2>4. LinesIn(s, cuts, received) = LinesIn(s, cuts, base)
    BY <2>3 DEF LinesIn
  <2> QED BY <1>1, <2>4, LinesUpToIsLinesIn DEF IInv
<1>2. IInv => LinesAreExact
  BY <1>1 DEF LinesAreExact
<1> QED BY <1>2, Invariant, PTL

\* Between two calls of push() the splitter holds at most maxBufferBytes.
THEOREM BufferBounded == Spec => []MemoryBounded
<1>1. Init => MemoryBounded
  BY BufferAssumption DEF Init, MemoryBounded, BufferLength
<1>2. IInv /\ MemoryBounded /\ [Next]_vars => MemoryBounded'
  <2> SUFFICES ASSUME IInv, MemoryBounded, [Next]_vars PROVE MemoryBounded'
    OBVIOUS
  <2>1. base \in Nat /\ received \in Nat
    BY DEF IInv, TypeOK
  <2>2. ASSUME NEW n \in 1..(Len(stream.symbols) - received), Push(n) PROVE MemoryBounded'
    BY <2>2 DEF Push, MemoryBounded
  <2>3. ASSUME NEW n \in 0..(BufferLength - 1), CutLine(n) PROVE MemoryBounded'
    BY <2>3 DEF CutLine, MemoryBounded
  <2>4. CASE Settle
    BY <2>1, <2>4, BufferAssumption DEF Settle, MemoryBounded, BufferLength
  <2>5. CASE Reset
    BY <2>1, <2>5, BufferAssumption DEF Reset, MemoryBounded, BufferLength
  <2>6. CASE UNCHANGED vars
    BY <2>6 DEF vars, MemoryBounded, BufferLength
  <2> QED BY <2>2, <2>3, <2>4, <2>5, <2>6 DEF Next
<1> QED BY <1>1, <1>2, Invariant, PTL DEF Spec

\* As long as reset() is not called, what is dropped belongs to a line longer
\* than the buffer: a line that fits is never cut, whatever comes before it.
THEOREM OnlyOverlongLinesAreCut == Spec => []CutsAreOverflows
<1>1. Init => CutsAreOverflows
  BY DEF Init, CutsAreOverflows
<1>2. IInv /\ CutsAreOverflows /\ [Next]_vars => CutsAreOverflows'
  <2> SUFFICES ASSUME IInv, CutsAreOverflows, [Next]_vars PROVE CutsAreOverflows'
    OBVIOUS
  <2>1. base \in Nat /\ received \in Nat /\ MaxBufferBytes \in Nat /\ resets \in Nat
    BY BufferAssumption DEF IInv, TypeOK
  <2>2. ASSUME NEW n \in 1..(Len(stream.symbols) - received), Push(n) PROVE CutsAreOverflows'
    BY <2>2 DEF Push, CutsAreOverflows
  <2>3. ASSUME NEW n \in 0..(BufferLength - 1), CutLine(n) PROVE CutsAreOverflows'
    BY <2>3 DEF CutLine, CutsAreOverflows
  <2>4. CASE Settle
    <3>1. CASE BufferLength > MaxBufferBytes
      <4>1. ASSUME NEW i \in (received - MaxBufferBytes)..received
            PROVE  stream.symbols[i] # LF
        <5>1. i - base - 1 \in 0..(BufferLength - 1) /\ base + (i - base - 1) + 1 = i
          BY <2>1, <3>1 DEF BufferLength
        <5> QED BY <2>4, <5>1 DEF Settle, HasNewline, Buffer
      <4>2. received > MaxBufferBytes
        BY <2>1, <3>1 DEF BufferLength
      <4> QED BY <2>4, <3>1, <4>1, <4>2 DEF Settle, CutsAreOverflows
    <3>2. CASE ~ BufferLength > MaxBufferBytes
      BY <2>4, <3>2 DEF Settle, CutsAreOverflows
    <3> QED BY <3>1, <3>2
  <2>5. CASE Reset
    BY <2>1, <2>5 DEF Reset, CutsAreOverflows
  <2>6. CASE UNCHANGED vars
    BY <2>6 DEF vars, CutsAreOverflows
  <2> QED BY <2>2, <2>3, <2>4, <2>5, <2>6 DEF Next
<1> QED BY <1>1, <1>2, Invariant, PTL DEF Spec
=============================================================================
