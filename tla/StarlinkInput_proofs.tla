------------------------ MODULE StarlinkInput_proofs ------------------------
(***************************************************************************)
(* Proofs about StarlinkInput, for every set of streams a device can write *)
(* and every way TCP cuts them: every message that fits the buffer is      *)
(* decoded into what the device means by it, and nothing else is.          *)
(***************************************************************************)
EXTENDS StarlinkLines, LineSplitter_proofs, FiniteSetTheorems, FunctionTheorems,
        SequenceTheorems

----------------------------------------------------------------------------
(* Least and greatest elements.                                            *)

LEMMA LeastNat ==
  ASSUME NEW S \in SUBSET Nat, S # {}
  PROVE  \E m \in S : \A x \in S : m <= x
<1> DEFINE R == OpToRel(<, Nat)
<1>1. IsWellFoundedOn(R, Nat)
  BY NatLessThanWellFounded
<1>2. \A x, y \in Nat : <<x, y>> \in R <=> x < y
  BY DEF OpToRel
<1> HIDE DEF R
<1>3. PICK m \in S : \A x \in S : ~ (<<x, m>> \in R)
  BY <1>1, WFMin
<1>4. \A x \in S : x \in Nat /\ m \in Nat /\ ~ (x < m)
  BY <1>2, <1>3
<1> QED BY <1>4

\* Min() of positions is the first of them, and Max() the last.
LEMMA MinIsLeast ==
  ASSUME NEW S \in SUBSET Nat, S # {}
  PROVE  Min(S) \in S /\ \A x \in S : Min(S) <= x
<1>1. PICK m \in S : \A x \in S : m <= x
  BY LeastNat
<1> QED BY <1>1 DEF Min

LEMMA MaxIsGreatest ==
  ASSUME NEW n \in Nat, NEW S \in SUBSET (0..n), S # {}
  PROVE  Max(S) \in S /\ \A x \in S : Max(S) >= x
<1> DEFINE U == { u \in Nat : \A x \in S : x <= u }
<1>1. n \in U
  OBVIOUS
<1>2. U \in SUBSET Nat /\ U # {}
  BY <1>1
<1>3. PICK m \in U : \A u \in U : m <= u
  BY <1>2, LeastNat
<1>4. m \in S
  <2> SUFFICES ASSUME m \notin S PROVE FALSE
    OBVIOUS
  <2>1. PICK s : s \in S
    OBVIOUS
  <2>2. s \in Nat /\ m \in Nat /\ s <= m /\ s # m
    BY <1>3, <2>1
  <2>3. m - 1 \in Nat /\ ~ (m <= m - 1)
    BY <2>2
  <2>4. \A x \in S : x \in Nat /\ x <= m /\ x # m
    BY <1>3
  <2>5. \A x \in S : x <= m - 1
    BY <2>2, <2>4
  <2>6. m - 1 \in U
    BY <2>3, <2>5
  <2> QED BY <1>3, <2>3, <2>6
<1>5. \A x \in S : m >= x
  BY <1>3
<1> QED BY <1>4, <1>5 DEF Max

----------------------------------------------------------------------------
(* Split() gives back the fields that are listed.                          *)

\* The filled fields, and those among the first k.
Filling(fields)     == { j \in Nat : fields[j] # "" }
FilledTo(fields, k) == Filling(fields) \cap (1..k)

LEMMA FilledToCount ==
  ASSUME NEW fields, NEW k \in Nat
  PROVE  /\ IsFiniteSet(FilledTo(fields, k))
         /\ Cardinality(FilledTo(fields, k)) \in Nat
         /\ CommaAt(fields, k) = k + Cardinality(FilledTo(fields, k))
<1>1. IsFiniteSet(1..k)
  BY FS_Interval
<1>2. FilledTo(fields, k) \in SUBSET (1..k)
  BY DEF FilledTo
<1>3. IsFiniteSet(FilledTo(fields, k))
  BY <1>1, <1>2, FS_Subset
<1>4. FilledTo(fields, k) = { j \in 1..k : fields[j] # "" }
  <2>1. \A j \in 1..k : j \in Nat
    OBVIOUS
  <2> QED BY <2>1, Zenon DEF FilledTo, Filling
<1> QED BY <1>3, <1>4, FS_CardinalityType DEF CommaAt

LEMMA CommaAtType ==
  ASSUME NEW fields, NEW k \in Nat
  PROVE  CommaAt(fields, k) \in Nat /\ CommaAt(fields, k) >= k
  BY FilledToCount

LEMMA CommaAtZero == ASSUME NEW fields PROVE CommaAt(fields, 0) = 0
<1>1. FilledTo(fields, 0) = {}
  BY DEF FilledTo
<1> QED BY <1>1, FilledToCount, FS_EmptySet

\* From one comma to the next: the field between them, if it is filled.
LEMMA CommaAtNext ==
  ASSUME NEW fields, NEW k \in Nat
  PROVE  CommaAt(fields, k + 1) = CommaAt(fields, k) + (IF fields[k + 1] = "" THEN 1 ELSE 2)
<1> DEFINE F == FilledTo(fields, k)
<1>1. IsFiniteSet(F) /\ Cardinality(F) \in Nat
  BY FilledToCount
<1>2. k + 1 \notin F
  BY DEF FilledTo
<1>3. FilledTo(fields, k + 1) = IF k + 1 \in Filling(fields) THEN F \cup {k + 1} ELSE F
  BY DEF FilledTo
<1>4. Cardinality(F \cup {k + 1}) = Cardinality(F) + 1
  BY <1>1, <1>2, FS_AddElement
<1>5. /\ CommaAt(fields, k) = k + Cardinality(F)
      /\ CommaAt(fields, k + 1) = k + 1 + Cardinality(FilledTo(fields, k + 1))
  BY FilledToCount
<1>6. k + 1 \in Filling(fields) <=> fields[k + 1] # ""
  <2>1. k + 1 \in Nat
    OBVIOUS
  <2> QED BY <2>1, Zenon DEF Filling
<1>7. CommaAt(fields, k + 1) = CommaAt(fields, k) + (IF k + 1 \in Filling(fields) THEN 2 ELSE 1)
  <2> HIDE DEF F
  <2> QED BY <1>1, <1>3, <1>4, <1>5
<1> QED BY <1>6, <1>7, Zenon

LEMMA CommaAtOrder ==
  ASSUME NEW fields, NEW j \in Nat, NEW k \in Nat, j < k
  PROVE  CommaAt(fields, j) < CommaAt(fields, k)
<1>1. FilledTo(fields, j) \in SUBSET FilledTo(fields, k)
  BY DEF FilledTo
<1>2. Cardinality(FilledTo(fields, j)) <= Cardinality(FilledTo(fields, k))
  BY <1>1, FilledToCount, FS_Subset
<1>3. /\ CommaAt(fields, j) = j + Cardinality(FilledTo(fields, j))
      /\ CommaAt(fields, k) = k + Cardinality(FilledTo(fields, k))
      /\ Cardinality(FilledTo(fields, j)) \in Nat
      /\ Cardinality(FilledTo(fields, k)) \in Nat
  BY FilledToCount
<1> QED BY <1>2, <1>3

\* Every position is a comma's, or that of a field before one.
LEMMA EveryPosition ==
  ASSUME NEW fields, NEW n \in Nat, NEW i \in 1..CommaAt(fields, n)
  PROVE  \E k \in 1..n : \/ i = CommaAt(fields, k)
                         \/ i = CommaAt(fields, k) - 1 /\ fields[k] # ""
<1> DEFINE K == { k \in 0..n : i <= CommaAt(fields, k) }
<1>1. n \in K /\ K \in SUBSET Nat
  BY CommaAtType
<1>2. PICK k \in K : \A x \in K : k <= x
  BY <1>1, LeastNat
<1>3. i \in Nat /\ i >= 1
  BY CommaAtType
<1>4. k # 0
  BY <1>2, <1>3, CommaAtZero
<1>5. k \in 1..n /\ k - 1 \in Nat /\ k - 1 \in 0..n /\ (k - 1) + 1 = k /\ ~ (k <= k - 1)
  BY <1>2, <1>4
<1>6. k - 1 \notin K
  BY <1>2, <1>5
<1>7. ~ (i <= CommaAt(fields, k - 1)) /\ i <= CommaAt(fields, k)
  BY <1>2, <1>5, <1>6
<1>8. CommaAt(fields, k) = CommaAt(fields, k - 1) + (IF fields[k] = "" THEN 1 ELSE 2)
  BY <1>5, CommaAtNext
<1>9. CommaAt(fields, k - 1) \in Nat
  BY <1>5, CommaAtType
<1>10. CASE fields[k] = ""
  <2>1. CommaAt(fields, k) = CommaAt(fields, k - 1) + 1
    BY <1>8, <1>10, Zenon
  <2>2. i = CommaAt(fields, k)
    BY <1>3, <1>7, <1>9, <2>1
  <2> QED BY <1>5, <2>2, Zenon
<1>11. CASE fields[k] # ""
  <2>1. CommaAt(fields, k) = CommaAt(fields, k - 1) + 2
    BY <1>8, <1>11, Zenon
  <2>2. i = CommaAt(fields, k) \/ i = CommaAt(fields, k) - 1
    BY <1>3, <1>7, <1>9, <2>1
  <2> QED BY <1>5, <1>11, <2>2, Zenon
<1> QED BY <1>10, <1>11

\* There are k commas after the first k fields.
LEMMA CommasCounted ==
  ASSUME NEW fields, NEW k \in Nat
  PROVE  Cardinality({ CommaAt(fields, j) : j \in 1..k }) = k
<1> DEFINE T == { CommaAt(fields, j) : j \in 1..k }
           f == [j \in 1..k |-> CommaAt(fields, j)]
<1>1. f \in [1..k -> T]
  OBVIOUS
<1>2. ASSUME NEW a \in 1..k, NEW b \in 1..k, f[a] = f[b] PROVE a = b
  <2>1. a \in Nat /\ b \in Nat /\ CommaAt(fields, a) = CommaAt(fields, b)
    BY <1>2
  <2>2. CommaAt(fields, a) \in Nat
    BY <2>1, CommaAtType
  <2>3. a < b => CommaAt(fields, a) < CommaAt(fields, b)
    BY <2>1, CommaAtOrder
  <2>4. b < a => CommaAt(fields, b) < CommaAt(fields, a)
    BY <2>1, CommaAtOrder
  <2> QED BY <2>1, <2>2, <2>3, <2>4
<1>3. \A t \in T : \E j \in 1..k : f[j] = t
  OBVIOUS
<1> HIDE DEF f, T
<1>4. f \in Bijection(1..k, T)
  BY <1>1, <1>2, <1>3, Fun_IsBij
<1>5. ExistsBijection(1..k, T)
  BY <1>4 DEF ExistsBijection
<1>6. Cardinality(T) = k
  BY <1>5, FS_CountingElements
<1> QED BY <1>6 DEF T

\* What Lists() says, with the lengths.
LEMMA Listed ==
  ASSUME NEW data, data \in Seq(Symbols), NEW fields, Lists(data, fields)
  PROVE  /\ Len(fields) \in Nat /\ Len(fields) >= 1
         /\ fields = [k \in 1..Len(fields) |-> fields[k]]
         /\ DOMAIN data = 1..Len(data) /\ Len(data) \in Nat
         /\ Len(data) = CommaAt(fields, Len(fields)) - 1
<1>1. \A X : \A f \in Seq(X) : /\ Len(f) \in Nat /\ DOMAIN f = 1..Len(f)
                               /\ f = [k \in 1..Len(f) |-> f[k]]
                               /\ f # << >> => Len(f) >= 1
  OBVIOUS
<1>2. fields \in Seq(Symbols \cup {""}) /\ fields # << >> /\ Len(data) = CommaAt(fields, Len(fields)) - 1
  BY Zenon DEF Lists
<1> QED BY <1>1, <1>2, Zenon

LEMMA CommaIsListed ==
  ASSUME NEW data, data \in Seq(Symbols), NEW fields, Lists(data, fields)
  PROVE  Commas(data) = { CommaAt(fields, j) : j \in 1..(Len(fields) - 1) }
<1> DEFINE n == Len(fields)
           T == { CommaAt(fields, j) : j \in 1..(n - 1) }
<1>1. n \in Nat /\ n >= 1 /\ Len(data) = CommaAt(fields, n) - 1 /\ DOMAIN data = 1..Len(data)
  BY Listed
<1>2. CommaAt(fields, n) \in Nat
  BY <1>1, CommaAtType
<1>3. ASSUME NEW j \in 1..(n - 1) PROVE CommaAt(fields, j) \in Commas(data)
  <2>1. j \in Nat /\ j >= 1 /\ j < n
    BY <1>1
  <2>2. CommaAt(fields, j) \in Nat /\ CommaAt(fields, j) >= j
    BY <2>1, CommaAtType
  <2>3. CommaAt(fields, j) < CommaAt(fields, n)
    BY <2>1, <1>1, CommaAtOrder
  <2>4. CommaAt(fields, j) \in DOMAIN data
    <3> HIDE DEF n
    <3> QED BY <1>1, <1>2, <2>1, <2>2, <2>3
  <2>5. data[CommaAt(fields, j)] = Comma
    BY DEF Lists
  <2> QED BY <2>4, <2>5 DEF Commas
<1>4. ASSUME NEW i \in Commas(data) PROVE i \in T
  <2>1. i \in 1..Len(data) /\ data[i] = Comma
    BY <1>1 DEF Commas
  <2>2. i \in 1..CommaAt(fields, n) /\ i # CommaAt(fields, n)
    <3> HIDE DEF n
    <3> QED BY <1>1, <1>2, <2>1
  <2>3. PICK k \in 1..n : \/ i = CommaAt(fields, k)
                          \/ i = CommaAt(fields, k) - 1 /\ fields[k] # ""
    BY <1>1, <2>2, EveryPosition
  <2>4. ASSUME i = CommaAt(fields, k) - 1, fields[k] # "" PROVE FALSE
    <3>1. k \in 1..Len(fields)
      OBVIOUS
    <3>2. fields[k] # Comma /\ data[CommaAt(fields, k) - 1] = fields[k]
      BY <2>4, <3>1, Zenon DEF Lists
    <3> QED BY <2>1, <2>4, <3>2, Zenon
  <2>5. i = CommaAt(fields, k)
    BY <2>3, <2>4, Zenon
  <2>6. k \in 1..(n - 1)
    <3>1. k # n
      BY <2>2, <2>5
    <3> HIDE DEF n
    <3> QED BY <1>1, <3>1
  <2> QED BY <2>5, <2>6
<1> QED BY <1>3, <1>4

\* The field a position belongs to is told by the commas before it.
LEMMA CommasBefore ==
  ASSUME NEW data, data \in Seq(Symbols), NEW fields, Lists(data, fields),
         NEW k \in 1..Len(fields), k \in Filling(fields)
  PROVE  /\ CommaAt(fields, k) - 1 \in DOMAIN data \ Commas(data)
         /\ Cardinality({ c \in Commas(data) : c < CommaAt(fields, k) - 1 }) = k - 1
<1> DEFINE n == Len(fields)
           i == CommaAt(fields, k) - 1
<1>1. n \in Nat /\ n >= 1 /\ Len(data) = CommaAt(fields, n) - 1 /\ DOMAIN data = 1..Len(data)
  BY Listed
<1>2. k \in Nat /\ k >= 1 /\ k <= n /\ k - 1 \in Nat /\ (k - 1) + 1 = k
  BY <1>1
<1>3. CommaAt(fields, n) \in Nat /\ CommaAt(fields, k) \in Nat /\ CommaAt(fields, k - 1) \in Nat
  BY <1>1, <1>2, CommaAtType
<1>4. CommaAt(fields, k) = CommaAt(fields, k - 1) + 2
  <2>1. fields[(k - 1) + 1] # ""
    BY <1>2, Zenon DEF Filling
  <2>2. CommaAt(fields, (k - 1) + 1) = CommaAt(fields, k - 1) + (IF fields[(k - 1) + 1] = "" THEN 1 ELSE 2)
    BY <1>2, CommaAtNext
  <2>3. CommaAt(fields, (k - 1) + 1) = CommaAt(fields, k - 1) + 2
    BY <2>1, <2>2, Zenon
  <2> QED BY <1>2, <2>3, Zenon
<1>5. k < n => CommaAt(fields, k) < CommaAt(fields, n)
  BY <1>1, <1>2, CommaAtOrder
<1>6. CommaAt(fields, k) <= CommaAt(fields, n)
  <2>1. k = n \/ k < n
    BY <1>1, <1>2
  <2>2. CASE k = n
    BY <2>2, <1>3
  <2>3. CASE k < n
    BY <2>3, <1>3, <1>5
  <2> QED BY <2>1, <2>2, <2>3
<1>7. i \in DOMAIN data
  <2> HIDE DEF n
  <2> QED BY <1>1, <1>3, <1>4, <1>6
<1>8. data[i] # Comma
  <2>1. fields[k] # Comma /\ data[CommaAt(fields, k) - 1] = fields[k]
    BY Zenon DEF Lists, Filling
  <2> QED BY <2>1, Zenon
<1>9. i \in DOMAIN data \ Commas(data)
  BY <1>7, <1>8 DEF Commas
<1>10. \A j \in 1..(n - 1) : CommaAt(fields, j) < i <=> j \in 1..(k - 1)
  <2> SUFFICES ASSUME NEW j \in 1..(n - 1)
               PROVE  CommaAt(fields, j) < i <=> j \in 1..(k - 1)
    OBVIOUS
  <2>1. j \in Nat /\ j >= 1 /\ CommaAt(fields, j) \in Nat
    BY <1>1, CommaAtType
  <2>2. j < k - 1 => CommaAt(fields, j) < CommaAt(fields, k - 1)
    BY <2>1, <1>2, CommaAtOrder
  <2>3. k < j => CommaAt(fields, k) < CommaAt(fields, j)
    BY <2>1, <1>2, CommaAtOrder
  <2>4. CASE j < k - 1
    BY <2>1, <2>2, <2>4, <1>2, <1>3, <1>4
  <2>5. CASE j = k - 1
    BY <2>1, <2>5, <1>2, <1>3, <1>4
  <2>6. CASE j = k
    BY <2>1, <2>6, <1>2, <1>3, <1>4
  <2>7. CASE k < j
    BY <2>1, <2>3, <2>7, <1>2, <1>3, <1>4
  <2> QED BY <2>1, <2>4, <2>5, <2>6, <2>7, <1>2
<1>11. { c \in Commas(data) : c < i } = { CommaAt(fields, j) : j \in 1..(k - 1) }
  <2>1. Commas(data) = { CommaAt(fields, j) : j \in 1..(n - 1) }
    BY CommaIsListed
  <2>2. \A j \in 1..(k - 1) : j \in 1..(n - 1)
    <3> HIDE DEF n
    <3> QED BY <1>1, <1>2
  <2> HIDE DEF n, i
  <2>3. ASSUME NEW c, c \in Commas(data), c < i
        PROVE  c \in { CommaAt(fields, j) : j \in 1..(k - 1) }
    <3>1. PICK j \in 1..(n - 1) : c = CommaAt(fields, j)
      BY <2>1, <2>3
    <3> QED BY <3>1, <2>3, <1>10
  <2>4. ASSUME NEW j \in 1..(k - 1)
        PROVE  CommaAt(fields, j) \in Commas(data) /\ CommaAt(fields, j) < i
    BY <2>1, <2>2, <1>10
  <2> QED BY <2>3, <2>4
<1>12. Cardinality({ CommaAt(fields, j) : j \in 1..(k - 1) }) = k - 1
  BY <1>2, CommasCounted
<1> QED BY <1>9, <1>11, <1>12

\* data.split(",") undoes the joining.
LEMMA SplitOf ==
  ASSUME NEW data, data \in Seq(Symbols), NEW fields, Lists(data, fields)
  PROVE  Split(data) = fields
<1> DEFINE n == Len(fields)
           Own(k) == { i \in DOMAIN data \ Commas(data) :
                         Cardinality({ c \in Commas(data) : c < i }) = k - 1 }
<1>1. n \in Nat /\ n >= 1 /\ Len(data) = CommaAt(fields, n) - 1 /\ DOMAIN data = 1..Len(data)
  BY Listed
<1>2. Cardinality(Commas(data)) + 1 = n
  <2>1. Cardinality({ CommaAt(fields, j) : j \in 1..(n - 1) }) = n - 1
    BY <1>1, CommasCounted
  <2>2. Cardinality(Commas(data)) = n - 1
    BY <2>1, CommaIsListed, Zenon
  <2> HIDE DEF n
  <2> QED BY <1>1, <2>2
<1>8. ASSUME NEW j \in 1..n, j \in Filling(fields)
      PROVE  Cardinality({ c \in Commas(data) : c < CommaAt(fields, j) - 1 }) = j - 1
  BY <1>8, CommasBefore
<1>3. ASSUME NEW k \in 1..n, NEW i \in Own(k)
      PROVE  fields[k] # "" /\ i = CommaAt(fields, k) - 1
  <2>1. i \in 1..Len(data) /\ i \notin Commas(data) /\ Cardinality({ c \in Commas(data) : c < i }) = k - 1
    BY <1>1
  <2>2. i \in 1..CommaAt(fields, n) /\ i # CommaAt(fields, n)
    <3>1. CommaAt(fields, n) \in Nat
      BY <1>1, CommaAtType
    <3> HIDE DEF n
    <3> QED BY <1>1, <2>1, <3>1
  <2>3. PICK j \in 1..n : \/ i = CommaAt(fields, j)
                          \/ i = CommaAt(fields, j) - 1 /\ fields[j] # ""
    BY <1>1, <2>2, EveryPosition
  <2>4. i # CommaAt(fields, j)
    <3> SUFFICES ASSUME i = CommaAt(fields, j) PROVE FALSE
      OBVIOUS
    <3>1. j # n
      BY <2>2
    <3>2. j \in 1..(n - 1)
      <4> HIDE DEF n
      <4> QED BY <1>1, <3>1
    <3>3. i \in Commas(data)
      BY <3>2, CommaIsListed
    <3> QED BY <2>1, <3>3
  <2>5. i = CommaAt(fields, j) - 1 /\ fields[j] # ""
    BY <2>3, <2>4, Zenon
  <2>6. Cardinality({ c \in Commas(data) : c < CommaAt(fields, j) - 1 }) = j - 1
    <3>1. j \in Nat /\ j \in 1..Len(fields)
      OBVIOUS
    <3>2. j \in Filling(fields)
      BY <2>5, <3>1, Zenon DEF Filling
    <3> QED BY <3>2, <1>8, Zenon
  <2>7. j - 1 = k - 1
    BY <2>1, <2>5, <2>6, Zenon
  <2>8. j = k
    BY <2>7, <1>1
  <2> QED BY <2>5, <2>8, Zenon
<1>4. ASSUME NEW k \in 1..n, fields[k] # ""
      PROVE  Own(k) = {CommaAt(fields, k) - 1} /\ data[CommaAt(fields, k) - 1] = fields[k]
  <2>1. k \in 1..Len(fields)
    OBVIOUS
  <2>2. CommaAt(fields, k) - 1 \in Own(k)
    <3>1. k \in Nat
      OBVIOUS
    <3>2. k \in Filling(fields)
      BY <1>4, <3>1, Zenon DEF Filling
    <3>3. CommaAt(fields, k) - 1 \in DOMAIN data \ Commas(data)
      BY <2>1, <3>2, CommasBefore, Zenon
    <3>4. Cardinality({ c \in Commas(data) : c < CommaAt(fields, k) - 1 }) = k - 1
      BY <2>1, <3>2, <1>8, Zenon
    <3> QED BY <3>3, <3>4, Zenon
  <2>3. \A i \in Own(k) : i = CommaAt(fields, k) - 1
    BY <1>3, Zenon
  <2>4. data[CommaAt(fields, k) - 1] = fields[k]
    BY <2>1, <1>4, Zenon DEF Lists
  <2> HIDE DEF Own
  <2> QED BY <2>2, <2>3, <2>4, Zenon
<1>5. ASSUME NEW k \in 1..n
      PROVE  fields[k] = IF Own(k) = {} THEN "" ELSE data[Max(Own(k))]
  <2>1. CASE fields[k] = ""
    <3>1. Own(k) = {}
      <4> HIDE DEF Own
      <4> QED BY <1>3, <2>1, Zenon
    <3> HIDE DEF Own
    <3> QED BY <2>1, <3>1, Zenon
  <2>2. CASE fields[k] # ""
    <3>1. CommaAt(fields, k) - 1 \in Int
      BY <1>1, CommaAtType
    <3>2. Max({CommaAt(fields, k) - 1}) = CommaAt(fields, k) - 1
      BY <3>1 DEF Max
    <3>3. Own(k) = {CommaAt(fields, k) - 1} /\ data[CommaAt(fields, k) - 1] = fields[k]
      BY <1>4, <2>2
    <3> HIDE DEF Own
    <3> QED BY <3>2, <3>3, Zenon
  <2> QED BY <2>1, <2>2
<1>6. Split(data) = [k \in 1..n |-> IF Own(k) = {} THEN "" ELSE data[Max(Own(k))]]
  BY <1>2, Zenon DEF Split
<1>7. fields = [k \in 1..n |-> fields[k]]
  BY Listed, Zenon
<1> HIDE DEF Own
<1> QED BY <1>5, <1>6, <1>7

----------------------------------------------------------------------------
(* One more field.                                                         *)

LEMMA TagsApart ==
  /\ NumberTags \cap CoordinateTags = {} /\ NumberTags \cap TimeTags = {}
  /\ CoordinateTags \cap TimeTags = {} /\ IgnitionTags \subseteq NumberTags
  /\ "#DEST#" \notin NumberTags \cup CoordinateTags \cup TimeTags
  /\ "ignition" \notin SupportedTags
  /\ "#EID#" \in NumberTags \ IgnitionTags
  /\ SupportedTags = NumberTags \cup CoordinateTags \cup TimeTags \cup {"#DEST#"}
  /\ \A tag \in IgnitionTags \cup {"#EID#"} : NumberIn(tag) = IntIn
  BY DEF NumberTags, IntTags, FloatTags, CoordinateTags, TimeTags, IgnitionTags, SupportedTags, NumberIn

\* What a field with a tag and a text says entry t is, if it says anything.
Tells(tag, v, t) ==
    IF t = "ignition"
    THEN \/ tag \in IgnitionTags
         \/ tag = "#EID#" /\ IntIn[v] \in {24, 25}
    ELSE tag = t /\ t \notin IgnitionTags

Told(tag, v, t) ==
    CASE t = "ignition"        -> IF tag = "#EID#" THEN IntIn[v] = 24 ELSE IntIn[v] > 0
      [] t \in TimeTags        -> IF v \in DOMAIN TimeIn THEN TimeIn[v] ELSE Null
      [] t \in CoordinateTags  -> CoordinateIn[v]
      [] t \in NumberTags      -> NumberIn(t)[v]
      [] OTHER                 -> v

\* The loop's assignment sets the entries the field tells of.
LEMMA AssignmentTells ==
  ASSUME NEW tag \in SupportedTags, NEW v
  PROVE  /\ DOMAIN Assignment(tag, v) = { t \in Entries : Tells(tag, v, t) }
         /\ \A t \in Entries : Tells(tag, v, t) => Assignment(tag, v)[t] = Told(tag, v, t)
<1> USE DEF Entries, Tells, Told
<1>1. CASE tag \in TimeTags
  <2> DEFINE x == IF v \in DOMAIN TimeIn THEN TimeIn[v] ELSE Null
  <2>1. Assignment(tag, v) = [t \in {tag} |-> x]
    BY <1>1, TagsApart, Zenon DEF Assignment, Entry
  <2>2. \A t \in Entries : Tells(tag, v, t) <=> t = tag
    BY <1>1, TagsApart
  <2>3. tag \in Entries /\ Told(tag, v, tag) = x
    BY <1>1, TagsApart
  <2> HIDE DEF x
  <2> QED BY <2>1, <2>2, <2>3
<1>2. CASE tag \in CoordinateTags
  <2>1. Assignment(tag, v) = [t \in {tag} |-> CoordinateIn[v]]
    BY <1>2, TagsApart, Zenon DEF Assignment, Entry
  <2>2. \A t \in Entries : Tells(tag, v, t) <=> t = tag
    BY <1>2, TagsApart
  <2>3. tag \in Entries /\ Told(tag, v, tag) = CoordinateIn[v]
    BY <1>2, TagsApart
  <2> QED BY <2>1, <2>2, <2>3
<1>3. CASE tag = "#DEST#"
  <2>1. Assignment(tag, v) = [t \in {tag} |-> v]
    BY <1>3, TagsApart, Zenon DEF Assignment, Entry
  <2>2. \A t \in Entries : Tells(tag, v, t) <=> t = tag
    BY <1>3, TagsApart
  <2>3. tag \in Entries /\ Told(tag, v, tag) = v
    BY <1>3, TagsApart
  <2> QED BY <2>1, <2>2, <2>3
<1>4. CASE tag \in IgnitionTags
  <2>1. Assignment(tag, v) = [t \in {"ignition"} |-> (IntIn[v] > 0)]
    BY <1>4, TagsApart, Zenon DEF Assignment, Entry
  <2>2. \A t \in Entries : Tells(tag, v, t) <=> t = "ignition"
    BY <1>4, TagsApart
  <2>3. "ignition" \in Entries /\ Told(tag, v, "ignition") = (IntIn[v] > 0)
    BY <1>4, TagsApart
  <2> QED BY <2>1, <2>2, <2>3
<1>5. CASE tag \in NumberTags \ IgnitionTags /\ ~ (tag = "#EID#" /\ IntIn[v] \in {24, 25})
  <2>1. Assignment(tag, v) = [t \in {tag} |-> NumberIn(t)[v]]
    BY <1>5, TagsApart, Zenon DEF Assignment, Entry
  <2>2. \A t \in Entries : Tells(tag, v, t) <=> t = tag
    BY <1>5, TagsApart
  <2>3. tag \in Entries /\ Told(tag, v, tag) = NumberIn(tag)[v]
    BY <1>5, TagsApart
  <2> QED BY <2>1, <2>2, <2>3
<1>6. CASE tag = "#EID#" /\ IntIn[v] \in {24, 25}
  <2> DEFINE on == IntIn[v] = 24
  <2>1. Assignment(tag, v) = Assign(Entry("ignition", on), Entry(tag, IntIn[v]))
    BY <1>6, TagsApart, Zenon DEF Assignment
  <2>2. Assignment(tag, v) = [t \in {"ignition"} \cup {tag} |-> IF t \in {"ignition"} THEN on ELSE IntIn[v]]
    BY <2>1 DEF Assign, Entry
  <2>3. \A t \in Entries : Tells(tag, v, t) <=> t = tag \/ t = "ignition"
    BY <1>6, TagsApart
  <2>4. tag \in Entries /\ Told(tag, v, tag) = IntIn[v]
    BY <1>6, TagsApart
  <2>5. "ignition" \in Entries /\ Told(tag, v, "ignition") = on /\ tag # "ignition"
    BY <1>6, TagsApart
  <2> QED BY <2>2, <2>3, <2>4, <2>5
<1> QED BY <1>1, <1>2, <1>3, <1>4, <1>5, <1>6, TagsApart

\* Says() and ValueOf() in these words.
LEMMA SaysTells ==
  ASSUME NEW m, NEW S, NEW t
  PROVE  Says(m, S, t) = { i \in Known(S) \ Damaged(m, S) : Tells(FormatTags[i], m.fields[i], t) }
  BY Zenon DEF Says, Tells

LEMMA ValueIsTold ==
  ASSUME NEW m, NEW i, NEW t
  PROVE  ValueOf(m, t, i) = Told(FormatTags[i], m.fields[i], t)
  BY Zenon DEF ValueOf, Told

\* A field is damaged exactly if its conversion throws.
LEMMA DamagedThrows ==
  ASSUME NEW m, NEW S
  PROVE  Damaged(m, S) = { i \in Known(S) : ~ Converts(FormatTags[i], m.fields[i]) }
  BY Zenon DEF Damaged, Converts

LEMMA MaxOfNext ==
  ASSUME NEW i \in Nat, NEW S, S \in SUBSET Nat, \A j \in S : j < i
  PROVE  Max(S \cup {i}) = i
<1>1. S \cup {i} \in SUBSET (0..i) /\ S \cup {i} # {}
  OBVIOUS
<1>2. Max(S \cup {i}) \in S \cup {i} /\ Max(S \cup {i}) >= i
  BY <1>1, MaxIsGreatest
<1>3. \A x \in S \cup {i} : x >= i => x = i
  OBVIOUS
<1> QED BY <1>2, <1>3

\* The report after the fields S and one more is the report after S to which
\* the turn of that field is applied.
LEMMA TurnOfField ==
  ASSUME NEW m, NEW i \in Nat, NEW S, S \in SUBSET Nat, \A j \in S : j < i
  PROVE  MeaningOf(m, S \cup {i}) = ApplyTag(i, m.fields[i], MeaningOf(m, S))
<1> DEFINE T == S \cup {i}
           tag == FormatTags[i]
           v == m.fields[i]
           R == MeaningOf(m, S)
           Payload(U) == [t \in { e \in Entries : Says(m, U, e) # {} } |->
                            ValueOf(m, t, Max(Says(m, U, t)))]
<1>0. i \notin S
  OBVIOUS
<1>1. CASE tag \notin SupportedTags
  <2>1. Known(T) = Known(S)
    BY <1>1 DEF Known
  <2>2. Damaged(m, T) = Damaged(m, S)
    BY <2>1, Zenon DEF Damaged
  <2>3. \A t : Says(m, T, t) = Says(m, S, t)
    BY <2>1, <2>2, Zenon DEF Says
  <2>4. Payload(T) = Payload(S)
    <3> HIDE DEF T
    <3> QED BY <2>3
  <2>5. T \ Known(T) = (S \ Known(S)) \cup {i}
    BY <1>0, <2>1 DEF Known
  <2> HIDE DEF T, Payload
  <2>6. R = [payload |-> Payload(S), warned |-> Damaged(m, S), unsupported |-> S \ Known(S),
             extra |-> Len(m.fields) > Len(FormatTags)]
    BY Zenon DEF MeaningOf, Payload
  <2>7. MeaningOf(m, T) = [payload |-> Payload(S), warned |-> Damaged(m, S),
                           unsupported |-> (S \ Known(S)) \cup {i},
                           extra |-> Len(m.fields) > Len(FormatTags)]
    BY <2>2, <2>4, <2>5, Zenon DEF MeaningOf, Payload
  <2>8. ApplyTag(i, v, R) = [R EXCEPT !.unsupported = @ \cup {i}]
    BY <1>1, Zenon DEF ApplyTag
  <2> HIDE DEF R
  <2>9. ApplyTag(i, v, R) = MeaningOf(m, T)
    BY <2>6, <2>7, <2>8
  <2> QED BY <2>9 DEF T, R
<1>2. CASE tag \in SupportedTags /\ ~ Converts(tag, v)
  <2>1. Known(T) = Known(S) \cup {i}
    BY <1>2 DEF Known
  <2>2. Damaged(m, T) = Damaged(m, S) \cup {i}
    BY <1>2, <2>1, DamagedThrows
  <2>3. i \notin Known(S)
    BY <1>0 DEF Known
  <2>4. Known(T) \ Damaged(m, T) = Known(S) \ Damaged(m, S)
    BY <2>1, <2>2, <2>3
  <2>5. \A t : Says(m, T, t) = Says(m, S, t)
    BY <2>4, SaysTells, Zenon
  <2>6. Payload(T) = Payload(S)
    <3> HIDE DEF T
    <3> QED BY <2>5
  <2>7. T \ Known(T) = S \ Known(S)
    BY <1>0, <2>1
  <2> HIDE DEF T, Payload
  <2>8. R = [payload |-> Payload(S), warned |-> Damaged(m, S), unsupported |-> S \ Known(S),
             extra |-> Len(m.fields) > Len(FormatTags)]
    BY Zenon DEF MeaningOf, Payload
  <2>9. MeaningOf(m, T) = [payload |-> Payload(S), warned |-> Damaged(m, S) \cup {i},
                           unsupported |-> S \ Known(S),
                           extra |-> Len(m.fields) > Len(FormatTags)]
    BY <2>2, <2>6, <2>7, Zenon DEF MeaningOf, Payload
  <2>10. ApplyTag(i, v, R) = [R EXCEPT !.warned = @ \cup {i}]
    BY <1>2, Zenon DEF ApplyTag
  <2> HIDE DEF R
  <2>11. ApplyTag(i, v, R) = MeaningOf(m, T)
    BY <2>8, <2>9, <2>10
  <2> QED BY <2>11 DEF T, R
<1>3. CASE tag \in SupportedTags /\ Converts(tag, v)
  <2> DEFINE A == Assignment(tag, v)
  <2>1. Known(T) = Known(S) \cup {i}
    BY <1>3 DEF Known
  <2>2. Damaged(m, T) = Damaged(m, S)
    BY <1>3, <2>1, DamagedThrows
  <2>3. i \notin Known(S) /\ i \notin Damaged(m, S) /\ Known(S) \subseteq S
    BY <1>0, DamagedThrows DEF Known
  <2>4. \A t : Says(m, T, t) = IF Tells(tag, v, t) THEN Says(m, S, t) \cup {i} ELSE Says(m, S, t)
    <3> SUFFICES ASSUME NEW t
                 PROVE  Says(m, T, t) = IF Tells(tag, v, t) THEN Says(m, S, t) \cup {i} ELSE Says(m, S, t)
      OBVIOUS
    <3> DEFINE P(j) == Tells(FormatTags[j], m.fields[j], t)
    <3>1. /\ Says(m, T, t) = { j \in Known(T) \ Damaged(m, T) : P(j) }
          /\ Says(m, S, t) = { j \in Known(S) \ Damaged(m, S) : P(j) }
      BY SaysTells, Zenon
    <3>2. Known(T) \ Damaged(m, T) = (Known(S) \ Damaged(m, S)) \cup {i}
      BY <2>1, <2>2, <2>3
    <3>3. P(i) <=> Tells(tag, v, t)
      OBVIOUS
    <3> HIDE DEF P, T, tag, v
    <3> QED BY <3>1, <3>2, <3>3
  <2>5. \A t : Says(m, S, t) \in SUBSET Nat /\ \A j \in Says(m, S, t) : j < i
    <3>1. \A t : Says(m, S, t) \subseteq Known(S)
      BY SaysTells
    <3> QED BY <2>3, <3>1
  <2>6. /\ DOMAIN A = { t \in Entries : Tells(tag, v, t) }
        /\ \A t \in Entries : Tells(tag, v, t) => A[t] = Told(tag, v, t)
    BY <1>3, AssignmentTells
  <2>7. \A t \in Entries : Tells(tag, v, t) =>
           Says(m, T, t) # {} /\ ValueOf(m, t, Max(Says(m, T, t))) = A[t]
    <3> SUFFICES ASSUME NEW t \in Entries, Tells(tag, v, t)
                 PROVE  Says(m, T, t) # {} /\ ValueOf(m, t, Max(Says(m, T, t))) = A[t]
      OBVIOUS
    <3>1. Says(m, T, t) = Says(m, S, t) \cup {i}
      BY <2>4, Zenon
    <3>2. Max(Says(m, S, t) \cup {i}) = i
      BY <2>5, MaxOfNext
    <3>3. ValueOf(m, t, i) = A[t]
      BY <2>6, ValueIsTold, Zenon
    <3>4. Says(m, T, t) # {}
      <4> HIDE DEF T
      <4> QED BY <3>1
    <3> QED BY <3>1, <3>2, <3>3, <3>4, Zenon
  <2>8. \A t \in Entries : ~ Tells(tag, v, t) => Says(m, T, t) = Says(m, S, t)
    BY <2>4, Zenon
  <2>9. Payload(T) = Assign(A, Payload(S))
    <3> DEFINE D == { e \in Entries : Says(m, T, e) # {} }
               E == { e \in Entries : Says(m, S, e) # {} }
    <3>1. \A t : Says(m, S, t) # {} => Says(m, T, t) # {}
      <4> HIDE DEF T
      <4> QED BY <2>4
    <3> HIDE DEF T, A, tag, v
    <3>2. D = DOMAIN A \cup E
      BY <2>6, <2>7, <2>8, <3>1
    <3>3. ASSUME NEW t \in D
          PROVE  ValueOf(m, t, Max(Says(m, T, t))) =
                    IF t \in DOMAIN A THEN A[t] ELSE ValueOf(m, t, Max(Says(m, S, t)))
      <4>1. CASE t \in DOMAIN A
        BY <4>1, <2>6, <2>7, Zenon
      <4>2. CASE t \notin DOMAIN A
        <5>1. t \in Entries /\ ~ Tells(tag, v, t)
          BY <4>2, <2>6
        <5> QED BY <4>2, <5>1, <2>8, Zenon
      <4> QED BY <4>1, <4>2
    <3>4. DOMAIN Payload(S) = E /\ \A t \in E : Payload(S)[t] = ValueOf(m, t, Max(Says(m, S, t)))
      BY Zenon
    <3>5. Payload(T) = [t \in D |-> ValueOf(m, t, Max(Says(m, T, t)))]
      BY Zenon
    <3>6. Assign(A, Payload(S)) = [t \in D |-> IF t \in DOMAIN A THEN A[t] ELSE Payload(S)[t]]
      BY <3>2, <3>4, Zenon DEF Assign
    <3>7. ASSUME NEW t \in D
          PROVE  ValueOf(m, t, Max(Says(m, T, t))) = IF t \in DOMAIN A THEN A[t] ELSE Payload(S)[t]
      <4> HIDE DEF D, E, Payload
      <4> QED BY <3>2, <3>3, <3>4
    <3> HIDE DEF D, E, Payload
    <3> QED BY <3>5, <3>6, <3>7
  <2>10. T \ Known(T) = S \ Known(S)
    BY <1>0, <2>1
  <2> HIDE DEF T, Payload
  <2>11. R = [payload |-> Payload(S), warned |-> Damaged(m, S), unsupported |-> S \ Known(S),
              extra |-> Len(m.fields) > Len(FormatTags)]
    BY Zenon DEF MeaningOf, Payload
  <2>12. MeaningOf(m, T) = [payload |-> Assign(A, Payload(S)), warned |-> Damaged(m, S),
                            unsupported |-> S \ Known(S),
                            extra |-> Len(m.fields) > Len(FormatTags)]
    BY <2>2, <2>9, <2>10, Zenon DEF MeaningOf, Payload
  <2>13. ApplyTag(i, v, R) = [R EXCEPT !.payload = Assign(A, @)]
    BY <1>3, Zenon DEF ApplyTag
  <2> HIDE DEF R, A
  <2>14. ApplyTag(i, v, R) = MeaningOf(m, T)
    BY <2>11, <2>12, <2>13
  <2> QED BY <2>14 DEF T, R
<1> QED BY <1>1, <1>2, <1>3

----------------------------------------------------------------------------
(* The loop over the fields.                                               *)

\* The report after i turns is the meaning of the fields up to the i-th.
UpTo(m, i) == { j \in Filled(m) : j <= i }

LEMMA UpToNext ==
  ASSUME NEW m, Len(m.fields) \in Nat, DOMAIN m.fields = 1..Len(m.fields),
         NEW i \in Nat, i >= 1, i <= Len(m.fields), i <= Len(FormatTags)
  PROVE  /\ UpTo(m, i - 1) \in SUBSET Nat /\ \A j \in UpTo(m, i - 1) : j < i
         /\ UpTo(m, i) = IF m.fields[i] = "" THEN UpTo(m, i - 1) ELSE UpTo(m, i - 1) \cup {i}
<1>1. Len(FormatTags) \in Nat
  BY FormatTagsAssumption
<1>2. i \in Filled(m) <=> m.fields[i] # ""
  <2>1. i \in 1..Len(m.fields)
    OBVIOUS
  <2> QED BY <2>1, Zenon DEF Filled
<1>3. Filled(m) \in SUBSET (1..Len(m.fields))
  BY Zenon DEF Filled
<1> HIDE DEF Filled
<1>4. UpTo(m, i - 1) \in SUBSET Nat /\ \A j \in UpTo(m, i - 1) : j < i
  BY <1>3 DEF UpTo
<1>5. UpTo(m, i) = IF i \in Filled(m) THEN UpTo(m, i - 1) \cup {i} ELSE UpTo(m, i - 1)
  BY <1>3 DEF UpTo
<1> QED BY <1>2, <1>4, <1>5, Zenon

\* Before the first turn.
LEMMA NothingRead ==
  ASSUME NEW m
  PROVE  MeaningOf(m, {}) = [EmptyReport EXCEPT !.extra = Len(m.fields) > Len(FormatTags)]
<1>1. Known({}) = {} /\ Damaged(m, {}) = {}
  BY DEF Known, Damaged
<1>2. \A t : Says(m, {}, t) = {}
  BY <1>1 DEF Says
<1>3. { e \in Entries : Says(m, {}, e) # {} } = {}
  BY <1>2
<1>4. [t \in { e \in Entries : Says(m, {}, e) # {} } |-> ValueOf(m, t, Max(Says(m, {}, t)))]
         = [t \in {} |-> Null]
  BY <1>3
<1>5. MeaningOf(m, {}) = [payload |-> [t \in {} |-> Null], warned |-> {}, unsupported |-> {},
                         extra |-> Len(m.fields) > Len(FormatTags)]
  BY <1>1, <1>4, Zenon DEF MeaningOf
<1>6. \A P, b : [[payload |-> P, warned |-> {}, unsupported |-> {}, extra |-> FALSE] EXCEPT !.extra = b]
                  = [payload |-> P, warned |-> {}, unsupported |-> {}, extra |-> b]
  OBVIOUS
<1> QED BY <1>5, <1>6, Zenon DEF EmptyReport

LEMMA ParsedIsMeant ==
  ASSUME NEW m, NEW data, data \in Seq(Symbols), Lists(data, m.fields)
  PROVE  ParseEventReport(data) = Meaning(m)
<1> DEFINE fields == m.fields
           c == IF Len(fields) < Len(FormatTags) THEN Len(fields) ELSE Len(FormatTags)
           X == [EmptyReport EXCEPT !.extra = Len(fields) > Len(FormatTags)]
           Body(f) == [i \in 0..c |-> IF i = 0 THEN X ELSE ReadField(i, fields[i], f[i - 1])]
           After(i) == MeaningOf(m, UpTo(m, i))
           g == [i \in 0..c |-> After(i)]
<1>1. Split(data) = fields
  BY SplitOf
<1>2. Len(fields) \in Nat /\ Len(fields) >= 1 /\ fields = [k \in 1..Len(fields) |-> fields[k]]
  BY Listed
<1>3. DOMAIN fields = 1..Len(fields)
  BY <1>2
<1>4. Len(FormatTags) \in Nat
  BY FormatTagsAssumption
<1>5. c \in Nat /\ c <= Len(fields) /\ c <= Len(FormatTags) /\ (c = Len(fields) \/ c = Len(FormatTags))
  <2> HIDE DEF fields
  <2> QED BY <1>2, <1>4
<1>6. After(0) = X
  <2>1. UpTo(m, 0) = {}
    <3>1. Filled(m) \in SUBSET (1..Len(fields))
      BY <1>3, Zenon DEF Filled
    <3> HIDE DEF Filled, fields
    <3> QED BY <1>2, <3>1 DEF UpTo
  <2> QED BY <2>1, NothingRead, Zenon
<1>7. ASSUME NEW i \in 1..c PROVE After(i) = ReadField(i, fields[i], After(i - 1))
  <2>1. i \in Nat /\ i >= 1 /\ i <= Len(fields) /\ i <= Len(FormatTags)
    <3> HIDE DEF c
    <3> QED BY <1>2, <1>4, <1>5
  <2>2. /\ UpTo(m, i - 1) \in SUBSET Nat /\ \A j \in UpTo(m, i - 1) : j < i
        /\ UpTo(m, i) = IF fields[i] = "" THEN UpTo(m, i - 1) ELSE UpTo(m, i - 1) \cup {i}
    BY <2>1, <1>2, <1>3, UpToNext
  <2>3. MeaningOf(m, UpTo(m, i - 1) \cup {i}) = ApplyTag(i, fields[i], After(i - 1))
    BY <2>1, <2>2, TurnOfField, Zenon
  <2> QED BY <2>2, <2>3, Zenon DEF ReadField
<1> HIDE DEF c, X, After
<1>8. g = Body(g)
  <2>1. ASSUME NEW i \in 0..c
        PROVE  g[i] = IF i = 0 THEN X ELSE ReadField(i, fields[i], g[i - 1])
    <3>1. g[i] = After(i)
      BY Zenon
    <3>2. CASE i = 0
      BY <3>1, <3>2, <1>6, Zenon
    <3>3. CASE i # 0
      <4>1. i \in 1..c /\ i - 1 \in 0..c
        BY <1>5, <3>3
      <4>2. g[i - 1] = After(i - 1)
        BY <4>1, Zenon
      <4> QED BY <3>1, <3>3, <4>1, <4>2, <1>7, Zenon
    <3> QED BY <3>2, <3>3
  <2>2. g = [i \in 0..c |-> g[i]]
    BY Zenon
  <2> HIDE DEF g
  <2> QED BY <2>1, <2>2
<1> HIDE DEF g
<1> DEFINE r == CHOOSE f : f = Body(f)
<1>9. r = Body(r)
  <2> HIDE DEF Body
  <2> QED BY <1>8, Zenon
<1>10. ParseEventReport(data) = r[c]
  BY <1>1, Zenon DEF ParseEventReport, c, X
<1> HIDE DEF r
<1>11. \A i \in 0..c : r[i] = After(i)
  <2> DEFINE B == { i \in 0..c : r[i] # After(i) }
  <2> SUFFICES ASSUME B # {} PROVE FALSE
    OBVIOUS
  <2>1. B \in SUBSET Nat
    BY <1>5
  <2>2. PICK i \in B : \A x \in B : i <= x
    BY <2>1, LeastNat
  <2>3. i \in 0..c /\ r[i] # After(i)
    BY <2>2
  <2>4. r[i] = IF i = 0 THEN X ELSE ReadField(i, fields[i], r[i - 1])
    BY <1>9, <2>3, Zenon
  <2>5. i # 0
    BY <2>3, <2>4, <1>6, Zenon
  <2>6. i \in 1..c /\ i - 1 \in 0..c /\ ~ (i <= i - 1)
    BY <1>5, <2>3, <2>5
  <2>7. i - 1 \notin B
    BY <2>2, <2>6, Zenon
  <2>8. r[i - 1] = After(i - 1)
    BY <2>6, <2>7, Zenon
  <2> QED BY <2>3, <2>4, <2>5, <2>6, <2>8, <1>7, Zenon
<1>12. After(c) = Meaning(m)
  <2>1. UpTo(m, c) = Filled(m)
    <3>1. \A j \in Filled(m) : j \in 1..Len(fields) /\ j <= Len(FormatTags)
      BY <1>3, Zenon DEF Filled
    <3> HIDE DEF Filled, fields
    <3>2. \A j \in Filled(m) : j <= c
      BY <1>2, <1>4, <1>5, <3>1
    <3> QED BY <3>2 DEF UpTo
  <2> QED BY <2>1, Zenon DEF Meaning, After
<1>13. c \in 0..c
  BY <1>5
<1> QED BY <1>10, <1>11, <1>12, <1>13, Zenon

----------------------------------------------------------------------------
(* The text of a line.                                                     *)

LEMMA Slice ==
  ASSUME NEW s \in Seq(Symbols), NEW a \in Nat, NEW b \in Nat, a <= b, b <= Len(s)
  PROVE  /\ SubSeq(s, a + 1, b) \in Seq(Symbols)
         /\ Len(SubSeq(s, a + 1, b)) = b - a
         /\ DOMAIN SubSeq(s, a + 1, b) = 1..(b - a)
         /\ \A i \in 1..(b - a) : SubSeq(s, a + 1, b)[i] = s[a + i]
<1>1. \A i \in (a + 1)..b : s[i] \in Symbols
  OBVIOUS
<1> DEFINE w == SubSeq(s, a + 1, b)
<1>2. /\ w \in Seq(Symbols)
      /\ Len(w) = IF a + 1 <= b THEN b - (a + 1) + 1 ELSE 0
      /\ \A i \in 1..(b - (a + 1) + 1) : w[i] = s[a + 1 + i - 1]
  BY <1>1, SubSeqProperties
<1> HIDE DEF w
<1>3. Len(w) = b - a /\ DOMAIN w = 1..Len(w)
  BY <1>2
<1>4. \A i \in 1..(b - a) : w[i] = s[a + i]
  BY <1>2
<1> QED BY <1>2, <1>3, <1>4 DEF w

LEMMA SliceOfSlice ==
  ASSUME NEW s \in Seq(Symbols), NEW a \in Nat, NEW b \in Nat, a <= b, b <= Len(s),
         NEW x \in Nat, NEW y \in Nat, x < y, y <= b - a
  PROVE  SubSeq(SubSeq(s, a + 1, b), x + 1, y) = SubSeq(s, a + x + 1, a + y)
<1>1. Len(s) \in Nat
  OBVIOUS
<1>2. /\ a + 1 \in 1..Len(s) /\ b \in 1..Len(s)
      /\ x + 1 \in 1..(b - (a + 1) + 1) /\ y \in 1..(b - (a + 1) + 1)
  BY <1>1
<1>3. SubSeq(SubSeq(s, a + 1, b), x + 1, y) = SubSeq(s, a + 1 + (x + 1) - 1, a + 1 + y - 1)
  BY <1>2, SubSeqOfSubSeq
<1>4. a + 1 + (x + 1) - 1 = a + x + 1 /\ a + 1 + y - 1 = a + y
  OBVIOUS
<1> QED BY <1>3, <1>4, Zenon

\* Trim() keeps what is between the first and the last symbol that is no "\r".
LEMMA Trimmed ==
  ASSUME NEW line \in Seq(Symbols), NEW lo \in 1..Len(line), NEW hi \in 1..Len(line),
         line[lo] # Return, line[hi] # Return,
         \A i \in 1..Len(line) : line[i] # Return => lo <= i /\ i <= hi
  PROVE  Trim(line) = SubSeq(line, lo, hi)
<1> DEFINE kept == { i \in DOMAIN line : line[i] # Return }
<1>1. Len(line) \in Nat /\ DOMAIN line = 1..Len(line)
  OBVIOUS
<1>2. lo \in kept /\ hi \in kept /\ kept \in SUBSET (0..Len(line))
  BY <1>1
<1>3. \A i \in kept : i \in Nat /\ lo <= i /\ i <= hi
  BY <1>1
<1>4. kept # {} /\ Trim(line) = SubSeq(line, Min(kept), Max(kept))
  BY <1>2, Zenon DEF Trim
<1> HIDE DEF kept
<1>5. Min(kept) \in kept /\ Min(kept) <= lo
  BY <1>2, <1>3, MinIsLeast
<1>6. Max(kept) \in kept /\ Max(kept) >= hi
  BY <1>1, <1>2, MaxIsGreatest
<1>7. Min(kept) = lo /\ Max(kept) = hi
  <2>1. \A i \in kept : (i <= lo => i = lo) /\ (i >= hi => i = hi)
    BY <1>3
  <2> QED BY <2>1, <1>5, <1>6
<1> QED BY <1>4, <1>7, Zenon

\* And nothing, if there is none.
LEMMA TrimmedAway ==
  ASSUME NEW line \in Seq(Symbols), Trim(line) # << >>
  PROVE  \E lo, hi \in 1..Len(line) :
            /\ lo <= hi /\ line[lo] # Return /\ line[hi] # Return
            /\ \A i \in 1..Len(line) : line[i] # Return => lo <= i /\ i <= hi
<1> DEFINE kept == { i \in DOMAIN line : line[i] # Return }
<1>1. Len(line) \in Nat /\ DOMAIN line = 1..Len(line)
  OBVIOUS
<1>2. kept # {}
  BY Zenon DEF Trim
<1>3. kept \in SUBSET (0..Len(line)) /\ kept \in SUBSET Nat
  BY <1>1
<1>4. Min(kept) \in kept /\ \A x \in kept : Min(kept) <= x
  BY <1>2, <1>3, MinIsLeast
<1>5. Max(kept) \in kept /\ \A x \in kept : Max(kept) >= x
  BY <1>1, <1>2, <1>3, MaxIsGreatest
<1>6. PICK lo \in kept : \A x \in kept : lo <= x
  BY <1>4
<1>7. PICK hi \in kept : \A x \in kept : hi >= x
  BY <1>5
<1>8. lo \in 1..Len(line) /\ hi \in 1..Len(line) /\ line[lo] # Return /\ line[hi] # Return
  BY <1>1
<1>9. \A i \in 1..Len(line) : line[i] # Return => lo <= i /\ i <= hi
  <2> SUFFICES ASSUME NEW i \in 1..Len(line), line[i] # Return PROVE lo <= i /\ i <= hi
    OBVIOUS
  <2>1. i \in kept
    BY <1>1
  <2> HIDE DEF kept
  <2> QED BY <2>1, <1>6, <1>7, <1>8
<1>10. lo <= hi
  BY <1>8, <1>9
<1> QED BY <1>8, <1>9, <1>10

\* What parseFrame() makes of a line from which trimming and the head byte
\* leave a message.
LEMMA MessageParsed ==
  ASSUME NEW line, NEW rest \in Seq(Symbols), Headless(Trim(line)) = rest,
         NEW m, IsMessage(rest, m)
  PROVE  Matches(line) /\ ParseFrame(line) = Meant(m)
<1>1. Len(rest) \in Nat /\ Len(rest) > 7
  BY DEF IsMessage, IsFrame
<1>2. Matches(line)
  BY LineAssumption, Zenon DEF IsMessage, IsFrame, Matches
<1>3. SubSeq(rest, 7, Len(rest) - 1) \in Seq(Symbols)
  <2>1. 6 \in Nat /\ Len(rest) - 1 \in Nat /\ 6 <= Len(rest) - 1 /\ Len(rest) - 1 <= Len(rest) /\ 6 + 1 = 7
    BY <1>1
  <2>2. SubSeq(rest, 6 + 1, Len(rest) - 1) \in Seq(Symbols)
    BY <2>1, Slice
  <2> QED BY <2>1, <2>2, Zenon
<1>4. m.type = STARLINK_EVENT_REPORT_MESSAGE_TYPE
        => ParseEventReport(SubSeq(rest, 7, Len(rest) - 1)) = Meaning(m)
  BY <1>3, ParsedIsMeant, Zenon DEF IsMessage
<1>5. DeviceOf[rest[1]] = m.device /\ IntIn[rest[3]] = m.type /\ IntIn[rest[5]] = m.index
  BY Zenon DEF IsMessage
<1>6. ParseFrame(line) =
        [device |-> DeviceOf[rest[1]], type |-> IntIn[rest[3]], index |-> IntIn[rest[5]],
         report |-> IF IntIn[rest[3]] = STARLINK_EVENT_REPORT_MESSAGE_TYPE
                    THEN ParseEventReport(SubSeq(rest, 7, Len(rest) - 1)) ELSE Null]
  BY Zenon DEF ParseFrame
<1> HIDE DEF STARLINK_EVENT_REPORT_MESSAGE_TYPE
<1>7. ParseFrame(line) =
        [device |-> m.device, type |-> m.type, index |-> m.index,
         report |-> IF m.type = STARLINK_EVENT_REPORT_MESSAGE_TYPE THEN Meaning(m) ELSE Null]
  BY <1>4, <1>5, <1>6, Zenon
<1> QED BY <1>2, <1>7, Zenon DEF Meant

LEMMA HeadlessSlice ==
  ASSUME NEW s \in Seq(Symbols), NEW a \in Nat, NEW b \in Nat, a < b, b <= Len(s)
  PROVE  Headless(SubSeq(s, a + 1, b)) =
            IF s[a + 1] \in Heads \cup {Comma} THEN SubSeq(s, a + 1 + 1, b) ELSE SubSeq(s, a + 1, b)
<1> DEFINE w == SubSeq(s, a + 1, b)
<1>1. Len(s) \in Nat /\ a + 1 \in 1..Len(s) /\ b \in (a + 1)..Len(s)
  OBVIOUS
<1>2. Head(w) = s[a + 1] /\ Tail(w) = SubSeq(s, a + 1 + 1, b)
  BY <1>1, HeadTailOfSubSeq
<1>3. w # << >>
  <2>1. Len(w) = b - a
    BY Slice
  <2> HIDE DEF w
  <2> QED BY <2>1
<1> HIDE DEF w
<1>4. Headless(w) = IF s[a + 1] \in Heads \cup {Comma} THEN SubSeq(s, a + 1 + 1, b) ELSE w
  BY <1>2, <1>3, Zenon DEF Headless
<1> QED BY <1>4 DEF w

\* A line that ends in the message of a part, from the beginning of the part.
LEMMA MessageLine ==
  ASSUME NEW s \in Seq(Symbols), NEW part, NEW a \in Nat, NEW b \in Nat, StandsAt(s, part, a, b)
  PROVE  LET f == part.from
             p == part.to
             e == EndIn(s, f, p)
         IN  /\ f \in Nat /\ p \in 1..Len(s) /\ e \in Nat /\ f < e /\ e < p /\ s[p] = LF
             /\ \A i \in (f + 1)..(p - 1) : s[i] # LF
             /\ Headless(Trim(SubSeq(s, f + 1, e))) = SubSeq(s, a + 1, b)
<1> DEFINE f == part.from
           p == part.to
           e == EndIn(s, f, p)
           w == SubSeq(s, a + 1, b)
<1>1. /\ f \in 0..a /\ a < b /\ p \in (b + 1)..Len(s)
      /\ a = f \/ (a = f + 1 /\ s[a] \in Heads \cup {Comma})
      /\ IsFrame(w) /\ EndsAt(s, b, p)
  BY DEF StandsAt, IsMessage
<1>2. /\ f \in Nat /\ p \in Nat /\ p \in 1..Len(s) /\ f <= a /\ a < b /\ b < p /\ p <= Len(s)
      /\ Len(s) \in Nat
  BY <1>1
<1>3. s[p] = LF /\ \A i \in (b + 1)..(p - 1) : s[i] = CR
  BY <1>1 DEF EndsAt
<1>4. /\ Len(w) = b - a /\ DOMAIN w = 1..(b - a)
      /\ \A i \in 1..(b - a) : w[i] = s[a + i]
  BY <1>2, Slice
<1>5. \A i \in (a + 1)..b : s[i] \notin {CR, LF}
  <2> SUFFICES ASSUME NEW i \in (a + 1)..b PROVE s[i] \notin {CR, LF}
    OBVIOUS
  <2>1. i - a \in 1..(b - a) /\ a + (i - a) = i
    BY <1>2
  <2>2. w[i - a] \notin {CR, LF}
    BY <1>1, <1>4, <2>1, Zenon DEF IsFrame
  <2> QED BY <1>4, <2>1, <2>2
<1>6. w[1] \in DOMAIN DeviceOf /\ w[1] = s[a + 1]
  <2>1. 1 \in 1..(b - a)
    BY <1>2
  <2> QED BY <1>1, <1>4, <2>1, Zenon DEF IsFrame
<1>7. a = f + 1 => s[a] \notin {CR, LF}
  BY <1>1, LineAssumption, TextsAssumption
<1>8. \A i \in (f + 1)..b : s[i] \notin {CR, LF}
  <2> SUFFICES ASSUME NEW i \in (f + 1)..b PROVE s[i] \notin {CR, LF}
    OBVIOUS
  <2>1. CASE i \in (a + 1)..b
    BY <2>1, <1>5
  <2>2. CASE i \notin (a + 1)..b
    <3>1. i = a /\ a = f + 1
      <4> HIDE DEF f
      <4> QED BY <1>1, <1>2, <2>2
    <3> QED BY <3>1, <1>7
  <2> QED BY <2>1, <2>2
<1> HIDE DEF f, p, w
<1>9. \A i \in (f + 1)..(p - 1) : s[i] # LF
  <2> SUFFICES ASSUME NEW i \in (f + 1)..(p - 1) PROVE s[i] # LF
    OBVIOUS
  <2>1. CASE i <= b
    BY <2>1, <1>2, <1>8
  <2>2. CASE ~ (i <= b)
    BY <2>2, <1>2, <1>3, LineEndAssumption
  <2> QED BY <2>1, <2>2
<1>10. e \in Nat /\ f < e /\ e < p /\ b <= e
  <2>1. CASE b = p - 1
    <3>1. s[p - 1] # CR
      BY <2>1, <1>2, <1>5
    <3> QED BY <2>1, <3>1, <1>2 DEF EndIn
  <2>2. CASE b # p - 1
    BY <2>2, <1>2 DEF EndIn
  <2> QED BY <2>1, <2>2
<1> HIDE DEF e
<1>11. Trim(SubSeq(s, f + 1, e)) = SubSeq(s, f + 1, b)
  <2> DEFINE line == SubSeq(s, f + 1, e)
  <2>1. e <= Len(s) /\ f <= e
    BY <1>2, <1>10
  <2>2. /\ line \in Seq(Symbols) /\ Len(line) = e - f
        /\ \A i \in 1..(e - f) : line[i] = s[f + i]
    BY <1>2, <1>10, <2>1, Slice
  <2> HIDE DEF line
  <2>3. 1 \in 1..Len(line) /\ b - f \in 1..Len(line) /\ f + 1 \in (f + 1)..b /\ f + (b - f) = b
        /\ b \in (f + 1)..b
    BY <1>2, <1>10, <2>2
  <2>4. line[1] # Return /\ line[b - f] # Return
    BY <1>8, <2>2, <2>3, LineAssumption
  <2>5. ASSUME NEW i \in 1..Len(line), line[i] # Return PROVE 1 <= i /\ i <= b - f
    <3>1. line[i] = s[f + i]
      BY <2>2
    <3>2. ~ (f + i \in (b + 1)..(p - 1))
      BY <1>3, <2>5, <3>1, LineAssumption
    <3> QED BY <1>2, <1>10, <2>2, <3>2
  <2>6. Trim(line) = SubSeq(line, 1, b - f)
    BY <2>2, <2>3, <2>4, <2>5, Trimmed
  <2>7. SubSeq(line, 0 + 1, b - f) = SubSeq(s, f + 0 + 1, f + (b - f))
    <3>1. 0 \in Nat /\ b - f \in Nat /\ 0 < b - f /\ b - f <= e - f /\ f <= e
      BY <1>2, <1>10
    <3> QED BY <1>2, <1>10, <2>1, <3>1, SliceOfSlice DEF line
  <2>8. f + 0 + 1 = f + 1 /\ 0 + 1 = 1
    BY <1>2
  <2>9. SubSeq(line, 1, b - f) = SubSeq(s, f + 1, b)
    BY <2>3, <2>7, <2>8, Zenon
  <2> QED BY <2>6, <2>9, Zenon DEF line
<1>12. Headless(SubSeq(s, f + 1, b)) = w
  <2>0. /\ f < b /\ b <= Len(s)
        /\ Headless(SubSeq(s, f + 1, b)) =
              IF s[f + 1] \in Heads \cup {Comma} THEN SubSeq(s, f + 1 + 1, b) ELSE SubSeq(s, f + 1, b)
    BY <1>2, HeadlessSlice
  <2>1. CASE a = f
    <3>1. s[f + 1] \notin Heads \cup {Comma}
      BY <2>1, <1>6, TextsAssumption
    <3> QED BY <2>0, <2>1, <3>1 DEF w
  <2>2. CASE a = f + 1
    <3>1. s[f + 1] \in Heads \cup {Comma}
      <4>1. a # f
        BY <2>2, <1>2
      <4> QED BY <1>1, <2>2, <4>1, Zenon DEF f
    <3>2. Headless(SubSeq(s, f + 1, b)) = SubSeq(s, f + 1 + 1, b)
      BY <2>0, <3>1, Zenon
    <3> QED BY <2>2, <3>2, Zenon DEF w
  <2>3. a = f \/ a = f + 1
    BY <1>1, Zenon DEF f
  <2> QED BY <2>1, <2>2, <2>3
<1> QED BY <1>2, <1>3, <1>9, <1>10, <1>11, <1>12 DEF f, p, e, w

\* A line that matches is a message and nothing but "\r" before its newline.
LEMMA MatchedLine ==
  ASSUME NEW s \in Seq(Symbols), NEW f \in Nat, NEW p \in 1..Len(s), s[p] = LF,
         \A i \in (f + 1)..(p - 1) : s[i] # LF,
         f < EndIn(s, f, p), Matches(SubSeq(s, f + 1, EndIn(s, f, p)))
  PROVE  \E a, b \in 0..Len(s) :
            /\ a < b /\ b < p /\ EndsAt(s, b, p) /\ IsFrame(SubSeq(s, a + 1, b))
            /\ Headless(Trim(SubSeq(s, f + 1, EndIn(s, f, p)))) = SubSeq(s, a + 1, b)
<1> DEFINE e == EndIn(s, f, p)
           line == SubSeq(s, f + 1, e)
           rest == Headless(Trim(line))
<1>1. /\ p \in Nat /\ Len(s) \in Nat /\ p <= Len(s) /\ e \in Nat /\ f < e /\ e < p
      /\ e = p - 1 \/ (e = p - 2 /\ s[p - 1] = CR)
  BY DEF EndIn
<1>2. Matches(line) /\ f < e
  OBVIOUS
<1> HIDE DEF e
<1>3. f <= e /\ e <= Len(s)
  BY <1>1
<1>4. /\ line \in Seq(Symbols) /\ Len(line) = e - f
      /\ \A i \in 1..(e - f) : line[i] = s[f + i]
  <2>1. e \in Nat /\ f \in Nat
    BY <1>1
  <2>2. \A y \in Nat : f <= y /\ y <= Len(s) =>
           /\ SubSeq(s, f + 1, y) \in Seq(Symbols) /\ Len(SubSeq(s, f + 1, y)) = y - f
           /\ \A i \in 1..(y - f) : SubSeq(s, f + 1, y)[i] = s[f + i]
    BY Slice
  <2> QED BY <2>1, <2>2, <1>3, Zenon
<1> HIDE DEF line
<1>5. rest # << >> /\ Trim(line) # << >>
  <2>1. rest # << >>
    <3>1. Len(rest) > 7
      BY <1>2, Zenon DEF Matches
    <3> HIDE DEF rest
    <3> QED BY <3>1
  <2>2. ASSUME Trim(line) = << >> PROVE rest = << >>
    BY <2>2, Zenon DEF Headless
  <2> QED BY <2>1, <2>2
<1>6. PICK lo \in 1..Len(line), hi \in 1..Len(line) :
         /\ lo <= hi /\ line[lo] # Return /\ line[hi] # Return
         /\ \A i \in 1..Len(line) : line[i] # Return => lo <= i /\ i <= hi
  BY <1>4, <1>5, TrimmedAway
<1>7. Trim(line) = SubSeq(line, lo, hi)
  BY <1>4, <1>6, Trimmed
<1> DEFINE c == f + lo - 1
           b == f + hi
<1>8. /\ c \in Nat /\ b \in Nat /\ c < b /\ b <= Len(s) /\ b < p
      /\ lo - 1 \in Nat /\ hi \in Nat /\ lo - 1 < hi /\ hi <= e - f /\ (lo - 1) + 1 = lo
      /\ f + (lo - 1) + 1 = c + 1
  BY <1>1, <1>4, <1>6
<1>9. Trim(line) = SubSeq(s, c + 1, b)
  <2>1. SubSeq(SubSeq(s, f + 1, e), (lo - 1) + 1, hi) = SubSeq(s, f + (lo - 1) + 1, f + hi)
    BY <1>1, <1>3, <1>8, SliceOfSlice
  <2> QED BY <2>1, <1>7, <1>8, Zenon DEF line
<1>10. EndsAt(s, b, p)
  <2> SUFFICES ASSUME NEW i \in (b + 1)..(p - 1) PROVE s[i] = CR
    BY DEF EndsAt
  <2>1. CASE i <= e
    <3>1. i - f \in 1..Len(line) /\ f + (i - f) = i /\ ~ (i - f <= hi)
      BY <2>1, <1>1, <1>4, <1>8
    <3>2. line[i - f] = Return /\ line[i - f] = s[i]
      BY <3>1, <1>4, <1>6
    <3> QED BY <3>2, LineAssumption
  <2>2. CASE ~ (i <= e)
    <3>1. e = p - 2 /\ s[p - 1] = CR /\ i = p - 1
      BY <2>2, <1>1, <1>8
    <3> QED BY <3>1
  <2> QED BY <2>1, <2>2
<1> HIDE DEF c, b
<1>11. \E a \in 0..Len(s) : c <= a /\ a < b /\ rest = SubSeq(s, a + 1, b)
  <2>1. Headless(SubSeq(s, c + 1, b)) =
           IF s[c + 1] \in Heads \cup {Comma} THEN SubSeq(s, c + 1 + 1, b) ELSE SubSeq(s, c + 1, b)
    BY <1>8, HeadlessSlice
  <2>2. rest = Headless(SubSeq(s, c + 1, b))
    BY <1>9, Zenon
  <2>3. CASE s[c + 1] \in Heads \cup {Comma}
    <3>1. rest = SubSeq(s, c + 1 + 1, b)
      BY <2>1, <2>2, <2>3, Zenon
    <3>2. c + 1 < b
      <4> SUFFICES ASSUME ~ (c + 1 < b) PROVE FALSE
        OBVIOUS
      <4>1. b < c + 1 + 1 /\ c + 1 + 1 \in Int /\ b \in Int
        BY <1>8
      <4>2. SubSeq(s, c + 1 + 1, b) = << >>
        BY <4>1, SubSeqEmpty
      <4> HIDE DEF rest
      <4> QED BY <1>5, <3>1, <4>2, Zenon
    <3>3. c + 1 \in 0..Len(s) /\ c <= c + 1
      BY <1>8, <3>2, <1>1
    <3> QED BY <3>1, <3>2, <3>3, Zenon
  <2>4. CASE s[c + 1] \notin Heads \cup {Comma}
    <3>1. rest = SubSeq(s, c + 1, b)
      BY <2>1, <2>2, <2>4, Zenon
    <3>2. c \in 0..Len(s) /\ c <= c
      BY <1>8, <1>1
    <3> QED BY <3>1, <3>2, <1>8, Zenon
  <2> QED BY <2>3, <2>4
<1> HIDE DEF rest
<1>12. PICK a \in 0..Len(s) : c <= a /\ a < b /\ rest = SubSeq(s, a + 1, b)
  BY <1>11
<1>13. IsFrame(rest)
  <2>1. /\ Len(rest) = b - a /\ DOMAIN rest = 1..(b - a)
        /\ \A i \in 1..(b - a) : rest[i] = s[a + i]
    BY <1>8, <1>12, Slice
  <2>2. \A i \in DOMAIN rest : rest[i] # CR
    BY <1>2, LineAssumption, Zenon DEF Matches, rest
  <2>3. ASSUME NEW i \in DOMAIN rest PROVE rest[i] # LF
    <3>1. i \in 1..(b - a) /\ a + i \in (f + 1)..(p - 1)
      <4>1. a \in Nat /\ c <= a
        BY <1>12
      <4>3. i \in 1..(b - a)
        BY <2>1, Zenon
      <4>2. f <= c
        BY <1>6, <1>8 DEF c
      <4> HIDE DEF c, b
      <4> QED BY <1>1, <1>8, <4>1, <4>2, <4>3
    <3> QED BY <2>1, <3>1
  <2>4. \A i \in DOMAIN rest : rest[i] \notin {CR, LF}
    BY <2>2, <2>3
  <2> QED BY <1>2, <2>4, Zenon DEF Matches, IsFrame, rest
<1>14. a \in 0..Len(s) /\ b \in 0..Len(s) /\ a < b /\ b < p
  BY <1>1, <1>8, <1>12
<1> QED BY <1>10, <1>12, <1>13, <1>14, Zenon DEF rest, line, e

----------------------------------------------------------------------------
(* The theorems.                                                           *)

\* The device's stream does not change.
LEMMA StreamStays == Spec => [](stream \in Streams)
<1>1. Init => stream \in Streams
  BY DEF Init
<1>2. stream \in Streams /\ [Next]_vars => (stream \in Streams)'
  BY DEF Next, Push, CutLine, Settle, Reset, vars
<1> QED BY <1>1, <1>2, PTL DEF Spec

\* However TCP cuts the stream and whatever is around it, every message that
\* fits the buffer and begins a line is decoded into what the device means.
THEOREM EveryMessageArrives == DeviceWrites => (Spec => []EveryMessageIsDecoded)
<1> SUFFICES ASSUME DeviceWrites PROVE Spec => []EveryMessageIsDecoded
  OBVIOUS
<1>1. ASSUME stream \in Streams, IInv, LinesAreExact, CutsAreOverflows
      PROVE  EveryMessageIsDecoded
  <2> DEFINE s == stream.symbols
  <2> SUFFICES ASSUME ~ calling, resets = 0, NEW k \in DOMAIN stream.parts,
                      stream.parts[k].kind = "message", stream.parts[k].to <= received,
                      stream.parts[k].from = 0 \/ s[stream.parts[k].from] = LF,
                      stream.parts[k].to - stream.parts[k].from - 1 <= MaxBufferBytes
               PROVE  Meant(stream.parts[k].message) \in Decoded
    BY DEF EveryMessageIsDecoded
  <2> DEFINE part == stream.parts[k]
             f == part.from
             p == part.to
             e == EndIn(s, f, p)
  <2>1. FromDevice(stream)
    BY <1>1 DEF DeviceWrites
  <2>2. PICK a \in 0..Len(s), b \in 0..Len(s) : StandsAt(s, part, a, b)
    BY <2>1 DEF FromDevice
  <2>3. s \in Seq(Symbols) /\ Len(s) \in Nat /\ a \in Nat /\ b \in Nat
    BY <1>1, StreamsAssumption
  <2>4. /\ f \in Nat /\ p \in 1..Len(s) /\ e \in Nat /\ f < e /\ e < p /\ s[p] = LF
        /\ \A i \in (f + 1)..(p - 1) : s[i] # LF
        /\ Headless(Trim(SubSeq(s, f + 1, e))) = SubSeq(s, a + 1, b)
    <3>1. \A q : StandsAt(s, q, a, b) =>
             LET g == q.from
                 r == q.to
                 d == EndIn(s, g, r)
             IN  /\ g \in Nat /\ r \in 1..Len(s) /\ d \in Nat /\ g < d /\ d < r /\ s[r] = LF
                 /\ \A i \in (g + 1)..(r - 1) : s[i] # LF
                 /\ Headless(Trim(SubSeq(s, g + 1, d))) = SubSeq(s, a + 1, b)
      <4> HIDE DEF s
      <4> QED BY <2>3, MessageLine
    <3> QED BY <2>2, <3>1, Zenon
  <2>5. p <= received /\ (f = 0 \/ s[f] = LF) /\ p - f - 1 <= MaxBufferBytes
    OBVIOUS
  <2>6. IsMessage(SubSeq(s, a + 1, b), part.message) /\ a < b
    BY <2>2 DEF StandsAt
  <2>7. /\ received \in Nat /\ cuts \in SUBSET Nat /\ MaxBufferBytes \in Nat
        /\ \A c \in cuts : c > MaxBufferBytes /\ \A i \in (c - MaxBufferBytes)..c : s[i] # LF
    BY <1>1, BufferAssumption DEF IInv, TypeOK, CutsAreOverflows
  <2> HIDE DEF e, f, p, part, s
  <2>8. ASSUME NEW i \in (f + 1)..(p - 1) PROVE i \notin cuts
    <3> SUFFICES ASSUME i \in cuts PROVE FALSE
      OBVIOUS
    <3>1. i \in Nat /\ i > MaxBufferBytes /\ \A j \in (i - MaxBufferBytes)..i : s[j] # LF
      BY <2>7
    <3>2. f \in (i - MaxBufferBytes)..i /\ f # 0
      BY <2>4, <2>5, <2>7, <3>1
    <3> QED BY <2>5, <3>1, <3>2
  <2>9. StartsIn(s, cuts, f, p)
    BY <2>4, <2>5, <2>8 DEF StartsIn
  <2>10. <<f, e>> \in lines
    <3>1. f \in 0..received /\ p \in 1..received
      BY <2>4, <2>5, <2>7
    <3>2. <<f, e>> \in LinesIn(s, cuts, received)
      BY <2>4, <2>7, <2>9, <3>1, LinesInMember DEF e
    <3> QED BY <1>1, <3>2, LinesUpToIsLinesIn DEF LinesAreExact, s
  <2>11. Text(<<f, e>>) = SubSeq(s, f + 1, e)
    BY DEF Text, s
  <2>12. SubSeq(s, a + 1, b) \in Seq(Symbols)
    <3>1. a <= b /\ b <= Len(s)
      BY <2>3, <2>6
    <3> QED BY <2>3, <3>1, Slice
  <2>13. Matches(Text(<<f, e>>)) /\ ParseFrame(Text(<<f, e>>)) = Meant(part.message)
    BY <2>4, <2>6, <2>11, <2>12, MessageParsed
  <2> QED BY <2>10, <2>13, Zenon DEF Decoded, part
<1> QED BY <1>1, StreamStays, Invariant, EveryLineOnce, OnlyOverlongLinesAreCut, PTL

\* Nothing but the device's messages is decoded, at any time.
THEOREM NothingElseArrives == DeviceWrites => (Spec => []OnlySentIsDecoded)
<1> SUFFICES ASSUME DeviceWrites PROVE Spec => []OnlySentIsDecoded
  OBVIOUS
<1>1. ASSUME stream \in Streams, IInv
      PROVE  OnlySentIsDecoded
  <2> DEFINE s == stream.symbols
  <2> SUFFICES ASSUME NEW l \in lines, Matches(Text(l))
               PROVE  \E i \in DOMAIN stream.parts :
                         /\ stream.parts[i].kind = "message"
                         /\ ParseFrame(Text(l)) = Meant(stream.parts[i].message)
    BY DEF OnlySentIsDecoded, Decoded
  <2>1. FromDevice(stream)
    BY <1>1 DEF DeviceWrites
  <2>2. s \in Seq(Symbols) /\ Len(s) \in Nat /\ base \in Nat /\ base <= Len(s)
    BY <1>1, StreamsAssumption DEF IInv, TypeOK
  <2>3. l \in LinesIn(s, cuts, base)
    BY <1>1, LinesUpToIsLinesIn DEF IInv
  <2>4. PICK f \in 0..base, p \in 1..base :
           s[p] = LF /\ StartsIn(s, cuts, f, p) /\ f < EndIn(s, f, p) /\ l = <<f, EndIn(s, f, p)>>
    BY <2>2, <2>3, LinesInMember
  <2>5. f \in Nat /\ p \in 1..Len(s) /\ \A i \in (f + 1)..(p - 1) : s[i] # LF
    BY <2>2, <2>4 DEF StartsIn
  <2>6. Text(l) = SubSeq(s, f + 1, EndIn(s, f, p))
    BY <2>4 DEF Text
  <2>7. PICK a \in 0..Len(s), b \in 0..Len(s) :
            /\ a < b /\ b < p /\ EndsAt(s, b, p) /\ IsFrame(SubSeq(s, a + 1, b))
            /\ Headless(Trim(Text(l))) = SubSeq(s, a + 1, b)
    <3> HIDE DEF s
    <3>1. \A g \in Nat : \A q \in 1..Len(s) :
             /\ s[q] = LF /\ \A i \in (g + 1)..(q - 1) : s[i] # LF
             /\ g < EndIn(s, g, q) /\ Matches(SubSeq(s, g + 1, EndIn(s, g, q)))
             => \E a, b \in 0..Len(s) :
                   /\ a < b /\ b < q /\ EndsAt(s, b, q) /\ IsFrame(SubSeq(s, a + 1, b))
                   /\ Headless(Trim(SubSeq(s, g + 1, EndIn(s, g, q)))) = SubSeq(s, a + 1, b)
      BY <2>2, MatchedLine
    <3>2. Matches(SubSeq(s, f + 1, EndIn(s, f, p)))
      BY <2>6
    <3>3. \E a, b \in 0..Len(s) :
             /\ a < b /\ b < p /\ EndsAt(s, b, p) /\ IsFrame(SubSeq(s, a + 1, b))
             /\ Headless(Trim(SubSeq(s, f + 1, EndIn(s, f, p)))) = SubSeq(s, a + 1, b)
      BY <2>4, <2>5, <3>1, <3>2
    <3> QED BY <2>6, <3>3, Zenon
  <2>8. PICK i \in DOMAIN stream.parts : StandsAt(s, stream.parts[i], a, b)
    <3>1. p \in 0..Len(s)
      BY <2>5
    <3> QED BY <2>1, <2>7, <3>1 DEF FromDevice
  <2>9. stream.parts[i].kind = "message" /\ IsMessage(SubSeq(s, a + 1, b), stream.parts[i].message)
    BY <2>8 DEF StandsAt
  <2>10. SubSeq(s, a + 1, b) \in Seq(Symbols)
    <3>1. a <= b /\ b <= Len(s) /\ a \in Nat /\ b \in Nat
      BY <2>2, <2>7
    <3> HIDE DEF s
    <3> QED BY <2>2, <3>1, Slice
  <2>11. ParseFrame(Text(l)) = Meant(stream.parts[i].message)
    BY <2>7, <2>9, <2>10, MessageParsed
  <2> QED BY <2>9, <2>11
<1> QED BY <1>1, StreamStays, Invariant, PTL
=============================================================================
