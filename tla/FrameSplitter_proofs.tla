------------------------ MODULE FrameSplitter_proofs ------------------------
(***************************************************************************)
(* What the splitter guarantees for every stream, every buffer size and    *)
(* every way TCP cuts the stream into chunks.                              *)
(***************************************************************************)
EXTENDS FrameSplitter, SequenceTheorems, TLAPS

\* The bytes of a stream are indexed by its length.
LEMMA StreamFacts ==
  ASSUME TypeOK
  PROVE  /\ stream.bytes \in Seq(0..255) /\ Len(stream.bytes) \in Nat
         /\ stream.segs \in Seq(SegmentType) /\ Len(stream.segs) \in Nat
         /\ received \in Nat /\ base \in Nat /\ BufferLength \in Nat
         /\ base <= received /\ received <= Len(stream.bytes)
<1>1. stream \in StreamType
  BY StreamsAssumption DEF TypeOK
<1>2. stream.bytes \in Seq(0..255) /\ stream.segs \in Seq(SegmentType)
  BY <1>1 DEF StreamType
<1>3. Len(stream.bytes) \in Nat /\ Len(stream.segs) \in Nat
  BY <1>2
<1>4. QED BY <1>2, <1>3 DEF TypeOK, BufferLength

\* A byte of the buffer is a byte.
LEMMA BufferByte ==
  ASSUME TypeOK, NEW i \in Nat, i < BufferLength
  PROVE  Buffer(i) \in 0..255
<1>1. base + i + 1 \in 1..Len(stream.bytes)
  BY StreamFacts DEF BufferLength
<1>2. stream.bytes[base + i + 1] \in 0..255
  BY <1>1, StreamFacts, ElementOfSeq
<1>3. QED BY <1>2 DEF Buffer

\* Whatever resolveFrameLength() returns ends on a terminator in the buffer.
LEMMA ResolvedEndsInTerminator ==
  ASSUME TypeOK, NEW n \in 1..BufferLength, FrameLength(n)
  PROVE  stream.bytes[base + n] = FRAME_TERMINATOR
<1>1. PICK c \in 0..(MAX_HEAD_TOKEN_SEARCH_BYTES - 1) : ResolvesAfterColon(c, n)
  BY DEF FrameLength
<1>2. Buffer(n - 1) = FRAME_TERMINATOR
  BY <1>1 DEF ResolvesAfterColon, DeclaredLengthFits, TerminatorIndex
<1>3. base + (n - 1) + 1 = base + n
  BY StreamFacts
<1>4. QED BY <1>2, <1>3 DEF Buffer

\* The inductive invariant for arbitrary streams.
CutInv == TypeOK /\ MemoryBounded /\ FramesWellCut

LEMMA InitCut == Init => CutInv
<1> SUFFICES ASSUME Init PROVE CutInv
  OBVIOUS
<1>1. stream \in StreamType
  BY StreamsAssumption DEF Init
<1>2. stream.bytes \in Seq(0..255)
  BY <1>1 DEF StreamType
<1>3. Len(stream.bytes) \in Nat
  BY <1>2
<1>4. calling \in BOOLEAN /\ overflowed \in BOOLEAN
  BY DEF Init
<1>5. received \in 0..Len(stream.bytes) /\ base \in 0..received /\ resets \in 0..MaxResets
  BY <1>3, BufferAssumption DEF Init
<1>6. TypeOK
  BY <1>1, <1>4, <1>5 DEF Init, TypeOK
<1>7. MemoryBounded /\ FramesWellCut
  BY BufferAssumption DEF Init, MemoryBounded, FramesWellCut, BufferLength
<1>8. QED BY <1>6, <1>7 DEF CutInv

\* Every turn of push() keeps it.
LEMMA StepCut == CutInv /\ [Next]_vars => CutInv'
<1> SUFFICES ASSUME CutInv, [Next]_vars PROVE CutInv'
  OBVIOUS
<1>0. TypeOK /\ MemoryBounded /\ FramesWellCut
  BY DEF CutInv
<1>a. /\ Len(stream.bytes) \in Nat /\ received \in Nat /\ base \in Nat
      /\ BufferLength \in Nat /\ base <= received /\ received <= Len(stream.bytes)
      /\ MaxBufferBytes \in Nat
  BY <1>0, StreamFacts, BufferAssumption
<1>1. ASSUME NEW n \in 1..(Len(stream.bytes) - received), Push(n) PROVE CutInv'
  <2>0. calling' \in BOOLEAN /\ overflowed' \in BOOLEAN
    BY <1>1 DEF Push
  <2>1. TypeOK'
    BY <1>0, <1>a, <1>1, <2>0 DEF Push, TypeOK
  <2>2. MemoryBounded' /\ FramesWellCut'
    BY <1>0, <1>a, <1>1 DEF Push, MemoryBounded, FramesWellCut
  <2>3. QED BY <2>1, <2>2 DEF CutInv
<1>2. ASSUME NEW n \in 1..BufferLength, EmitFrame(n) PROVE CutInv'
  <2>1. stream.bytes[base + n] = FRAME_TERMINATOR
    BY <1>0, <1>a, <1>2, ResolvedEndsInTerminator DEF EmitFrame
  <2>2. TypeOK' /\ MemoryBounded'
    BY <1>0, <1>a, <1>2 DEF EmitFrame, TypeOK, MemoryBounded, BufferLength
  <2>3. \A f \in frames : f[1] \in Nat /\ f[2] \in Nat
    BY <1>0 DEF TypeOK
  <2>4. FramesWellCut'
    BY <1>0, <1>a, <1>2, <2>1, <2>3 DEF EmitFrame, TypeOK, FramesWellCut
  <2>5. QED BY <2>2, <2>4 DEF CutInv
<1>3. ASSUME NEW t \in 0..(BufferLength - 1), Resync(t) PROVE CutInv'
  <2>1. TypeOK' /\ MemoryBounded'
    BY <1>0, <1>a, <1>3 DEF Resync, TypeOK, MemoryBounded, BufferLength
  <2>2. FramesWellCut'
    BY <1>0, <1>a, <1>3 DEF Resync, TypeOK, FramesWellCut
  <2>3. QED BY <2>1, <2>2 DEF CutInv
<1>4. CASE Settle
  <2>0. overflowed' \in BOOLEAN
    BY <1>4 DEF Settle
  <2>a. base' \in 0..received /\ received - base' <= MaxBufferBytes
    BY <1>a, <1>4 DEF Settle, BufferLength
  <2>1. TypeOK' /\ MemoryBounded'
    BY <1>0, <1>4, <2>0, <2>a DEF Settle, TypeOK, MemoryBounded, BufferLength
  <2>2. FramesWellCut'
    BY <1>0, <1>a, <1>4 DEF Settle, TypeOK, FramesWellCut
  <2>3. QED BY <2>1, <2>2 DEF CutInv
<1>5. CASE Reset
  <2>0. resets' \in 0..MaxResets
    BY <1>0, <1>5, BufferAssumption DEF Reset, TypeOK
  <2>a. base' \in 0..received /\ received - base' <= MaxBufferBytes
    BY <1>a, <1>5 DEF Reset
  <2>1. TypeOK' /\ MemoryBounded'
    BY <1>0, <1>5, <2>0, <2>a DEF Reset, TypeOK, MemoryBounded, BufferLength
  <2>2. FramesWellCut'
    BY <1>0, <1>a, <1>5 DEF Reset, TypeOK, FramesWellCut
  <2>3. QED BY <2>1, <2>2 DEF CutInv
<1>6. CASE UNCHANGED vars
  BY <1>0, <1>a, <1>6 DEF vars, CutInv, TypeOK, MemoryBounded, FramesWellCut, BufferLength
<1>7. QED
  BY <1>1, <1>2, <1>3, <1>4, <1>5, <1>6 DEF Next, LoopTurn

\* The invariant holds in every reachable state.
THEOREM CutInvariance == Spec => []CutInv
  BY InitCut, StepCut, PTL DEF Spec

\* Type correctness: in particular the buffer never runs past what arrived.
THEOREM TypeCorrect == Spec => []TypeOK
<1>1. CutInv => TypeOK
  BY DEF CutInv
<1>2. QED BY CutInvariance, <1>1, PTL

\* No stream and no chunking makes a connection hold more than maxBufferBytes
\* between two calls of push().
THEOREM MemoryIsBounded == Spec => []MemoryBounded
<1>1. CutInv => MemoryBounded
  BY DEF CutInv
<1>2. QED BY CutInvariance, <1>1, PTL

\* However corrupt the stream, frames are disjoint and end in the terminator.
THEOREM FramesAreWellCut == Spec => []FramesWellCut
<1>1. CutInv => FramesWellCut
  BY DEF CutInv
<1>2. QED BY CutInvariance, <1>1, PTL

----------------------------------------------------------------------------
(* Streams whose framing is recoverable                                    *)

NSegs == Len(stream.segs)
From(k) == stream.segs[k].from
To(k) == stream.segs[k].to

\* The segment at the front of the buffer is the k-th, or none is left.
AtSegment(k) ==
    /\ k \in 1..(NSegs + 1)
    /\ base = IF k <= NSegs THEN From(k) ELSE Len(stream.bytes)

\* The inductive invariant: the buffer starts where a segment of the sender
\* starts, every frame before it has been handed on, and between two calls
\* that segment is incomplete.
CleanInv ==
    /\ CutInv
    /\ CleanStream(stream)
    /\ frames = SentFrames(base)
    /\ \E k \in 1..(NSegs + 1) :
         AtSegment(k) /\ (~ calling => (k <= NSegs => received < To(k)))

\* What it means for the k-th segment of a clean stream.
LEMMA SegmentFacts ==
  ASSUME TypeOK, CleanStream(stream), NEW k \in 1..NSegs
  PROVE  /\ From(k) \in Nat /\ To(k) \in Nat
         /\ From(k) < To(k) /\ To(k) <= Len(stream.bytes)
         /\ To(k) - From(k) <= MaxBufferBytes + 1
         /\ k < NSegs => From(k + 1) = To(k)
         /\ k = NSegs => To(k) = Len(stream.bytes)
         /\ \A j \in 1..NSegs : k < j => To(k) <= From(j)
         /\ stream.segs[k].kind = "frame" => CleanFrame(stream.bytes, From(k), To(k))
         /\ stream.segs[k].kind # "frame" => CleanNoise(stream.bytes, From(k), To(k))
<1>1. stream.segs[k] \in SegmentType
  BY StreamFacts, ElementOfSeq DEF NSegs
<1>2. From(k) \in Nat /\ To(k) \in Nat
  BY <1>1 DEF SegmentType, From, To
<1>3. QED BY <1>2 DEF CleanStream, NSegs, From, To

\* Until the segment at the front is complete, no further frame is.
LEMMA SentSame ==
  ASSUME TypeOK, CleanStream(stream), NEW k \in 1..(NSegs + 1), AtSegment(k),
         NEW m \in Nat, base <= m, m <= Len(stream.bytes), k <= NSegs => m < To(k)
  PROVE  SentFrames(m) = SentFrames(base)
<1>0. NSegs \in Nat /\ base \in Nat
  BY StreamFacts DEF NSegs
<1>1. \A j \in 1..NSegs : To(j) <= m <=> To(j) <= base
  <2> SUFFICES ASSUME NEW j \in 1..NSegs PROVE To(j) <= m <=> To(j) <= base
    OBVIOUS
  <2>1. To(j) \in Nat /\ To(j) <= Len(stream.bytes)
    BY SegmentFacts
  <2>2. CASE j < k
    <3>1. To(j) <= base
      BY <1>0, <2>1, <2>2, SegmentFacts DEF AtSegment
    <3>2. QED BY <1>0, <2>1, <3>1
  <2>3. CASE j >= k
    <3>1. k \in 1..NSegs
      BY <1>0, <2>3
    <3>2. To(j) >= To(k) /\ To(k) \in Nat
      <4>1. CASE j = k
        BY <2>1, <4>1
      <4>2. CASE k < j
        BY <2>1, <3>1, <4>2, SegmentFacts
      <4>3. QED BY <1>0, <2>3, <3>1, <4>1, <4>2
    <3>3. QED BY <1>0, <2>1, <3>1, <3>2
  <2>4. QED BY <1>0, <2>2, <2>3
<1>2. QED BY <1>1 DEF SentFrames, NSegs, To

\* Completing the k-th segment completes at most one frame.
LEMMA SentNext ==
  ASSUME TypeOK, CleanStream(stream), NEW k \in 1..NSegs, AtSegment(k)
  PROVE  SentFrames(To(k)) = SentFrames(base) \cup
           (IF stream.segs[k].kind = "frame" THEN {<<From(k), To(k)>>} ELSE {})
<1>0. NSegs \in Nat /\ base = From(k) /\ base \in Nat
  BY StreamFacts DEF NSegs, AtSegment
<1>1. \A j \in 1..NSegs : To(j) <= To(k) <=> (To(j) <= base \/ j = k)
  <2> SUFFICES ASSUME NEW j \in 1..NSegs
               PROVE To(j) <= To(k) <=> (To(j) <= base \/ j = k)
    OBVIOUS
  <2>1. /\ From(j) \in Nat /\ To(j) \in Nat /\ From(j) < To(j)
        /\ From(k) \in Nat /\ To(k) \in Nat /\ From(k) < To(k)
    BY SegmentFacts
  <2>2. CASE j < k
    <3>1. To(j) <= From(k)
      BY <2>2, SegmentFacts
    <3>2. QED BY <1>0, <2>1, <3>1
  <2>3. CASE k < j
    <3>1. To(k) <= From(j)
      BY <2>3, SegmentFacts
    <3>2. QED BY <1>0, <2>1, <2>3, <3>1
  <2>4. QED BY <1>0, <2>1, <2>2, <2>3
<1>2. QED BY <1>1 DEF SentFrames, NSegs, From, To

\* A big-endian number of two bytes.
LEMMA TwoBytes ==
  \A x, y \in 0..255 : x * 256 + y \in Nat /\ x * 256 \in Nat /\ x \in Nat /\ y \in Nat
  OBVIOUS

\* Offsets within a segment, as offsets in the stream.
LEMMA ShiftedInterval ==
  \A f, t, m \in Nat : \A i \in m..(t - f - 2) : f + i \in (f + m)..(t - 2)
  OBVIOUS

\* The parts of a clean frame, as the splitter reads them from the buffer.
LEMMA FrameParts ==
  ASSUME TypeOK, CleanStream(stream), NEW k \in 1..NSegs, AtSegment(k),
         stream.segs[k].kind = "frame"
  PROVE  \E c \in 0..(MAX_HEAD_TOKEN_SEARCH_BYTES - 1) :
           /\ LengthFieldEnd(c) < To(k) - From(k)
           /\ Buffer(c) = COLON
           /\ \A i \in 0..(c - 1) : Buffer(i) # COLON
           /\ Buffer(To(k) - From(k) - 1) = FRAME_TERMINATOR
           /\ \A i \in MinimumTerminatorIndex(c)..(To(k) - From(k) - 2) :
                Buffer(i) # FRAME_TERMINATOR
           /\ \/ DeclaredFrameLength(c) = To(k) - From(k)
              \/ /\ MinimumTerminatorIndex(c) < To(k) - From(k)
                 /\ base + DeclaredFrameLength(c) <= Len(stream.bytes)
                      => Buffer(DeclaredFrameLength(c) - 1) # FRAME_TERMINATOR
<1> DEFINE b == stream.bytes
<1>0. /\ From(k) \in Nat /\ To(k) \in Nat /\ From(k) < To(k) /\ To(k) <= Len(b)
      /\ base = From(k) /\ Len(b) \in Nat
  BY SegmentFacts, StreamFacts DEF AtSegment, NSegs
<1>1. CleanFrame(b, From(k), To(k))
  BY SegmentFacts
<1>2. PICK c \in 0..(MAX_HEAD_TOKEN_SEARCH_BYTES - 1) :
        LET lengthFieldEnd == c + 1 + LENGTH_FIELD_BYTES
            declared == lengthFieldEnd + (b[From(k) + c + 2] * 256 + b[From(k) + c + 3]) + 1
            minimum  == lengthFieldEnd + MINIMUM_TRAILING_FIXED_BYTES
        IN  /\ From(k) + lengthFieldEnd < To(k)
            /\ b[From(k) + c + 1] = COLON
            /\ \A i \in 0..(c - 1) : b[From(k) + i + 1] # COLON
            /\ b[To(k)] = FRAME_TERMINATOR
            /\ \A i \in (From(k) + minimum)..(To(k) - 2) : b[i + 1] # FRAME_TERMINATOR
            /\ \/ From(k) + declared = To(k)
               \/ /\ From(k) + minimum < To(k)
                  /\ From(k) + declared <= Len(b) => b[From(k) + declared] # FRAME_TERMINATOR
  BY <1>1 DEF CleanFrame
<1>a. From(k) + (c + 1 + LENGTH_FIELD_BYTES) < To(k)
  BY <1>2
<1>b. c \in Nat
  BY DEF MAX_HEAD_TOKEN_SEARCH_BYTES
<1>3. c \in Nat /\ From(k) + c + 2 \in 1..Len(b) /\ From(k) + c + 3 \in 1..Len(b)
  <2> DEFINE n == Len(b)
  <2>1. From(k) + c + 3 < To(k) /\ To(k) <= n /\ n \in Nat
    BY <1>0, <1>a DEF LENGTH_FIELD_BYTES
  <2> HIDE DEF n
  <2>2. From(k) + c + 2 \in 1..n /\ From(k) + c + 3 \in 1..n
    BY <1>0, <1>b, <2>1
  <2> QED BY <1>b, <2>2 DEF n
<1>4. b[From(k) + c + 2] \in 0..255 /\ b[From(k) + c + 3] \in 0..255
  BY <1>3, StreamFacts, ElementOfSeq
<1>5. Buffer(c + 1) = b[From(k) + c + 2] /\ Buffer(c + 2) = b[From(k) + c + 3]
  <2>1. base + (c + 1) + 1 = From(k) + c + 2 /\ base + (c + 2) + 1 = From(k) + c + 3
    BY <1>0, <1>3
  <2>2. QED BY <2>1 DEF Buffer
<1>6. /\ DeclaredFrameLength(c)
           = c + 1 + LENGTH_FIELD_BYTES + (b[From(k) + c + 2] * 256 + b[From(k) + c + 3]) + 1
      /\ DeclaredFrameLength(c) \in Nat /\ DeclaredFrameLength(c) > 0
  <2>1. Buffer(c + 1) \in 0..255 /\ Buffer(c + 2) \in 0..255
    BY <1>4, <1>5
  <2>2. DeclaredLength(c) \in Nat
    BY <2>1, TwoBytes DEF DeclaredLength
  <2>3. DeclaredFrameLength(c) \in Nat /\ DeclaredFrameLength(c) > 0
    BY <1>3, <2>2 DEF DeclaredFrameLength, LengthFieldEnd, LENGTH_FIELD_BYTES
  <2>4. DeclaredFrameLength(c)
           = c + 1 + LENGTH_FIELD_BYTES + (b[From(k) + c + 2] * 256 + b[From(k) + c + 3]) + 1
    BY <1>5, Zenon DEF DeclaredFrameLength, DeclaredLength, LengthFieldEnd
  <2>5. QED BY <2>3, <2>4
<1>7. LengthFieldEnd(c) < To(k) - From(k)
  BY <1>0, <1>2, <1>3 DEF LengthFieldEnd, LENGTH_FIELD_BYTES
<1>8. Buffer(c) = COLON /\ \A i \in 0..(c - 1) : Buffer(i) # COLON
  BY <1>0, <1>2 DEF Buffer
<1>9. Buffer(To(k) - From(k) - 1) = FRAME_TERMINATOR
  <2>1. base + (To(k) - From(k) - 1) + 1 = To(k)
    BY <1>0
  <2>2. QED BY <1>2, <2>1 DEF Buffer
<1>10. \A i \in MinimumTerminatorIndex(c)..(To(k) - From(k) - 2) : Buffer(i) # FRAME_TERMINATOR
  <2> SUFFICES ASSUME NEW i \in MinimumTerminatorIndex(c)..(To(k) - From(k) - 2)
               PROVE Buffer(i) # FRAME_TERMINATOR
    OBVIOUS
  <2>1. MinimumTerminatorIndex(c) \in Nat
    BY <1>3 DEF MinimumTerminatorIndex, LengthFieldEnd, LENGTH_FIELD_BYTES,
         MINIMUM_TRAILING_FIXED_BYTES
  <2>a. From(k) + i \in (From(k) + MinimumTerminatorIndex(c))..(To(k) - 2)
    BY <1>0, <2>1, ShiftedInterval
  <2>2. From(k) + i \in (From(k) + (c + 1 + LENGTH_FIELD_BYTES + MINIMUM_TRAILING_FIXED_BYTES))
                          ..(To(k) - 2)
    BY <2>a, Zenon DEF MinimumTerminatorIndex, LengthFieldEnd
  <2>3. b[From(k) + i + 1] # FRAME_TERMINATOR
    BY <1>2, <2>2
  <2>4. QED BY <1>0, <2>3 DEF Buffer
<1>11. \/ DeclaredFrameLength(c) = To(k) - From(k)
       \/ /\ MinimumTerminatorIndex(c) < To(k) - From(k)
          /\ base + DeclaredFrameLength(c) <= Len(b)
               => Buffer(DeclaredFrameLength(c) - 1) # FRAME_TERMINATOR
  <2>1. CASE From(k) + DeclaredFrameLength(c) = To(k)
    BY <1>0, <1>6, <2>1
  <2>2. CASE /\ From(k) + (c + 1 + LENGTH_FIELD_BYTES + MINIMUM_TRAILING_FIXED_BYTES) < To(k)
             /\ From(k) + DeclaredFrameLength(c) <= Len(b)
                  => b[From(k) + DeclaredFrameLength(c)] # FRAME_TERMINATOR
    <3>1. MinimumTerminatorIndex(c) < To(k) - From(k)
      BY <1>0, <1>3, <2>2 DEF MinimumTerminatorIndex, LengthFieldEnd, LENGTH_FIELD_BYTES,
           MINIMUM_TRAILING_FIXED_BYTES
    <3>2. base + (DeclaredFrameLength(c) - 1) + 1 = From(k) + DeclaredFrameLength(c)
      BY <1>0, <1>6
    <3>3. QED BY <1>0, <2>2, <3>1, <3>2 DEF Buffer
  <2>3. QED BY <1>2, <1>6, <2>1, <2>2
<1>12. QED BY <1>2, <1>7, <1>8, <1>9, <1>10, <1>11

\* The first colon in the window is unique.
LEMMA OneColon ==
  ASSUME NEW c \in Nat, NEW d \in Nat,
         Buffer(c) = COLON, \A i \in 0..(c - 1) : Buffer(i) # COLON,
         Buffer(d) = COLON, \A i \in 0..(d - 1) : Buffer(i) # COLON
  PROVE  c = d
<1>1. ~ (c < d) /\ ~ (d < c)
  OBVIOUS
<1>2. QED BY <1>1

\* resolveFrameLength() on a clean segment: the frame's own length or nothing.
LEMMA EmitExact ==
  ASSUME TypeOK, CleanStream(stream), NEW k \in 1..NSegs, AtSegment(k),
         NEW n \in 1..BufferLength, FrameLength(n)
  PROVE  stream.segs[k].kind = "frame" /\ n = To(k) - From(k)
<1>0. /\ From(k) \in Nat /\ To(k) \in Nat /\ From(k) < To(k) /\ To(k) <= Len(stream.bytes)
      /\ base = From(k) /\ BufferLength \in Nat /\ BufferLength = received - base
      /\ received \in Nat /\ received <= Len(stream.bytes) /\ Len(stream.bytes) \in Nat
  BY SegmentFacts, StreamFacts DEF AtSegment, NSegs, BufferLength
<1>1. PICK d \in 0..(MAX_HEAD_TOKEN_SEARCH_BYTES - 1) : ColonIndex(d) /\ ResolvesAfterColon(d, n)
  BY DEF FrameLength
<1>2. stream.segs[k].kind = "frame"
  <2> SUFFICES ASSUME stream.segs[k].kind # "frame" PROVE FALSE
    OBVIOUS
  <2>1. CleanNoise(stream.bytes, From(k), To(k))
    BY SegmentFacts
  <2>2. stream.bytes[From(k) + d + 1] # COLON
    BY <2>1 DEF CleanNoise
  <2>3. QED BY <1>0, <1>1, <2>2 DEF ColonIndex, Buffer
<1>3. PICK c \in 0..(MAX_HEAD_TOKEN_SEARCH_BYTES - 1) :
           /\ LengthFieldEnd(c) < To(k) - From(k)
           /\ Buffer(c) = COLON
           /\ \A i \in 0..(c - 1) : Buffer(i) # COLON
           /\ Buffer(To(k) - From(k) - 1) = FRAME_TERMINATOR
           /\ \A i \in MinimumTerminatorIndex(c)..(To(k) - From(k) - 2) :
                Buffer(i) # FRAME_TERMINATOR
           /\ \/ DeclaredFrameLength(c) = To(k) - From(k)
              \/ /\ MinimumTerminatorIndex(c) < To(k) - From(k)
                 /\ base + DeclaredFrameLength(c) <= Len(stream.bytes)
                      => Buffer(DeclaredFrameLength(c) - 1) # FRAME_TERMINATOR
  BY <1>2, FrameParts
<1>4. c = d
  <2>1. c \in Nat /\ d \in Nat
    BY DEF MAX_HEAD_TOKEN_SEARCH_BYTES
  <2>2. QED BY <1>1, <1>3, <2>1, OneColon DEF ColonIndex
<1>5. MinimumTerminatorIndex(c) \in Nat
  BY DEF MinimumTerminatorIndex, LengthFieldEnd, LENGTH_FIELD_BYTES,
       MINIMUM_TRAILING_FIXED_BYTES, MAX_HEAD_TOKEN_SEARCH_BYTES
<1>6. CASE DeclaredLengthFits(c)
  <2>1. n = DeclaredFrameLength(c)
    BY <1>1, <1>4, <1>6 DEF ResolvesAfterColon
  <2>2. base + DeclaredFrameLength(c) <= Len(stream.bytes)
    BY <1>0, <2>1
  <2>3. QED BY <1>2, <1>3, <1>6, <2>1, <2>2 DEF DeclaredLengthFits
<1>7. CASE ~ DeclaredLengthFits(c)
  <2>1. TerminatorIndex(MinimumTerminatorIndex(c), n - 1)
    BY <1>1, <1>4, <1>7 DEF ResolvesAfterColon
  <2>2. CASE n < To(k) - From(k)
    <3>1. n - 1 \in MinimumTerminatorIndex(c)..(To(k) - From(k) - 2)
      BY <1>0, <1>5, <2>1, <2>2 DEF TerminatorIndex
    <3>2. QED BY <1>3, <2>1, <3>1 DEF TerminatorIndex
  <2>3. CASE n > To(k) - From(k)
    <3>1. CASE MinimumTerminatorIndex(c) < To(k) - From(k)
      <4>1. To(k) - From(k) - 1 \in MinimumTerminatorIndex(c)..(n - 1 - 1)
        BY <1>0, <1>5, <2>3, <3>1
      <4>2. QED BY <1>3, <2>1, <4>1 DEF TerminatorIndex
    <3>2. CASE DeclaredFrameLength(c) = To(k) - From(k)
      BY <1>0, <1>3, <1>7, <2>3, <3>2 DEF DeclaredLengthFits
    <3>3. QED BY <1>3, <3>1, <3>2
  <2>4. QED BY <1>0, <1>2, <2>2, <2>3
<1>8. QED BY <1>6, <1>7

\* Resync on a clean segment: exactly the noise is dropped.
LEMMA ResyncExact ==
  ASSUME TypeOK, CleanStream(stream), NEW k \in 1..NSegs, AtSegment(k),
         NEW t \in 0..(BufferLength - 1), HeadIsCorrupt, TerminatorIndex(0, t)
  PROVE  stream.segs[k].kind # "frame" /\ t + 1 = To(k) - From(k)
<1>0. /\ From(k) \in Nat /\ To(k) \in Nat /\ From(k) < To(k) /\ base = From(k)
      /\ BufferLength \in Nat
  BY SegmentFacts, StreamFacts DEF AtSegment, NSegs
<1>1. stream.segs[k].kind # "frame"
  <2> SUFFICES ASSUME stream.segs[k].kind = "frame" PROVE FALSE
    OBVIOUS
  <2>1. PICK c \in 0..(MAX_HEAD_TOKEN_SEARCH_BYTES - 1) : Buffer(c) = COLON
    BY FrameParts
  <2>2. QED BY <2>1 DEF HeadIsCorrupt
<1>2. CleanNoise(stream.bytes, From(k), To(k))
  BY <1>1, SegmentFacts
<1>3. Buffer(To(k) - From(k) - 1) = FRAME_TERMINATOR
  <2>1. base + (To(k) - From(k) - 1) + 1 = To(k)
    BY <1>0
  <2>2. QED BY <1>2, <2>1 DEF Buffer, CleanNoise
<1>4. CASE t + 1 < To(k) - From(k)
  <2>1. From(k) + t \in From(k)..(To(k) - 2)
    BY <1>0, <1>4
  <2>2. stream.bytes[From(k) + t + 1] # FRAME_TERMINATOR
    BY <1>2, <2>1 DEF CleanNoise
  <2>3. QED BY <1>0, <2>2 DEF TerminatorIndex, Buffer
<1>5. CASE t + 1 > To(k) - From(k)
  <2>1. To(k) - From(k) - 1 \in 0..(t - 1)
    BY <1>0, <1>5
  <2>2. QED BY <1>3, <2>1 DEF TerminatorIndex
<1>6. QED BY <1>0, <1>1, <1>4, <1>5

\* The loop of push() does not break on a complete clean segment.
LEMMA LoopGoesOn ==
  ASSUME TypeOK, CleanStream(stream), NEW k \in 1..NSegs, AtSegment(k),
         To(k) <= received
  PROVE  CanEmit \/ CanResync
<1> DEFINE n == To(k) - From(k)
<1>0. /\ From(k) \in Nat /\ To(k) \in Nat /\ From(k) < To(k) /\ base = From(k)
      /\ BufferLength \in Nat /\ BufferLength = received - base /\ received \in Nat
      /\ n \in 1..BufferLength
  BY SegmentFacts, StreamFacts DEF AtSegment, NSegs, BufferLength
<1>1. CASE stream.segs[k].kind = "frame"
  <2>1. PICK c \in 0..(MAX_HEAD_TOKEN_SEARCH_BYTES - 1) :
           /\ LengthFieldEnd(c) < To(k) - From(k)
           /\ Buffer(c) = COLON
           /\ \A i \in 0..(c - 1) : Buffer(i) # COLON
           /\ Buffer(To(k) - From(k) - 1) = FRAME_TERMINATOR
           /\ \A i \in MinimumTerminatorIndex(c)..(To(k) - From(k) - 2) :
                Buffer(i) # FRAME_TERMINATOR
           /\ \/ DeclaredFrameLength(c) = To(k) - From(k)
              \/ /\ MinimumTerminatorIndex(c) < To(k) - From(k)
                 /\ base + DeclaredFrameLength(c) <= Len(stream.bytes)
                      => Buffer(DeclaredFrameLength(c) - 1) # FRAME_TERMINATOR
    BY <1>1, FrameParts
  <2>2. LengthFieldEnd(c) \in Nat /\ c < LengthFieldEnd(c) /\ MinimumTerminatorIndex(c) \in Nat
    BY DEF MinimumTerminatorIndex, LengthFieldEnd, LENGTH_FIELD_BYTES,
         MINIMUM_TRAILING_FIXED_BYTES, MAX_HEAD_TOKEN_SEARCH_BYTES
  <2>3. ColonIndex(c) /\ BufferLength >= LengthFieldEnd(c)
    BY <1>0, <2>1, <2>2 DEF ColonIndex, MAX_HEAD_TOKEN_SEARCH_BYTES
  <2>4. CASE DeclaredFrameLength(c) = n
    <3>1. ResolvesAfterColon(c, n)
      BY <1>0, <2>1, <2>3, <2>4 DEF ResolvesAfterColon, DeclaredLengthFits
    <3>2. QED BY <1>0, <2>3, <3>1 DEF CanEmit, FrameLength
  <2>5. CASE DeclaredFrameLength(c) # n
    <3>1. MinimumTerminatorIndex(c) < n
      BY <2>1, <2>5
    <3>2. TerminatorIndex(MinimumTerminatorIndex(c), n - 1)
      <4> DEFINE m == MinimumTerminatorIndex(c)
      <4>1. /\ n - 1 >= m /\ n - 1 < BufferLength
            /\ (n - 1) - 1 = n - 2
        BY <1>0, <2>1, <2>2, <3>1
      <4>2. /\ Buffer(n - 1) = FRAME_TERMINATOR
            /\ \A i \in m..(n - 2) : Buffer(i) # FRAME_TERMINATOR
        BY <1>0, <2>1
      <4> HIDE DEF m, n
      <4> QED BY <4>1, <4>2 DEF TerminatorIndex, m
    <3>3. CASE ~ DeclaredLengthFits(c)
      <4>1. ResolvesAfterColon(c, n)
        BY <2>3, <3>2, <3>3 DEF ResolvesAfterColon
      <4>2. QED BY <1>0, <2>3, <4>1 DEF CanEmit, FrameLength
    <3>4. CASE DeclaredLengthFits(c)
      \* it would land on the terminator of something else
      <4>1. Buffer(c + 1) \in 0..255 /\ Buffer(c + 2) \in 0..255
        <5>1. c + 1 \in Nat /\ c + 2 \in Nat /\ c + 1 < BufferLength /\ c + 2 < BufferLength
          <6>1. c \in Nat /\ LengthFieldEnd(c) = c + 3
            BY DEF LengthFieldEnd, LENGTH_FIELD_BYTES, MAX_HEAD_TOKEN_SEARCH_BYTES
          <6> QED BY <1>0, <2>3, <6>1
        <5>2. QED BY <5>1, BufferByte
      <4>2. DeclaredFrameLength(c) \in 1..BufferLength
        <5>1. DeclaredLength(c) \in Nat
          BY <4>1, TwoBytes DEF DeclaredLength
        <5>2. QED BY <1>0, <2>2, <3>4, <5>1 DEF DeclaredLengthFits, DeclaredFrameLength
      <4>3. ResolvesAfterColon(c, DeclaredFrameLength(c))
        BY <2>3, <3>4 DEF ResolvesAfterColon
      <4>4. QED BY <2>3, <4>2, <4>3 DEF CanEmit, FrameLength
    <3>5. QED BY <3>3, <3>4
  <2>6. QED BY <2>4, <2>5
<1>2. CASE stream.segs[k].kind # "frame"
  <2>1. CleanNoise(stream.bytes, From(k), To(k))
    BY <1>2, SegmentFacts
  <2>2. HeadIsCorrupt
    BY <1>0, <2>1 DEF CleanNoise, HeadIsCorrupt, Buffer, MAX_HEAD_TOKEN_SEARCH_BYTES
  <2>3. Buffer(n - 1) = FRAME_TERMINATOR
    <3>1. base + (n - 1) + 1 = To(k)
      BY <1>0
    <3>2. QED BY <2>1, <3>1 DEF Buffer, CleanNoise
  <2>4. \A i \in 0..(n - 1 - 1) : Buffer(i) # FRAME_TERMINATOR
    <3> SUFFICES ASSUME NEW i \in 0..(n - 1 - 1) PROVE Buffer(i) # FRAME_TERMINATOR
      OBVIOUS
    <3>1. From(k) + i \in From(k)..(To(k) - 2)
      BY <1>0
    <3>2. QED BY <1>0, <2>1, <3>1 DEF Buffer, CleanNoise
  <2>5. n - 1 \in 0..(BufferLength - 1) /\ TerminatorIndex(0, n - 1)
    BY <1>0, <2>3, <2>4 DEF TerminatorIndex
  <2>6. QED BY <2>2, <2>5 DEF CanResync
<1>3. QED BY <1>1, <1>2

\* Behind the k-th segment comes the next one, or the end of the stream.
LEMMA NextSegment ==
  ASSUME TypeOK, CleanStream(stream), NEW k \in 1..NSegs
  PROVE  /\ k + 1 \in 1..(NSegs + 1)
         /\ To(k) = IF k + 1 <= NSegs THEN From(k + 1) ELSE Len(stream.bytes)
<1>1. NSegs \in Nat
  BY StreamFacts DEF NSegs
<1>2. QED BY <1>1, SegmentFacts

LEMMA InitClean ==
  ASSUME CleanStream(stream), Init
  PROVE  CleanInv
<1>1. CutInv /\ TypeOK /\ CleanStream(stream)
  BY InitCut DEF Init, CutInv
<1>2. NSegs \in Nat /\ NSegs > 0 /\ From(1) = 0
  BY <1>1, StreamFacts DEF CleanStream, NSegs, From
<1>3. 1 \in 1..NSegs /\ 1 \in 1..(NSegs + 1) /\ AtSegment(1)
  BY <1>2 DEF AtSegment, Init
<1>4. received < To(1)
  BY <1>1, <1>2, <1>3, SegmentFacts DEF Init
<1>5. frames = SentFrames(base)
  <2>1. \A j \in 1..NSegs : ~ (To(j) <= 0)
    BY <1>1, SegmentFacts
  <2>2. QED BY <2>1 DEF SentFrames, NSegs, To, Init
<1>6. QED BY <1>1, <1>3, <1>4, <1>5 DEF CleanInv

LEMMA StepClean ==
  ASSUME resets' = resets, CleanInv, [Next]_vars
  PROVE  CleanInv'
<1>0. CutInv /\ TypeOK /\ CleanStream(stream) /\ frames = SentFrames(base)
  BY DEF CleanInv, CutInv
<1>1. PICK k \in 1..(NSegs + 1) :
        AtSegment(k) /\ (~ calling => (k <= NSegs => received < To(k)))
  BY DEF CleanInv
<1>2. CutInv'
  BY <1>0, StepCut
<1>3. /\ NSegs \in Nat /\ received \in Nat /\ base \in Nat /\ BufferLength = received - base
      /\ base <= received /\ received <= Len(stream.bytes) /\ Len(stream.bytes) \in Nat
  BY <1>0, StreamFacts DEF NSegs, BufferLength
<1>4. stream' = stream
  BY DEF Next, LoopTurn, Push, EmitFrame, Resync, Settle, Reset, vars
<1>5. CleanStream(stream)'
  BY <1>0, <1>4, Zenon
<1>6. NSegs' = NSegs /\ (\A m : SentFrames(m)' = SentFrames(m)) /\ (\A j : To(j)' = To(j))
  BY <1>4 DEF NSegs, SentFrames, To
\* what a step that takes the k-th segment off the buffer leaves behind
<1>7. ASSUME k <= NSegs, base' = To(k), frames' = SentFrames(To(k)), calling' = TRUE
      PROVE  CleanInv'
  <2>1. k \in 1..NSegs
    BY <1>3, <1>7
  <2>2. k + 1 \in 1..(NSegs + 1)
        /\ To(k) = IF k + 1 <= NSegs THEN From(k + 1) ELSE Len(stream.bytes)
    BY <1>0, <2>1, NextSegment
  <2>3. AtSegment(k + 1)'
    BY <1>4, <1>7, <2>2 DEF AtSegment, NSegs, From
  <2>4. frames' = SentFrames(base)'
    BY <1>4, <1>7 DEF SentFrames
  <2>5. k + 1 \in 1..(NSegs + 1)'
    BY <1>6, <2>2
  <2>6. QED BY <1>2, <1>5, <1>7, <2>3, <2>4, <2>5 DEF CleanInv
\* what a step that leaves the buffer's front alone does
<1>8. ASSUME base' = base, frames' = frames, ~ calling' => (k <= NSegs => received' < To(k))
      PROVE  CleanInv'
  <2>1. AtSegment(k)'
    BY <1>1, <1>4, <1>8 DEF AtSegment, NSegs, From
  <2>2. frames' = SentFrames(base)'
    BY <1>0, <1>4, <1>8 DEF SentFrames
  <2>3. k \in 1..(NSegs + 1)'
    BY <1>6
  <2>4. (~ calling => (k <= NSegs => received < To(k)))'
    BY <1>6, <1>8
  <2>5. QED BY <1>2, <1>5, <2>1, <2>2, <2>3, <2>4 DEF CleanInv
<1>9. ASSUME NEW n \in 1..(Len(stream.bytes) - received), Push(n) PROVE CleanInv'
  BY <1>8, <1>9 DEF Push
<1>10. ASSUME NEW n \in 1..BufferLength, EmitFrame(n) PROVE CleanInv'
  <2>1. k \in 1..NSegs
    BY <1>1, <1>3, <1>10 DEF AtSegment
  <2>2. stream.segs[k].kind = "frame" /\ n = To(k) - From(k)
    BY <1>0, <1>1, <1>10, <2>1, EmitExact DEF EmitFrame
  <2>3. base = From(k) /\ From(k) \in Nat /\ To(k) \in Nat
    BY <1>0, <1>1, <1>3, <2>1, SegmentFacts DEF AtSegment
  <2>4. base + n = To(k)
    BY <2>2, <2>3
  <2>5. base' = To(k) /\ frames' = frames \cup {<<From(k), To(k)>>} /\ calling' = TRUE
    <3>1. calling' = TRUE
      BY <1>10 DEF EmitFrame
    <3>2. QED BY <1>10, <2>3, <2>4, <3>1 DEF EmitFrame
  <2>6. frames' = SentFrames(To(k))
    BY <1>0, <1>1, <2>1, <2>2, <2>5, SentNext
  <2>7. k <= NSegs
    BY <2>1, <1>3
  <2>8. QED BY <1>7, <2>5, <2>6, <2>7
<1>11. ASSUME NEW t \in 0..(BufferLength - 1), Resync(t) PROVE CleanInv'
  <2>1. k \in 1..NSegs
    BY <1>1, <1>3, <1>11 DEF AtSegment
  <2>2. stream.segs[k].kind # "frame" /\ t + 1 = To(k) - From(k)
    BY <1>0, <1>1, <1>11, <2>1, ResyncExact DEF Resync
  <2>3. base = From(k) /\ From(k) \in Nat /\ To(k) \in Nat
    BY <1>0, <1>1, <1>3, <2>1, SegmentFacts DEF AtSegment
  <2>4. t \in Nat /\ base + t + 1 = To(k)
    <3>1. t \in Nat
      BY <1>3
    <3>2. t + 1 = To(k) - From(k)
      BY <2>2
    <3>3. QED BY <2>3, <3>1, <3>2
  <2>5. base' = To(k) /\ frames' = frames /\ calling' = TRUE
    <3>1. calling' = TRUE
      BY <1>11 DEF Resync
    <3>2. QED BY <1>11, <2>4, <3>1 DEF Resync
  <2>6. frames' = SentFrames(To(k))
    BY <1>0, <1>1, <2>1, <2>2, <2>5, SentNext
  <2>7. k <= NSegs
    BY <2>1, <1>3
  <2>8. QED BY <1>7, <2>5, <2>6, <2>7
<1>12. CASE Settle
  <2>1. k <= NSegs => received < To(k)
    <3> SUFFICES ASSUME k <= NSegs, ~ (received < To(k)) PROVE FALSE
      OBVIOUS
    <3>1. k \in 1..NSegs /\ To(k) \in Nat
      BY <1>0, <1>3, SegmentFacts
    <3>2. To(k) <= received
      BY <1>3, <3>1
    <3>3. CanEmit \/ CanResync
      BY <1>0, <1>1, <3>1, <3>2, LoopGoesOn
    <3>4. QED BY <1>12, <3>3 DEF Settle
  <2>2. BufferLength <= MaxBufferBytes
    <3>1. CASE k <= NSegs
      <4>1. k \in 1..NSegs
        BY <1>3, <3>1
      <4>2. /\ To(k) - From(k) <= MaxBufferBytes + 1 /\ base = From(k)
            /\ To(k) \in Nat /\ From(k) \in Nat
        BY <1>0, <1>1, <3>1, <4>1, SegmentFacts DEF AtSegment
      <4>3. QED BY <1>3, <2>1, <3>1, <4>2, BufferAssumption
    <3>2. CASE ~ (k <= NSegs)
      BY <1>1, <1>3, <3>2, BufferAssumption DEF AtSegment
    <3>3. QED BY <3>1, <3>2
  <2>3. base' = base
    BY <1>3, <1>12, <2>2, BufferAssumption DEF Settle
  <2>4. frames' = frames /\ received' = received
    BY <1>12 DEF Settle
  <2>5. QED BY <1>8, <2>1, <2>3, <2>4
<1>13. CASE Reset
  <2>1. resets \in Nat /\ resets' = resets + 1
    BY <1>0, <1>13, BufferAssumption DEF Reset, TypeOK
  <2>2. QED BY <2>1
<1>14. CASE UNCHANGED vars
  <2>1. base' = base /\ frames' = frames /\ received' = received /\ calling' = calling
    BY <1>14 DEF vars
  <2>2. QED BY <1>1, <1>8, <2>1
<1>15. QED
  BY <1>9, <1>10, <1>11, <1>12, <1>13, <1>14 DEF Next, LoopTurn

\* The inductive invariant of the next theorem: it asks for CleanInv where that
\* can hold, on a clean stream of which nothing was discarded.
SplitInv == CutInv /\ (CleanStream(stream) /\ resets = 0 => CleanInv)

\* On every stream whose framing is recoverable, in whatever chunks it comes,
\* push() hands on exactly the frames whose last byte has arrived.
THEOREM CleanSplit == Spec => []ExactlyTheArrivedFrames
<1>1. Init => SplitInv
  BY InitClean, InitCut DEF SplitInv
<1>2. SplitInv /\ [Next]_vars => SplitInv'
  <2> SUFFICES ASSUME SplitInv, [Next]_vars PROVE SplitInv'
    OBVIOUS
  <2>1. CutInv /\ CutInv' /\ resets \in Nat
    BY StepCut, BufferAssumption DEF SplitInv, CutInv, TypeOK
  <2>2. stream' = stream /\ resets' \in {resets, resets + 1}
    BY DEF Next, LoopTurn, Push, EmitFrame, Resync, Settle, Reset, vars
  <2>3. ASSUME CleanStream(stream)', resets' = 0 PROVE CleanInv'
    <3>1. CleanStream(stream)
      BY <2>2, <2>3, Zenon
    <3>2. resets = 0
      BY <2>1, <2>2, <2>3
    <3>3. CleanInv
      BY <3>1, <3>2 DEF SplitInv
    <3>4. QED BY <2>3, <3>2, <3>3, StepClean
  <2>4. QED BY <2>1, <2>3 DEF SplitInv
<1>3. SplitInv => ExactlyTheArrivedFrames
  <2> SUFFICES ASSUME SplitInv, ~ (resets > 0), CleanStream(stream), ~ calling
               PROVE  frames = SentFrames(received)
    BY Zenon DEF ExactlyTheArrivedFrames, SplitAsSent
  <2>0. CleanInv
    <3>1. resets \in Nat
      BY BufferAssumption DEF SplitInv, CutInv, TypeOK
    <3>2. resets = 0
      BY <3>1
    <3>3. QED BY <3>2 DEF SplitInv
  <2>1. TypeOK /\ CleanStream(stream) /\ frames = SentFrames(base)
    BY <2>0 DEF CleanInv, CutInv
  <2>2. PICK k \in 1..(NSegs + 1) : AtSegment(k) /\ (k <= NSegs => received < To(k))
    BY <2>0 DEF CleanInv
  <2>3. received \in Nat /\ base <= received /\ received <= Len(stream.bytes)
    BY <2>1, StreamFacts
  <2>4. SentFrames(received) = SentFrames(base)
    BY <2>1, <2>2, <2>3, SentSame
  <2>5. QED BY <2>1, <2>4
<1>4. QED BY <1>1, <1>2, <1>3, PTL DEF Spec
=============================================================================
