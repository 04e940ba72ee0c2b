--------------------------- MODULE FrameSplitter ---------------------------
(***************************************************************************)
(* TrackerFrameSplitter (src/tracker/tcp/tracker-frame-splitter.ts): cuts  *)
(* the byte stream of one TCP connection into AVT110 frames.               *)
(*                                                                         *)
(* The bytes a device sends are fixed at the start (stream.bytes); TCP     *)
(* hands them to push() in chunks of any size.  The private buffer is the  *)
(* slice of the stream between two offsets: the bytes base+1 .. received.  *)
(* One call of push() is the step Push followed by the turns of its loop   *)
(* (EmitFrame, Resync) and by Settle, which returns; calling is TRUE       *)
(* between them.  Node runs the call to completion, so nothing else        *)
(* happens to the splitter while calling holds.                            *)
(***************************************************************************)
EXTENDS Integers, Sequences

CONSTANTS
    Streams,         \* the byte streams a device may send, see StreamType
    MaxBufferBytes,  \* constructor argument maxBufferBytes
    MaxResets        \* bound on the calls of reset()

FRAME_TERMINATOR == 35
COLON == 58
MAX_HEAD_TOKEN_SEARCH_BYTES == 8
LENGTH_FIELD_BYTES == 2
MINIMUM_TRAILING_FIXED_BYTES == 8 + 1 + 7 + 2

(***************************************************************************)
(* A stream is its bytes and, for the properties only, the segments the    *)
(* sender put together: frames and noise, from (exclusive) to (inclusive). *)
(***************************************************************************)
SegmentType == [kind : {"frame", "noise"}, from : Nat, to : Nat]
StreamType  == [bytes : Seq(0..255), segs : Seq(SegmentType)]

ASSUME StreamsAssumption == \A s \in Streams : s \in StreamType
ASSUME BufferAssumption  == MaxBufferBytes \in Nat /\ MaxResets \in Nat

VARIABLES
    stream,      \* what the device sends on this connection
    received,    \* how many of its bytes have arrived
    base,        \* how many of those have left the buffer
    frames,      \* the frames returned so far, as pairs <<from, to>>
    calling,     \* a call of push() is in progress
    overflowed,  \* the flag the last call returned
    resets       \* calls of reset() so far

vars == <<stream, received, base, frames, calling, overflowed, resets>>

BufferLength == received - base

\* Byte i (from 0) of the buffer.
Buffer(i) == stream.bytes[base + i + 1]

----------------------------------------------------------------------------
(* resolveFrameLength()                                                    *)

\* searchWindow.indexOf(COLON) is c
ColonIndex(c) ==
    /\ c < MAX_HEAD_TOKEN_SEARCH_BYTES
    /\ c < BufferLength
    /\ Buffer(c) = COLON
    /\ \A i \in 0..(c - 1) : Buffer(i) # COLON

\* What resolveFrameLength() calls null: a full window without a colon.
HeadIsCorrupt ==
    /\ BufferLength >= MAX_HEAD_TOKEN_SEARCH_BYTES
    /\ \A i \in 0..(MAX_HEAD_TOKEN_SEARCH_BYTES - 1) : Buffer(i) # COLON

LengthFieldEnd(c) == c + 1 + LENGTH_FIELD_BYTES

\* readUInt16BE just after the colon
DeclaredLength(c) == Buffer(c + 1) * 256 + Buffer(c + 2)

DeclaredFrameLength(c) == LengthFieldEnd(c) + DeclaredLength(c) + 1

\* Mutant: the byte at the declared end is not compared with the terminator.
DeclaredLengthFitsUnchecked(c) == BufferLength >= DeclaredFrameLength(c)

\* The fast path: the declared length lands on a terminator already here.
DeclaredLengthFits(c) ==
    /\ BufferLength >= DeclaredFrameLength(c)
    /\ Buffer(DeclaredFrameLength(c) - 1) = FRAME_TERMINATOR

\* Mutant: the search starts at the IMEI.
MinimumTerminatorIndexAtImei(c) == LengthFieldEnd(c)

MinimumTerminatorIndex(c) == LengthFieldEnd(c) + MINIMUM_TRAILING_FIXED_BYTES

\* buffer.indexOf(FRAME_TERMINATOR, start) is t
TerminatorIndex(start, t) ==
    /\ t >= start
    /\ t < BufferLength
    /\ Buffer(t) = FRAME_TERMINATOR
    /\ \A i \in start..(t - 1) : Buffer(i) # FRAME_TERMINATOR

\* resolveFrameLength() with a head token ending at c returns the number n
ResolvesAfterColon(c, n) ==
    /\ BufferLength >= LengthFieldEnd(c)
    /\ \/ /\ DeclaredLengthFits(c)
          /\ n = DeclaredFrameLength(c)
       \/ /\ ~ DeclaredLengthFits(c)
          /\ TerminatorIndex(MinimumTerminatorIndex(c), n - 1)

FrameLength(n) ==
    \E c \in 0..(MAX_HEAD_TOKEN_SEARCH_BYTES - 1) :
        ColonIndex(c) /\ ResolvesAfterColon(c, n)

\* The loop of push() has another turn to take.
CanEmit   == \E n \in 1..BufferLength : FrameLength(n)
CanResync == HeadIsCorrupt /\ \E t \in 0..(BufferLength - 1) : TerminatorIndex(0, t)

----------------------------------------------------------------------------
Init ==
    /\ stream \in Streams
    /\ received = 0
    /\ base = 0
    /\ frames = {}
    /\ calling = FALSE
    /\ overflowed = FALSE
    /\ resets = 0

\* push(chunk) appends a chunk of n bytes and enters its loop.
Push(n) ==
    /\ ~ calling
    /\ received' = received + n
    /\ calling' = TRUE
    /\ overflowed' = FALSE
    /\ UNCHANGED <<stream, base, frames, resets>>

\* Mutant: the buffer is advanced one byte past the frame.
EmitFrameSkippingOneMore(n) ==
    /\ calling
    /\ FrameLength(n)
    /\ frames' = frames \cup {<<base, base + n>>}
    /\ base' = base + n + 1
    /\ UNCHANGED <<stream, received, calling, overflowed, resets>>

\* One turn of the loop that cuts a frame off the front of the buffer.
EmitFrame(n) ==
    /\ calling
    /\ FrameLength(n)
    /\ frames' = frames \cup {<<base, base + n>>}
    /\ base' = base + n
    /\ UNCHANGED <<stream, received, calling, overflowed, resets>>

\* Mutant: the terminator itself is left in the buffer.
ResyncKeepingTerminator(t) ==
    /\ calling
    /\ HeadIsCorrupt
    /\ TerminatorIndex(0, t)
    /\ base' = base + t
    /\ UNCHANGED <<stream, received, frames, calling, overflowed, resets>>

\* One turn of the loop that drops everything through the next terminator.
Resync(t) ==
    /\ calling
    /\ HeadIsCorrupt
    /\ TerminatorIndex(0, t)
    /\ base' = base + t + 1
    /\ UNCHANGED <<stream, received, frames, calling, overflowed, resets>>

\* Mutant: the limit is off by one.
SettleOffByOne ==
    /\ calling
    /\ ~ CanEmit
    /\ ~ CanResync
    /\ calling' = FALSE
    /\ overflowed' = (BufferLength > MaxBufferBytes + 1)
    /\ base' = IF BufferLength > MaxBufferBytes + 1 THEN received ELSE base
    /\ UNCHANGED <<stream, received, frames, resets>>

\* The loop breaks; push() checks the size of what is left and returns.
Settle ==
    /\ calling
    /\ ~ CanEmit
    /\ ~ CanResync
    /\ calling' = FALSE
    /\ overflowed' = (BufferLength > MaxBufferBytes)
    /\ base' = IF BufferLength > MaxBufferBytes THEN received ELSE base
    /\ UNCHANGED <<stream, received, frames, resets>>

Reset ==
    /\ ~ calling
    /\ resets < MaxResets
    /\ resets' = resets + 1
    /\ base' = received
    /\ UNCHANGED <<stream, received, frames, calling, overflowed>>

LoopTurn ==
    \/ \E n \in 1..BufferLength : EmitFrame(n)
    \/ \E t \in 0..(BufferLength - 1) : Resync(t)
    \/ Settle

Next ==
    \/ \E n \in 1..(Len(stream.bytes) - received) : Push(n)
    \/ LoopTurn
    \/ Reset

Spec == Init /\ [][Next]_vars

\* push() is synchronous: once called, its loop runs on.
FairSpec == Spec /\ WF_vars(LoopTurn)

----------------------------------------------------------------------------
(* Properties                                                              *)

\* Every variable has its type, and the buffer is a slice of what arrived.
TypeOK ==
    /\ stream \in StreamType
    /\ received \in 0..Len(stream.bytes)
    /\ base \in 0..received
    /\ frames \subseteq (Nat \X Nat)
    /\ calling \in BOOLEAN
    /\ overflowed \in BOOLEAN
    /\ resets \in 0..MaxResets

\* push() never leaves more than maxBufferBytes behind, whatever the bytes
\* and the chunks: the memory bound the class promises per connection.
MemoryBounded == ~ calling => BufferLength <= MaxBufferBytes

\* However corrupt the stream, the frames handed on never overlap, each lies
\* in the part already consumed and each ends in the terminator.
FramesWellCut ==
    /\ \A f \in frames : /\ f[1] < f[2] /\ f[2] <= base
                         /\ stream.bytes[f[2]] = FRAME_TERMINATOR
    /\ \A f, g \in frames : f = g \/ f[2] <= g[1] \/ g[2] <= f[1]

\* The loop of push() ends on every input.
PushReturns == calling ~> ~ calling

(* What the sender meant: the frames among the first n bytes it sent.      *)
SentFrames(n) ==
    { <<stream.segs[i].from, stream.segs[i].to>> :
        i \in { j \in 1..Len(stream.segs) :
                  stream.segs[j].kind = "frame" /\ stream.segs[j].to <= n } }

(***************************************************************************)
(* A stream whose framing is recoverable.  Its segments tile its bytes.    *)
(* A frame has a head token, ends in the terminator and has no other 0x23  *)
(* where the fallback looks (at or after MinimumTerminatorIndex); its      *)
(* Length is honest, or else the position it declares holds no 0x23 and    *)
(* the frame has all its fixed fields.  Noise fills the search window      *)
(* without a colon and ends in its only 0x23.  No segment outgrows the     *)
(* buffer while it is incomplete.                                          *)
(***************************************************************************)
CleanFrame(b, from, to) ==
    \E c \in 0..(MAX_HEAD_TOKEN_SEARCH_BYTES - 1) :
        LET lengthFieldEnd == c + 1 + LENGTH_FIELD_BYTES
            declared == lengthFieldEnd + (b[from + c + 2] * 256 + b[from + c + 3]) + 1
            minimum  == lengthFieldEnd + MINIMUM_TRAILING_FIXED_BYTES
        IN  /\ from + lengthFieldEnd < to
            /\ b[from + c + 1] = COLON
            /\ \A i \in 0..(c - 1) : b[from + i + 1] # COLON
            /\ b[to] = FRAME_TERMINATOR
            /\ \A i \in (from + minimum)..(to - 2) : b[i + 1] # FRAME_TERMINATOR
            /\ \/ from + declared = to
               \/ /\ from + minimum < to
                  /\ from + declared <= Len(b) => b[from + declared] # FRAME_TERMINATOR

CleanNoise(b, from, to) ==
    /\ from + MAX_HEAD_TOKEN_SEARCH_BYTES <= to
    /\ \A i \in 0..(MAX_HEAD_TOKEN_SEARCH_BYTES - 1) : b[from + i + 1] # COLON
    /\ b[to] = FRAME_TERMINATOR
    /\ \A i \in from..(to - 2) : b[i + 1] # FRAME_TERMINATOR

CleanStream(s) ==
    LET Start(i) == s.segs[i].from
        End(i)   == s.segs[i].to
        n        == Len(s.segs)
    IN  /\ n > 0 /\ Start(1) = 0 /\ End(n) = Len(s.bytes)
        /\ \A i \in 1..n : /\ Start(i) < End(i) /\ End(i) <= Len(s.bytes)
                           /\ End(i) - Start(i) <= MaxBufferBytes + 1
                           /\ i < n => Start(i + 1) = End(i)
                           /\ \A j \in 1..n : i < j => End(i) <= Start(j)
        /\ \A i \in 1..n : IF s.segs[i].kind = "frame"
                              THEN CleanFrame(s.bytes, Start(i), End(i))
                              ELSE CleanNoise(s.bytes, Start(i), End(i))

\* When push() has returned, the frames handed on so far are exactly the
\* sender's frames whose last byte has arrived.  The class promises it wherever
\* every Length is right; it fails where the end of a frame with 0x23 among its
\* bytes has yet to arrive.
SplitAsSent == ~ calling => frames = SentFrames(received)

\* On a stream whose framing is recoverable, push() splits as sent as long as
\* nothing was discarded by reset(): no frame is split, merged, missed or held
\* back, whatever chunks TCP made of the stream.
ExactlyTheArrivedFrames == SplitAsSent \/ resets > 0 \/ ~ CleanStream(stream)
============================================================================
