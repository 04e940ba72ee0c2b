---------------------------- MODULE LineSplitter ----------------------------
(***************************************************************************)
(* StarlinkLineSplitter (src/starlink/tcp/starlink-line-splitter.ts): cuts *)
(* the byte stream of one TCP connection into lines.                       *)
(*                                                                         *)
(* What a device sends is fixed at the start; TCP hands it to push() in    *)
(* chunks of any size.  The private buffer is the slice base+1 .. received *)
(* of the stream.  One call of push() is the step Push followed by the     *)
(* turns of its loop (CutLine) and by Settle, which returns; Node runs the *)
(* call to completion, so nothing else happens while calling holds.        *)
(*                                                                         *)
(* The splitter looks for two bytes only, so a stream is a sequence of any *)
(* symbols: a byte, or a group of bytes the modules that use the lines do  *)
(* not take apart.  Lengths count symbols.  Beside its symbols a stream    *)
(* has its parts, what the device says with them (see StarlinkInput); the  *)
(* splitter does not look at them.                                         *)
(***************************************************************************)
EXTENDS Integers, Sequences

CONSTANTS
    Symbols,         \* what streams are made of
    LF, CR,          \* the symbols '\n' and '\r'
    Streams,         \* what a device may send on this connection: [symbols, parts]
    MaxBufferBytes,  \* constructor argument maxBufferBytes
    MaxResets        \* bound on the calls of reset()

ASSUME LineEndAssumption == LF \in Symbols /\ CR \in Symbols /\ LF # CR
ASSUME StreamsAssumption == \A s \in Streams : s.symbols \in Seq(Symbols)
ASSUME BufferAssumption  == MaxBufferBytes \in Nat /\ MaxResets \in Nat

VARIABLES
    stream,      \* what the device sends on this connection
    received,    \* how many of its symbols have arrived
    base,        \* how many of those have left the buffer
    lines,       \* the lines returned so far, as pairs <<from, to>>
    calling,     \* a call of push() is in progress
    overflowed,  \* the flag the last call returned
    cuts,        \* history: where the stream was cut by dropping the buffer
    resets       \* calls of reset() so far

vars == <<stream, received, base, lines, calling, overflowed, cuts, resets>>

BufferLength == received - base

\* Symbol i (from 0) of the buffer.
Buffer(i) == stream.symbols[base + i + 1]

\* buffer.indexOf('\n') is n
NewlineIndex(n) == Buffer(n) = LF /\ \A i \in 0..(n - 1) : Buffer(i) # LF

\* Mutant: a line that is only "\r" is not blank.
LineEndAtLeastOne(n) == IF n > 1 /\ Buffer(n - 1) = CR THEN n - 1 ELSE n

\* The end of a line whose newline is at n.
LineEnd(n) == IF n > 0 /\ Buffer(n - 1) = CR THEN n - 1 ELSE n

----------------------------------------------------------------------------
Init ==
    /\ stream \in Streams
    /\ received = 0
    /\ base = 0
    /\ lines = {}
    /\ calling = FALSE
    /\ overflowed = FALSE
    /\ cuts = {}
    /\ resets = 0

\* push(chunk) appends a chunk of n symbols and enters its loop.
Push(n) ==
    /\ ~ calling
    /\ received' = received + n
    /\ calling' = TRUE
    /\ overflowed' = FALSE
    /\ UNCHANGED <<stream, base, lines, cuts, resets>>

\* Mutant: every line is taken to end in "\r\n".
CutLineTwo(n) ==
    /\ calling
    /\ NewlineIndex(n)
    /\ base' = base + n + 2
    /\ lines' = IF LineEnd(n) > 0 THEN lines \cup {<<base, base + LineEnd(n)>>} ELSE lines
    /\ UNCHANGED <<stream, received, calling, overflowed, cuts, resets>>

\* One turn of the loop.  Blank lines are dropped.
CutLine(n) ==
    /\ calling
    /\ NewlineIndex(n)
    /\ base' = base + n + 1
    /\ lines' = IF LineEnd(n) > 0 THEN lines \cup {<<base, base + LineEnd(n)>>} ELSE lines
    /\ UNCHANGED <<stream, received, calling, overflowed, cuts, resets>>

\* buffer.indexOf('\n') is not -1
HasNewline == \E n \in 0..(BufferLength - 1) : Buffer(n) = LF

\* Mutant: the limit is checked against an empty buffer.
SettleNever ==
    /\ calling
    /\ ~ HasNewline
    /\ calling' = FALSE
    /\ overflowed' = FALSE
    /\ UNCHANGED <<stream, received, base, lines, cuts, resets>>

\* The loop ends; push() checks the size of what is left and returns.
Settle ==
    /\ calling
    /\ ~ HasNewline
    /\ calling' = FALSE
    /\ overflowed' = (BufferLength > MaxBufferBytes)
    /\ IF BufferLength > MaxBufferBytes
       THEN base' = received /\ cuts' = cuts \cup {received}
       ELSE UNCHANGED <<base, cuts>>
    /\ UNCHANGED <<stream, received, lines, resets>>

Reset ==
    /\ ~ calling
    /\ resets < MaxResets
    /\ resets' = resets + 1
    /\ base' = received
    /\ cuts' = cuts \cup {received}
    /\ UNCHANGED <<stream, received, lines, calling, overflowed>>

Next ==
    \/ \E n \in 1..(Len(stream.symbols) - received) : Push(n)
    \/ \E n \in 0..(BufferLength - 1) : CutLine(n)
    \/ Settle
    \/ Reset

Spec == Init /\ [][Next]_vars

----------------------------------------------------------------------------
(* Properties                                                              *)

\* Every variable has its type, and the buffer is a slice of what arrived.
TypeOK ==
    /\ stream.symbols \in Seq(Symbols)
    /\ received \in 0..Len(stream.symbols)
    /\ base \in 0..received
    /\ lines \subseteq (Nat \X Nat)
    /\ calling \in BOOLEAN
    /\ overflowed \in BOOLEAN
    /\ cuts \subseteq 0..base
    /\ resets \in 0..MaxResets

\* push() never leaves more than maxBufferBytes behind, whatever arrives in
\* whatever chunks: "a misbehaving connection can't grow memory unbounded".
MemoryBounded == ~ calling => BufferLength <= MaxBufferBytes

(***************************************************************************)
(* What the lines of a stream are: the newline at p ends a line that       *)
(* starts after the newline before it or, if the buffer was dropped in     *)
(* between, where that happened last; a "\r" before it is not part of it.  *)
(***************************************************************************)
Newlines(n) == { p \in 1..n : stream.symbols[p] = LF }

Starts(from, p) ==
    /\ from < p
    /\ from = 0 \/ stream.symbols[from] = LF \/ from \in cuts
    /\ \A i \in (from + 1)..(p - 1) : stream.symbols[i] # LF /\ i \notin cuts

TrimmedEnd(from, p) ==
    IF from < p - 1 /\ stream.symbols[p - 1] = CR THEN p - 2 ELSE p - 1

\* The lines, but for the blank ones, that end in the first n symbols.
LinesUpTo(n) ==
    { <<l[1], TrimmedEnd(l[1], l[2])>> :
        l \in { k \in (0..n) \X Newlines(n) :
                Starts(k[1], k[2]) /\ k[1] < TrimmedEnd(k[1], k[2]) } }

\* When push() has returned, the lines handed on are exactly those of what has
\* arrived, however TCP cut it and wherever the buffer was dropped: none is
\* split, merged, missed, held back or made up.
LinesAreExact == ~ calling => lines = LinesUpTo(received)

\* Dropping the buffer costs only lines longer than the buffer: the stream is
\* cut only where more than maxBufferBytes have come without a newline (or by
\* reset()).  So a line that fits the buffer is never lost or cut short.
CutsAreOverflows ==
    resets = 0 => \A c \in cuts : /\ c > MaxBufferBytes
                                  /\ \A i \in (c - MaxBufferBytes)..c : stream.symbols[i] # LF
=============================================================================
