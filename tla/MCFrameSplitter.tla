-------------------------- MODULE MCFrameSplitter --------------------------
(***************************************************************************)
(* Byte streams for FrameSplitter.  The protocol's own field widths are    *)
(* small enough to be used as they are.                                    *)
(***************************************************************************)
EXTENDS FrameSplitter, SequencesExt

Rpt == <<43, 82, 80, 84, 58>>          \* "+RPT:"
Hbd == <<72, 58>>                      \* a two-byte head token, "H:"
Imei == <<35, 69, 38, 3, 56, 43, 80, 9>>     \* "35 69 38 ...": starts with 0x23
GTime == <<24, 5, 17, 35, 30, 0, 0>>   \* 0x23 is a legal byte here too

Fill(n) == [i \in 1..n |-> 1]

\* <head><Length><IMEI><DeviceID><data zone><GTime><SN>#
Frame(head, declared, data, sn) ==
    [kind |-> "frame",
     bytes |-> head \o <<declared \div 256, declared % 256>> \o Imei \o <<1>>
                    \o data \o GTime \o sn \o <<35>>]

BodyLength(data) == MINIMUM_TRAILING_FIXED_BYTES + Len(data)
TotalLength(head, data) == Len(head) + LENGTH_FIELD_BYTES + BodyLength(data) + 1

Honest(head, data, sn) == Frame(head, BodyLength(data), data, sn)

\* Length of the whole frame instead of the length of its body
DeclaringTotal(head, data, sn) == Frame(head, TotalLength(head, data), data, sn)

Noise(n) == [kind |-> "noise", bytes |-> Fill(n - 1) \o <<35>>]

\* The stream a sender makes of a sequence of parts.
EndOf(parts, k) ==
    FoldLeft(LAMBDA n, p : n + Len(p.bytes), 0, SubSeq(parts, 1, k))

StreamOf(parts) ==
    [bytes |-> FlattenSeq([k \in DOMAIN parts |-> parts[k].bytes]),
     segs  |-> [k \in DOMAIN parts |-> [kind |-> parts[k].kind,
                                        from |-> EndOf(parts, k - 1),
                                        to   |-> EndOf(parts, k)]]]

----------------------------------------------------------------------------
\* Recoverable parts: no data zone; 0x23 in the data zone and in GTime but not
\* in the last bytes; a Length that lies; a bare "N:" acknowledgement frame
\* shorter than the fixed fields; noise of one full search window.
CleanParts ==
    { Honest(Rpt, <<>>, <<35, 35>>),
      Honest(Hbd, <<35, 7>>, <<0, 2>>),
      Frame(Rpt, 500, <<7>>, <<0, 3>>),
      Frame(Hbd, 4, <<7>>, <<35, 4>>),
      [kind |-> "frame", bytes |-> <<78, 58, 0, 2, 35, 35, 35>>],
      Noise(8) }

\* Every one and every two of them, and noise between two frames that need the
\* fallback.
LyingParts == { Frame(Rpt, 500, <<7>>, <<0, 3>>), Frame(Hbd, 4, <<7>>, <<35, 4>>) }

CleanLists ==
    UNION { [1..n -> CleanParts] : n \in 1..2 }
    \cup { <<p, Noise(8), q>> : p \in LyingParts, q \in LyingParts }

\* The longest recoverable frame has 27 bytes.  Of the corrupt streams, the
\* frames that declare more outgrow this while they are incomplete, and so
\* does long noise.
LongestPending == 26

\* Corrupt streams: noise shorter and longer than the window and the buffer,
\* frames whose declared length lands inside them or in the next, stray
\* terminators.
DirtyFrames ==
    { Honest(Rpt, <<35, 7>>, <<0, 35>>),
      DeclaringTotal(Rpt, <<7>>, <<0, 3>>),
      Frame(Hbd, 3, <<>>, <<0, 1>>) }

DirtyNoise == { Noise(1), Noise(11), [kind |-> "noise", bytes |-> Fill(28)] }

DirtyLists ==
    { <<p, Noise(1), r>> : p \in DirtyFrames, r \in DirtyFrames }
    \cup { <<q, r>> : q \in DirtyNoise, r \in DirtyFrames }

AllStreams == { StreamOf(p) : p \in CleanLists \cup DirtyLists }

\* Frames with an honest Length and 0x23 as ordinary data.
HashInDataStreams ==
    { StreamOf(<<Honest(Rpt, d, sn), Honest(Rpt, <<7>>, <<0, 1>>)>>) :
        d \in { <<7>>, <<35>>, <<7, 35>> }, sn \in { <<0, 1>>, <<0, 35>> } }

ASSUME MaxBufferBytes >= LongestPending => \A p \in CleanLists : CleanStream(StreamOf(p))
============================================================================
