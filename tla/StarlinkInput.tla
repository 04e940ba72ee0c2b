--------------------------- MODULE StarlinkInput ---------------------------
(***************************************************************************)
(* The splitter and the parser of the StarLink server put together: what   *)
(* the 'data' handler and handleLine() make of the stream of a connection. *)
(***************************************************************************)
EXTENDS LineSplitter, StarlinkParser

ASSUME LineAssumption ==
    Return = CR /\ LF \notin Heads \cup {Comma, Checksum} \cup DOMAIN DeviceOf

(***************************************************************************)
(* The parts of a stream are, in their order, the messages and the noise   *)
(* it is made of: [kind, from, to] and, for a message, what the device     *)
(* means by it, [device, type, index, fields].  A part is the symbols      *)
(* from + 1 .. to of the stream; that of a message ends in a newline.      *)
(***************************************************************************)
\* The text of a line the splitter returned.
Text(l) == SubSeq(stream.symbols, l[1] + 1, l[2])

\* handleLine(): what was decoded so far.  A line that does not match makes
\* parseFrame() throw and is discarded.
Decoded == { ParseFrame(Text(l)) : l \in { k \in lines : Matches(Text(k)) } }

----------------------------------------------------------------------------
(* What a device means by a message                                        *)

\* The fields that say something about a tag of the format.
Filled(m) == { i \in DOMAIN m.fields : m.fields[i] # "" /\ i <= Len(FormatTags) }

\* Of some fields, those with a tag the parser knows, and those it cannot read.
Known(S)      == { i \in S : FormatTags[i] \in SupportedTags }
Damaged(m, S) == { i \in Known(S) : \/ /\ FormatTags[i] \in NumberTags
                                       /\ m.fields[i] \notin DOMAIN NumberIn(FormatTags[i])
                                    \/ /\ FormatTags[i] \in CoordinateTags
                                       /\ m.fields[i] \notin DOMAIN CoordinateIn }

\* The entries of a report, and the fields that say what entry t is.
Entries == (SupportedTags \ IgnitionTags) \cup {"ignition"}

Says(m, S, t) ==
    { i \in Known(S) \ Damaged(m, S) :
        IF t = "ignition"
        THEN \/ FormatTags[i] \in IgnitionTags
             \/ FormatTags[i] = "#EID#" /\ IntIn[m.fields[i]] \in {24, 25}
        ELSE FormatTags[i] = t /\ t \notin IgnitionTags }

\* What field i says entry t is.
ValueOf(m, t, i) ==
    LET v == m.fields[i]
    IN  CASE t = "ignition"        -> IF FormatTags[i] = "#EID#" THEN IntIn[v] = 24
                                                                 ELSE IntIn[v] > 0
          [] t \in TimeTags        -> IF v \in DOMAIN TimeIn THEN TimeIn[v] ELSE Null
          [] t \in CoordinateTags  -> CoordinateIn[v]
          [] t \in NumberTags      -> NumberIn(t)[v]
          [] OTHER                 -> v

\* Of several fields that say what an entry is, the last one counts.
MeaningOf(m, S) ==
    [payload     |-> [t \in { e \in Entries : Says(m, S, e) # {} } |->
                        ValueOf(m, t, Max(Says(m, S, t)))],
     warned      |-> Damaged(m, S),
     unsupported |-> S \ Known(S),
     extra       |-> Len(m.fields) > Len(FormatTags)]

Meaning(m) == MeaningOf(m, Filled(m))

Meant(m) == [device |-> m.device, type |-> m.type, index |-> m.index,
             report |-> IF m.type = STARLINK_EVENT_REPORT_MESSAGE_TYPE THEN Meaning(m) ELSE Null]

----------------------------------------------------------------------------
(* Properties                                                              *)

\* Every message that fits the buffer and stands on a line of its own is
\* decoded, once its newline has arrived, into exactly what the device means,
\* whatever noise and overlong lines are around it and however TCP cuts them.
\* A field costs at most its own value and moves no other field: a number or
\* coordinate that does not convert leaves a warning, a time that is none is
\* null without one, and "1x" counts as the number 1.
EveryMessageIsDecoded ==
    ~ calling /\ resets = 0 =>
        \A i \in DOMAIN stream.parts :
            LET part == stream.parts[i]
            IN  /\ part.kind = "message"
                /\ part.to <= received
                /\ part.from = 0 \/ stream.symbols[part.from] = LF
                /\ part.to - part.from - 1 <= MaxBufferBytes
                => Meant(part.message) \in Decoded

\* "Any field we don't understand [...] degrades to a `warnings` entry"
\* (starlink-parser.service.ts), "a bad value surfaces as a decode warning like
\* every other malformed field" (starlink-codec.util.ts): no field becomes
\* null without its warning.
BadFieldWarns ==
    \A d \in { e \in Decoded : e.report # Null } :
        \A i \in DOMAIN FormatTags :
            FormatTags[i] \in DOMAIN d.report.payload /\ d.report.payload[FormatTags[i]] = Null
                => i \in d.report.warned

\* And nothing else is decoded: not from noise, not from a message that was
\* truncated, not from the rest of a line whose beginning was dropped.
OnlySentIsDecoded ==
    Decoded \subseteq
        { Meant(stream.parts[i].message) :
            i \in { k \in DOMAIN stream.parts : stream.parts[k].kind = "message" } }
=============================================================================
