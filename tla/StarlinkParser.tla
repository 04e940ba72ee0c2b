--------------------------- MODULE StarlinkParser ---------------------------
(***************************************************************************)
(* StarlinkParserService (src/starlink/parser/starlink-parser.service.ts): *)
(* what parseFrame() makes of one line of the "SLU" protocol,              *)
(*     [<head>]SLU<id>,<type>,<index>,<data>*<checksum>                    *)
(* with the data zone a list of fields whose meaning is given by their     *)
(* position in the configured list of tags.                                *)
(*                                                                         *)
(* A line is a sequence of symbols: Comma, and texts without a comma.      *)
(* "SLU<id>" and "*<checksum>" are one symbol each.  What parseInt and the *)
(* other conversions make of a text is given by partial functions.         *)
(***************************************************************************)
EXTENDS Integers, Sequences, FiniteSets, FiniteSetsExt

CONSTANTS
    Comma,         \* the symbol ","
    Return,        \* the symbol '\r': blank, and no "." of a pattern
    Heads,         \* texts of one character
    Checksum,      \* "*" and two hexadecimal digits
    DeviceOf,      \* DeviceOf[t]: the device of the text t, if t is "SLU<id>"
    IntIn,         \* IntIn[t]: the integer the text t begins with, if any
    FloatIn,       \* FloatIn[t]: the number the text t begins with, if any
    Digits,        \* the texts that are numbers of digits only
    TimeIn,        \* TimeIn[t]: the time t is, if t is 12 digits
    CoordinateIn,  \* CoordinateIn[t]: the coordinate t is, if it is one
    Null,          \* JavaScript's null
    FormatTags     \* the tags of the event report's fields, in their order

\* "SLU<id>", "*<checksum>", a comma, '\r' and a head byte are different texts,
\* and \d+ is a text that begins with an integer.
ASSUME TextsAssumption ==
    /\ DOMAIN DeviceOf \cap (Heads \cup {Comma, Return}) = {}
    /\ Checksum \notin {Comma, Return} /\ Return \notin Heads \cup {Comma}
    /\ Digits \subseteq DOMAIN IntIn
ASSUME FormatTagsAssumption == FormatTags \in Seq(STRING)

STARLINK_EVENT_REPORT_MESSAGE_TYPE == 6

TimeTags       == {"#EDT#", "#PDT#"}
CoordinateTags == {"#LAT#", "#LONG#"}
IgnitionTags   == {"#IGN#", "#ENG#"}
FloatTags      == {"#SPD#", "#ODO#", "#VIN#", "#VBAT#"}
IntTags        ==
    {"#EID#", "#HEAD#", "#LAC#", "#CID#"}
        \cup {"#IN1#", "#IN2#", "#IN3#", "#IN4#", "#OUT1#", "#OUT2#", "#OUT3#", "#OUT4#"}
        \cup IgnitionTags
NumberTags     == IntTags \cup FloatTags
SupportedTags  == TimeTags \cup CoordinateTags \cup NumberTags \cup {"#DEST#"}

----------------------------------------------------------------------------
(* applyTag()                                                              *)

\* parseStrictFloat() reads a text like ".5", parseStrictInt() does not.
NumberIn(tag) == IF tag \in FloatTags THEN FloatIn ELSE IntIn

\* parseStrictInt(), parseStrictFloat() and parseStarlinkCoordinate() do not
\* throw on v.  parseStarlinkDateTime() never throws.
Converts(tag, v) ==
    /\ tag \in NumberTags     => v \in DOMAIN NumberIn(tag)
    /\ tag \in CoordinateTags => v \in DOMAIN CoordinateIn

Entry(e, x) == [t \in {e} |-> x]

\* Entries are assigned to a payload.
Assign(new, payload) ==
    [t \in DOMAIN new \cup DOMAIN payload |-> IF t \in DOMAIN new THEN new[t] ELSE payload[t]]

\* What the field sets in the payload, by tag, and ignition.
Assignment(tag, v) ==
    CASE tag \in TimeTags       -> Entry(tag, IF v \in DOMAIN TimeIn THEN TimeIn[v] ELSE Null)
      [] tag \in CoordinateTags -> Entry(tag, CoordinateIn[v])
      [] tag \in IgnitionTags   -> Entry("ignition", IntIn[v] > 0)
      [] tag \in NumberTags \ IgnitionTags ->
            IF tag = "#EID#" /\ IntIn[v] \in {24, 25}
            THEN Assign(Entry("ignition", IntIn[v] = 24), Entry(tag, IntIn[v]))
            ELSE Entry(tag, NumberIn(tag)[v])
      [] OTHER                  -> Entry(tag, v)

\* Mutant: a field that does not convert ends the loop with an exception, so
\* the fields after it are not read.
ApplyTagOrStop(i, v, report) ==
    IF FormatTags[i] \notin SupportedTags
    THEN [report EXCEPT !.unsupported = @ \cup {i}]
    ELSE IF report.warned = {} /\ Converts(FormatTags[i], v)
         THEN [report EXCEPT !.payload = Assign(Assignment(FormatTags[i], v), @)]
         ELSE [report EXCEPT !.warned = @ \cup {i}]

\* Field i, with the try around it: an error is a warning.
ApplyTag(i, v, report) ==
    IF FormatTags[i] \notin SupportedTags
    THEN [report EXCEPT !.unsupported = @ \cup {i}]
    ELSE IF Converts(FormatTags[i], v)
         THEN [report EXCEPT !.payload = Assign(Assignment(FormatTags[i], v), @)]
         ELSE [report EXCEPT !.warned = @ \cup {i}]

----------------------------------------------------------------------------
(* parseEventReport()                                                      *)

\* Mutant: empty fields are dropped, so the fields after them move up.
SplitDroppingEmpty(data) == SelectSeq(data, LAMBDA x : x # Comma)

Commas(data) == { i \in DOMAIN data : data[i] = Comma }

\* data.split(","): field k is the text after k - 1 commas, if there is one.
Split(data) ==
    [k \in 1..(Cardinality(Commas(data)) + 1) |->
        LET own == { i \in DOMAIN data \ Commas(data) :
                       Cardinality({ c \in Commas(data) : c < i }) = k - 1 }
        IN  IF own = {} THEN "" ELSE data[Max(own)]]

\* A report is its payload, the fields that left a warning, those with a tag
\* the parser does not know, and whether there were too many fields.
EmptyReport == [payload |-> [t \in {} |-> Null], warned |-> {}, unsupported |-> {}, extra |-> FALSE]

\* One turn of the loop over the fields.
ReadField(i, v, report) == IF v = "" THEN report ELSE ApplyTag(i, v, report)

\* read[i] is the report after i turns.
ParseEventReport(data) ==
    LET fields == Split(data)
        count  == IF Len(fields) < Len(FormatTags) THEN Len(fields) ELSE Len(FormatTags)
        read[i \in 0..count] ==
            IF i = 0 THEN [EmptyReport EXCEPT !.extra = Len(fields) > Len(FormatTags)]
                     ELSE ReadField(i, fields[i], read[i - 1])
    IN  read[count]

----------------------------------------------------------------------------
(* parseFrame()                                                            *)

\* line.trim()
Trim(line) ==
    LET kept == { i \in DOMAIN line : line[i] # Return }
    IN  IF kept = {} THEN << >> ELSE SubSeq(line, Min(kept), Max(kept))

\* The rest of a line after the optional head byte.
Headless(line) ==
    IF line # << >> /\ Head(line) \in Heads \cup {Comma} THEN Tail(line) ELSE line

\* Mutant: the pattern is not anchored at the end of the line.
MatchesUnanchored(line) ==
    LET rest == Headless(Trim(line))
    IN  /\ Len(rest) > 6
        /\ rest[1] \in DOMAIN DeviceOf
        /\ rest[2] = Comma /\ rest[3] \in Digits
        /\ rest[4] = Comma /\ rest[5] \in Digits
        /\ rest[6] = Comma

\* FRAME_PATTERN: the data zone has at least one character, and no "." of the
\* pattern stands for a line terminator.
Matches(line) ==
    LET rest == Headless(Trim(line))
    IN  /\ Len(rest) > 7
        /\ rest[1] \in DOMAIN DeviceOf
        /\ rest[2] = Comma /\ rest[3] \in Digits
        /\ rest[4] = Comma /\ rest[5] \in Digits
        /\ rest[6] = Comma
        /\ rest[Len(rest)] = Checksum
        /\ \A i \in DOMAIN rest : rest[i] # Return

\* What parseFrame() returns for a line that matches; it throws for others.
ParseFrame(line) ==
    LET rest == Headless(Trim(line))
    IN  [device |-> DeviceOf[rest[1]],
         type   |-> IntIn[rest[3]],
         index  |-> IntIn[rest[5]],
         report |-> IF IntIn[rest[3]] = STARLINK_EVENT_REPORT_MESSAGE_TYPE
                    THEN ParseEventReport(SubSeq(rest, 7, Len(rest) - 1))
                    ELSE Null]
=============================================================================
