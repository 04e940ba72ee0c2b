--------------------------- MODULE StarlinkLines ---------------------------
(***************************************************************************)
(* What a StarLink device writes, said without the parser's conversions    *)
(* and loops: which symbols are a message, and what else may be in its     *)
(* stream.  The theorems about StarlinkInput hold for every set of such    *)
(* streams; MCStarlinkInput evaluates the definitions on its own.          *)
(***************************************************************************)
EXTENDS StarlinkInput

\* SLU<id>,<type>,<index>,<data>*<checksum>
IsFrame(text) ==
    /\ Len(text) > 7
    /\ text[1] \in DOMAIN DeviceOf
    /\ text[2] = Comma /\ text[4] = Comma /\ text[6] = Comma
    /\ text[3] \in Digits /\ text[5] \in Digits
    /\ text[Len(text)] = Checksum
    /\ \A i \in DOMAIN text : text[i] \notin {CR, LF}

\* The place of the comma after field k: an empty field takes no symbol.
CommaAt(fields, k) == k + Cardinality({ j \in 1..k : fields[j] # "" })

\* The data are the fields with a comma between one and the next.
Lists(data, fields) ==
    /\ fields \in Seq(Symbols \cup {""}) /\ fields # << >>
    /\ Len(data) = CommaAt(fields, Len(fields)) - 1
    /\ \A k \in 1..(Len(fields) - 1) : data[CommaAt(fields, k)] = Comma
    /\ \A k \in 1..Len(fields) :
          fields[k] # "" => fields[k] # Comma /\ data[CommaAt(fields, k) - 1] = fields[k]

IsMessage(text, m) ==
    /\ IsFrame(text)
    /\ DeviceOf[text[1]] = m.device
    /\ IntIn[text[3]] = m.type
    /\ IntIn[text[5]] = m.index
    /\ m.type = STARLINK_EVENT_REPORT_MESSAGE_TYPE
          => Lists(SubSeq(text, 7, Len(text) - 1), m.fields)

\* Nothing but "\r" up to the newline at p.
EndsAt(symbols, b, p) ==
    /\ symbols[p] = LF
    /\ \A i \in (b + 1)..(p - 1) : symbols[i] = CR

\* The message of a part is in the symbols a + 1 .. b, after a head byte or
\* none, and ends its line.
StandsAt(symbols, part, a, b) ==
    /\ part.kind = "message"
    /\ part.from \in 0..a /\ a < b /\ part.to \in (b + 1)..Len(symbols)
    /\ \/ a = part.from
       \/ a = part.from + 1 /\ symbols[a] \in Heads \cup {Comma}
    /\ IsMessage(SubSeq(symbols, a + 1, b), part.message)
    /\ EndsAt(symbols, b, part.to)

\* Every message is there, and whatever else the stream holds, nothing in it
\* that ends a line passes for one.
FromDevice(s) ==
    LET places == 0..Len(s.symbols)
    IN  /\ \A i \in DOMAIN s.parts : s.parts[i].kind = "message" =>
              \E a, b \in places : StandsAt(s.symbols, s.parts[i], a, b)
        /\ \A a, b, p \in places :
              a < b /\ b < p /\ EndsAt(s.symbols, b, p) /\ IsFrame(SubSeq(s.symbols, a + 1, b))
                => \E i \in DOMAIN s.parts : StandsAt(s.symbols, s.parts[i], a, b)

DeviceWrites == \A s \in Streams : FromDevice(s)
=============================================================================
