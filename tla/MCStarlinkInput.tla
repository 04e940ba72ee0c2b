-------------------------- MODULE MCStarlinkInput --------------------------
(***************************************************************************)
(* An instance of StarlinkInput for TLC: every combination of good, empty, *)
(* damaged and unknown fields in a message of its own, and messages among  *)
(* blank lines, noise, truncated and overlong lines.                       *)
(***************************************************************************)
EXTENDS StarlinkLines, SequencesExt

MCFormatTags == <<"#EDT#", "#EID#", "#LAT#", "#IGN#", "#XXX#", "#DEST#", "#SPD#">>

MCDeviceOf     == "SLU1" :> "d1" @@ "SLU2" :> "d2"
MCIntIn        == "0" :> 0 @@ "1" :> 1 @@ "5" :> 5 @@ "6" :> 6 @@ "24" :> 24 @@ "25" :> 25
                     @@ "1x" :> 1
MCFloatIn      == MCIntIn @@ ".5" :> 500
MCTimeIn       == "time" :> "t"
MCCoordinateIn == "coordinate" :> "c"
MCDigits       == {"0", "1", "5", "6", "24", "25"}
MCHeads        == {"$"}

MCSymbols ==
    {"LF", "CR", ",", "*", "$", "bad", "noise", "u", "place"}
        \cup DOMAIN MCDeviceOf \cup DOMAIN MCFloatIn
        \cup DOMAIN MCTimeIn \cup DOMAIN MCCoordinateIn

----------------------------------------------------------------------------
Message(d, t, i, fields) == [device |-> d, type |-> t, index |-> i, fields |-> fields]

TextOf(f, v) == CHOOSE t \in DOMAIN f \cap (MCDigits \cup DOMAIN MCDeviceOf) : f[t] = v

\* The data zone with its commas.
DataOf(fields) ==
    FlattenSeq([i \in DOMAIN fields |->
        (IF i = 1 THEN << >> ELSE <<",">>) \o (IF fields[i] = "" THEN << >> ELSE <<fields[i]>>)])

LineOf(m) ==
    <<TextOf(MCDeviceOf, m.device), ",", TextOf(MCIntIn, m.type), ",",
      TextOf(MCIntIn, m.index), ",">> \o DataOf(m.fields) \o <<"*">>

\* What the device sends: lines, each a message or noise with its text.
Sending(m, before, end) == [message |-> m, text |-> before \o LineOf(m) \o end, kind |-> "message"]
Noise(text)          == [text |-> text, kind |-> "noise"]

Symbolise(said) == FlattenSeq([i \in DOMAIN said |-> said[i].text])

\* Where part i begins and ends.
Place(said, i) ==
    LET to   == Len(Symbolise(SubSeq(said, 1, i)))
        from == to - Len(said[i].text)
    IN  IF said[i].kind = "noise" THEN [kind |-> "noise", from |-> from, to |-> to]
        ELSE [kind |-> "message", from |-> from, to |-> to, message |-> said[i].message]

StreamOf(said) ==
    [symbols |-> Symbolise(said),
     parts   |-> IF Len(said) = 1 THEN <<Place(said, 1)>>
                 ELSE <<Place(said, 1), Place(said, 2), Place(said, 3)>>]

----------------------------------------------------------------------------
\* One message with every combination of fields.
EachField ==
    { <<Sending(Message("d1", 6, 1, <<edt, eid, lat, ign, "u", "", spd>>), << >>, <<"LF">>)>> :
        edt \in {"", "time", "bad"}, eid \in {"", "24", "25", ".5"},
        lat \in {"", "coordinate", "bad"}, ign \in {"", "0", "1x", "bad"},
        spd \in {".5", "bad"} }

Good    == Sending(Message("d1", 6, 1, <<"time", "24", "", "0">>), << >>, <<"LF">>)
Other   == Sending(Message("d2", 6, 0, <<"", "", "coordinate", "", "", "place">>),
                <<"$">>, <<"CR", "LF">>)
Damage  == Sending(Message("d2", 6, 24, <<"bad", "bad", "bad", "", "", "place", "1", "u">>),
                << >>, <<"CR", "CR", "LF">>)
Ack     == Sending(Message("d1", 5, 1, <<"u">>), << >>, <<"LF">>)
TooLong == Sending(Message("d1", 6, 5, [i \in 1..12 |-> "1"]), << >>, <<"LF">>)

Blank     == Noise(<<"CR", "LF">>)
Truncated == Noise(<<"SLU2", ",", "6", ",", "1", ",", "time", ",", "24", ",", "LF">>)
Suffix(n) == Noise(SubSeq(Other.text, n, Len(Other.text)))
Garbage   == Noise(<<"noise", "CR", "noise", "LF">>)
Split2    == Noise(<<"SLU1", ",", "6", ",", "1", ",", "CR", "1", "*", "LF">>)
NoData    == Noise(<<"SLU1", ",", "6", ",", "1", ",", "*", "LF">>)
Flood     == Noise([i \in 1..24 |-> "noise"])

\* Two or three lines, the second after what may disturb it.
Lines ==
    { <<p, q, r>> : p \in {Damage, TooLong, Truncated, Flood}, q \in {Good, NoData},
                    r \in {Other, Suffix(3), Split2} }
    \cup { <<p, q, r>> : p \in {Blank, Garbage}, q \in {Ack, Other}, r \in {Damage} }

MCStreams == { StreamOf(said) : said \in EachField \cup Lines }

\* The streams are streams a device can send.
ASSUME StreamsAreWritten == DeviceWrites
=============================================================================
