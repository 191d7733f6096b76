-------------------------- MODULE ParameterOptions --------------------------
(***************************************************************************)
(* The options of one parameter on their way to a client: Value::write puts*)
(* them on the stream in a fixed order, each with its code, and the parser *)
(* takes them off one by one until it meets a terminator or the end.       *)
(*                                                                         *)
(* Nothing on the stream says how long an option is, so a reader that takes*)
(* one wrongly goes on at the wrong byte.                                  *)
(***************************************************************************)
EXTENDS ByteStrings, SequencesExt

CONSTANT Packets  \* what can be written

Terminator == 0
Order == <<"value", "label", "description", "tags", "order", "parent",
           "userdata", "userid", "readonly">>
Options == {Order[i] : i \in 1..Len(Order)}
Code == [value |-> 32, label |-> 33, description |-> 34, tags |-> 35, order |-> 36,
         parent |-> 37, widget |-> 38, userdata |-> 39, userid |-> 40, readonly |-> 41]

IsInt16(n) == n \in Int /\ -32768 <= n /\ n <= 32767
IsInt32(n) == n \in Int /\ IsInt16(n \div 65536)

\* Codes and texts, the one of hasLabel first.  Codes are cut to three letters,
\* and of a shorter one nothing is written.
Letter == Byte \ {0}
LanguageLists == Seq([1..3 -> Letter] \X Seq(Byte))

\* Two codes that are cut to the same would be one at the client.
DifferentCodes(list) == \A i, j \in 1..Len(list) : list[i][1] = list[j][1] => i = j

\* What o can be set to.
IsField(o, v, kind) ==
    CASE o = "value" /\ kind = "number"  -> IsInt32(v)
      [] o = "value" /\ kind # "number"  -> v \in Seq(Byte) /\ IsInt32(Len(v))
      [] o \in {"label", "description"}  -> v \in LanguageLists /\ DifferentCodes(v)
      [] o \in {"tags", "userid"}        -> v \in Seq(Byte)
      [] o = "userdata"                  -> v \in Seq(Byte) \ {<<>>}
      [] o = "order"                     -> IsInt32(v)
      [] o = "parent"                    -> IsInt16(v) /\ v # 0
      [] o = "readonly"                  -> v \in {<<0>>, <<1>>}

\* The options that are set and those that changed, for a type of the value,
\* which is never cleared.
ASSUME PacketsTyped ==
    \A p \in Packets :
        /\ p.kind \in {"number", "string", "enum"}
        /\ DOMAIN p.fields \subseteq Options
        /\ \A o \in DOMAIN p.fields : IsField(o, p.fields[o], p.kind)
        /\ p.changed \subseteq Options /\ p.all \in BOOLEAN
        /\ "value" \in p.changed => "value" \in DOMAIN p.fields

VARIABLES
    packet,  \* what is written
    stream,  \* what is still to be read
    mode,    \* where the parser is
    got      \* the options it has set in its parameter

vars == <<packet, stream, mode, got>>

NoOptions == [o \in {} |-> <<>>]

-----------------------------------------------------------------------------
(* The writer *)

\* writeLabel, writeDescription
Languages(list, short) ==
    FlattenSeq([i \in 1..Len(list) |-> list[i][1] \o
        IF short THEN ShortString(list[i][2]) ELSE TinyString(list[i][2])]) \o <<Terminator>>

\* The body of an option that is set; user data and the flag as they are.
Body(o, v, kind) ==
    CASE o = "value" /\ kind = "number" -> Int32(v)
      [] o = "value" /\ kind # "number" -> LongString(v)
      [] o = "label"                    -> Languages(v, FALSE)
      [] o = "description"              -> Languages(v, TRUE)
      [] o \in {"tags", "userid"}       -> TinyString(v)
      [] o = "order"                    -> Int32(v)
      [] o = "parent"                   -> Int16(v)
      [] OTHER                          -> v

\* The body of one that was cleared.
Cleared(o) ==
    CASE o \in {"order", "userdata"} -> Int32(0)
      [] o = "parent"                -> Int16(0)
      [] OTHER                       -> <<0>>

Option(p, o) ==
    CASE o \in DOMAIN p.fields /\ (p.all \/ o \in p.changed) ->
             <<Code[o]>> \o Body(o, p.fields[o], p.kind)
      [] o \notin DOMAIN p.fields /\ o \in p.changed ->
             <<Code[o]>> \o Cleared(o)
      [] OTHER -> <<>>

Written(p) == FlattenSeq([i \in 1..Len(Order) |-> Option(p, Order[i])]) \o <<Terminator>>

-----------------------------------------------------------------------------
(* The parser *)

Ends == {"done", "thrown"}

Init ==
    /\ packet \in Packets
    /\ stream = <<>>
    /\ mode = "unsent" /\ got = NoOptions

Write ==
    /\ mode = "unsent"
    /\ mode' = "options" /\ stream' = Written(packet)
    /\ UNCHANGED <<packet, got>>

\* The next code; the end of the stream ends the options too.
Prefix == IF stream = <<>> THEN Terminator ELSE Head(stream)

Found(o) == mode = "options" /\ Prefix = Code[o]

Keep(o, v) == got' = [x \in DOMAIN got \cup {o} |-> IF x = o THEN v ELSE got[x]]
Stop(how) == mode' = how /\ stream' = <<>>

Fail(r) ==
    /\ r.how # "text"
    /\ Stop(IF r.how = "eof" THEN "done" ELSE "thrown")
    /\ UNCHANGED got

\* One of the outcomes of reading o.
Take(o, outcomes) ==
    \E r \in outcomes :
        \/ r.how = "text" /\ Keep(o, r.text) /\ stream' = r.rest /\ mode' = "options"
        \/ Fail(r)

\* mutant: an id is not converted back to a negative one
Number_Unsigned(b) ==
    CASE Len(b) = 4 -> Signed32(b) [] Len(b) = 2 -> Unsigned16(b) [] OTHER -> b

\* A number on the stream is signed; a flag stays a byte.
Number(b) ==
    CASE Len(b) = 4 -> Signed32(b) [] Len(b) = 2 -> Signed16(b) [] OTHER -> b

\* readFromStream
Fixed(width, bytes) ==
    IF Len(bytes) < width THEN {Eof}
    ELSE {Text(Number(SubSeq(bytes, 1, width)), From(bytes, width + 1))}

\* mutant: the end of the stream is not noticed
ParseEnd_Unnoticed ==
    /\ mode = "options"
    /\ stream # <<>> /\ Prefix = Terminator
    /\ Stop("done")
    /\ UNCHANGED <<packet, got>>

ParseEnd ==
    /\ mode = "options"
    /\ Prefix = Terminator
    /\ Stop("done")
    /\ UNCHANGED <<packet, got>>

\* handleOption.  The entry of an enum is read as a short string.
ParseValue ==
    /\ Found("value")
    /\ Take("value", CASE packet.kind = "number" -> Fixed(4, Tail(stream))
                       [] packet.kind = "string" -> ReadLongString(Tail(stream))
                       [] packet.kind = "enum"   -> ReadTinyString(Tail(stream)))
    /\ UNCHANGED packet

ParseLanguages ==
    \E o \in {"label", "description"} :
        /\ Found(o)
        /\ mode' = o /\ stream' = Tail(stream)
        /\ UNCHANGED <<packet, got>>

\* One turn of the loop over the languages.
ReadLanguage ==
    /\ mode \in {"label", "description"}
    /\ LET text == From(stream, 4)
           Read == IF mode = "label" THEN ReadTinyString(text) ELSE ReadShortString(text)
           peek == IF stream = <<>> THEN -1 ELSE Head(stream)
           list == IF mode \in DOMAIN got THEN got[mode] ELSE <<>>
       IN  CASE peek = 0 ->
                    mode' = "options" /\ stream' = Tail(stream) /\ UNCHANGED got
             [] peek # 0 /\ Len(stream) < 3 ->
                    Stop("done") /\ UNCHANGED got
             [] OTHER ->
                    \E r \in Read :
                        \/ /\ r.how = "text"
                           /\ Keep(mode, Append(list, <<SubSeq(stream, 1, 3), r.text>>))
                           /\ stream' = r.rest /\ UNCHANGED mode
                        \/ Fail(r)
    /\ UNCHANGED packet

ParseText ==
    \E o \in {"tags", "userid"} :
        /\ Found(o)
        /\ Take(o, ReadTinyString(Tail(stream)))
        /\ UNCHANGED packet

ParseFixed ==
    /\ \/ Found("order") /\ Take("order", Fixed(4, Tail(stream)))
       \/ Found("readonly") /\ Take("readonly", Fixed(1, Tail(stream)))
    /\ UNCHANGED packet

\* The id 0 is ignored.
ParseParent ==
    /\ Found("parent")
    /\ \E r \in Fixed(2, Tail(stream)) :
           IF r.how = "text" /\ r.text = 0
           THEN stream' = r.rest /\ UNCHANGED <<mode, got>>
           ELSE Take("parent", {r})
    /\ UNCHANGED packet

\* At the end of the stream the data are what there was of them, and zeros.
ParseUserdata ==
    /\ Found("userdata")
    /\ \E r \in Sized(4, Tail(stream), Signed32(Tail(stream))) :
           IF r.how = "eof"
           THEN Keep("userdata", From(stream, 6)) /\ Stop("done")
           ELSE Take("userdata", {r})
    /\ UNCHANGED packet

\* Of a widget only the code is read.
SkipWidget ==
    /\ Found("widget")
    /\ stream' = Tail(stream)
    /\ UNCHANGED <<packet, mode, got>>

ParseUnknown ==
    /\ mode = "options"
    /\ Prefix \notin {Code[o] : o \in DOMAIN Code} \cup {Terminator}
    /\ Stop("done")
    /\ UNCHANGED <<packet, got>>

Parse ==
    \/ ParseEnd \/ ParseValue \/ ParseLanguages \/ ReadLanguage \/ ParseText \/ ParseFixed
    \/ ParseParent \/ ParseUserdata \/ SkipWidget \/ ParseUnknown

Next == Write \/ Parse

\* Both sides are loops of one thread.
Spec == Init /\ [][Next]_vars /\ WF_vars(Next)

-----------------------------------------------------------------------------
(* Properties *)

\* The stream holds bytes, and the parser sets nothing but options.
TypeOK ==
    /\ mode \in {"unsent", "options", "label", "description"} \cup Ends
    /\ \A i \in 1..Len(stream) : stream[i] \in Byte
    /\ DOMAIN got \subseteq Options

\* What the two sides agree about: short strings below 128 bytes and long ones
\* below 65535, no entry of an enum, and user data only to clear them.
Fits(o) ==
    LET Below(limit) == \A i \in 1..Len(packet.fields[o]) : Len(packet.fields[o][i][2]) < limit
    IN  o \in DOMAIN packet.fields =>
            CASE o = "value"             -> packet.kind # "enum"
              [] o = "label"             -> Below(128)
              [] o = "description"       -> Below(65535)
              [] o \in {"tags", "userid"} -> Len(packet.fields[o]) < 128
              [] o = "userdata"          -> FALSE
              [] OTHER                   -> TRUE

\* What the parser should set o to.  For an empty list of languages and a
\* cleared parent that is nothing: the client keeps the old one.
Meant(o) ==
    LET Lists == {"label", "description"}
    IN  CASE Option(packet, o) = <<>> -> {}
          [] Option(packet, o) # <<>> /\ o \in DOMAIN packet.fields ->
                 IF o \in Lists /\ packet.fields[o] = <<>> THEN {} ELSE {packet.fields[o]}
          [] Option(packet, o) # <<>> /\ o \notin DOMAIN packet.fields ->
                 CASE o \in {"tags", "userid", "userdata"} -> {<<>>}
                   [] o = "order"                        -> {0}
                   [] o = "readonly"                     -> {<<0>>}
                   [] o \in Lists \cup {"parent"}        -> {}

\* If all options fit, the parser stays in step with the writer: it ends, for
\* whatever options are set, cleared and changed, with each one that was sent
\* and with no other.
OptionsArrive ==
    (\A o \in Options : Option(packet, o) # <<>> => Fits(o)) =>
        /\ mode # "thrown"
        /\ mode = "done" =>
               \A o \in Options : Meant(o) = IF o \in DOMAIN got THEN {got[o]} ELSE {}

\* However far it gets out of step, the parser ends.
ParserEnds == <>(mode \in Ends)
=============================================================================
