------------------------- MODULE MCParameterOptions -------------------------
EXTENDS ParameterOptions

Str(n) == [i \in 1..n |-> 97]
Anyone == <<97, 110, 121>>
German == <<100, 101, 117>>

\* The values of each option that are at a limit, or look like other options.
Samples ==
    [value |-> {-1, 70000},
     label |-> {<<<<Anyone, Str(n)>>>> : n \in {0, 5, 127, 128, 254, 255, 256}}
               \cup {<<<<Anyone, Str(2)>>, <<German, Str(n)>>>> : n \in {127, 255}} \cup {<<>>},
     description |-> {<<<<Anyone, Str(n)>>>> : n \in {0, 255, 256}}
                     \cup {<<<<German, Str(127)>>, <<Anyone, Str(128)>>>>},
     tags |-> {Str(n) : n \in {0, 127, 128, 255}},
     order |-> {0, -2, 300},
     parent |-> {1, 256, -2, -32768},
     userdata |-> {<<1>>, <<0, 0, 0, 1, 35>>, <<0, 0, 0, 0, 38, 35, 2, 97>>, <<200, 0, 0, 0>>},
     userid |-> {Str(n) : n \in {1, 127, 200}},
     readonly |-> {<<0>>, <<1>>}]

\* Two options are set, or one of them is cleared, in front of and behind the
\* others.
Two(a, b) ==
    {[x \in {a, b} |-> IF x = a THEN v ELSE w] : v \in Samples[a], w \in Samples[b]}

Pairs == {pair \in Options \X Options : pair[1] # pair[2]}

MCPackets ==
    UNION {{[kind |-> "number", fields |-> f, changed |-> {p[1]}, all |-> TRUE] : f \in Two(p[1], p[2])}
               : p \in Pairs}
    \cup
    UNION {{[kind |-> "number", fields |-> (p[1] :> v), changed |-> {p[1], p[2]}, all |-> all]
               : v \in Samples[p[1]], all \in BOOLEAN} : p \in {q \in Pairs : q[2] # "value"}}
    \cup
    {[kind |-> k, fields |-> ("value" :> Str(n) @@ "tags" :> Str(3)), changed |-> {}, all |-> TRUE]
        : k \in {"string", "enum"}, n \in {0, 3, 300}}
    \cup
    {[kind |-> "number", fields |-> ("description" :> <<<<Anyone, Str(n)>>>> @@ "tags" :> Str(3)),
      changed |-> {}, all |-> TRUE] : n \in {65534, 65535}}
=============================================================================
