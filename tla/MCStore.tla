-------------------------------- MODULE MCStore --------------------------------
(***************************************************************************)
(* Instances of Store: two message types that between them have a field of *)
(* every shape, and every command at every path that tells them apart.     *)
(***************************************************************************)
EXTENDS Store

One(kind)      == [label |-> "one",   kind |-> kind]
Array(kind)    == [label |-> "array", kind |-> kind]
OneMsg(t)      == [label |-> "one",   kind |-> "msg", of |-> t]
ArrayMsg(t)    == [label |-> "array", kind |-> "msg", of |-> t]
MapTo(kind)    == [label |-> "map",   kind |-> kind, key |-> "string"]
MapToMsg(t)    == [label |-> "map",   kind |-> "msg", of |-> t, key |-> "string"]

MCSchema ==
    [T |-> [s |-> One("string"), arr |-> Array("int"), sub |-> OneMsg("S"),
            msgs |-> ArrayMsg("S"), m |-> MapToMsg("S"), cnt |-> MapTo("int")],
     S |-> [x |-> One("int"), tags |-> Array("string")]]

Sub(x, tags) == [type |-> "S", val |-> [x |-> x, tags |-> tags]]

Whole == [type |-> "T",
          val  |-> [s |-> <<>>, arr |-> <<2>>, sub |-> <<Sub(1, <<>>)>>, msgs |-> <<>>,
                    m |-> <<>>, cnt |-> <<>>]]

MCParsed == {Whole, Sub(1, <<>>), Sub(1, << <<"c">> >>)}

MCPaths ==
    {<<"s">>, <<"arr">>, <<"arr", "0">>, <<"arr", "1">>, <<"sub">>, <<"sub", "x">>,
     <<"sub", "tags">>, <<"sub", "tags", "0">>, <<"msgs">>, <<"msgs", "0">>,
     <<"msgs", "0", "x">>, <<"m">>, <<"m", "k">>, <<"m", "k", "x">>, <<"m", "l">>,
     <<"m", "l", "tags">>, <<"cnt">>, <<"cnt", "k">>}

\* Paths that lead nowhere, some of them after having led through something.
BadPaths ==
    {<<"nosuch">>, <<"arr", "-1">>, <<"arr", "x">>, <<"s", "x">>, <<"sub", "nosuch">>,
     <<"m", "k", "nosuch">>, <<"cnt", "k", "x">>, <<"arr", "0", "x">>}

\* Where the properties look: also below a map key that a path to a field beside creates.
MCLooks == MCPaths \cup BadPaths \cup {<<"m", "k", "tags">>}

Segments == UNION {Range(p) : p \in MCPaths \cup BadPaths}

MCIndex == [i \in Segments |-> CASE i = "0" -> 0 [] i = "1" -> 1 [] i = "-1" -> -1 [] OTHER -> None]

\* The words of a value.
Tokens == {"1", "2", "S1", "T1", "bad"}

\* "1" and "2" are numbers, S1 and T1 the JSON of a message.  Anything is a string, and
\* only the segments of paths need to be told apart.
MCParse ==
    LET words == Tokens \cup Segments IN
    [int    |-> [t \in words |-> CASE t = "1" -> 1 [] t = "2" -> 2 [] OTHER -> None],
     string |-> [t \in words |-> <<IF t \in Tokens THEN "c" ELSE t>>],
     S      |-> [t \in words |-> IF t = "S1" THEN Sub(1, << <<"c">> >>) ELSE None],
     T      |-> [t \in words |-> IF t = "T1" THEN Whole ELSE None]]

Cmd(op, type, fields, args, opt, ex) ==
    [op |-> op, type |-> type, fields |-> fields, args |-> args, opt |-> opt, ex |-> ex]

MCWrites ==
    LET paths == MCPaths \cup BadPaths IN
       {Cmd("SET", "T", p, <<a>>, "NONE", FALSE) : p \in paths, a \in {"1", "S1", "T1", "bad"}}
    \cup {Cmd("SET", t, <<>>, <<a>>, o, x) :
             t \in {"T", "S"}, a \in {"T1", "S1"}, o \in {"NONE", "NX", "XX"}, x \in BOOLEAN}
    \cup {Cmd("SET", "T", <<"sub", "x">>, <<"2">>, o, TRUE) : o \in {"NX", "XX"}}
    \cup {Cmd("APPEND", "T", p, a, "NONE", FALSE) :
             p \in paths, a \in {<<"1">>, <<"S1">>, <<"2", "bad">>}}
    \cup {Cmd("MERGE", "T", p, <<a>>, "NONE", FALSE) :
             p \in paths \cup {<<>>}, a \in {"T1", "S1"}}
    \cup {Cmd(op, "T", p, <<>>, "NONE", FALSE) :
             op \in {"DEL", "CLEAR"}, p \in paths \cup {<<>>}}
    \cup {Cmd(op, "S", <<>>, <<>>, "NONE", FALSE) : op \in {"DEL", "CLEAR"}}
=============================================================================
