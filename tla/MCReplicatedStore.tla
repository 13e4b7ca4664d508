--------------------------- MODULE MCReplicatedStore ---------------------------
(***************************************************************************)
(* A small instance of ReplicatedStore: fewer fields and commands, so that *)
(* both sides and the stream between them can be followed.                 *)
(***************************************************************************)
EXTENDS ReplicatedStore

Shape(label, kind, of) == [label |-> label, kind |-> kind, of |-> of, key |-> "string"]

MCSchema ==
    [T |-> [arr |-> Shape("array", "int", None), sub |-> Shape("one", "msg", "S"),
            m |-> Shape("map", "msg", "S")],
     S |-> [x |-> Shape("one", "int", None)]]

Sub(x) == [type |-> "S", val |-> [x |-> x]]

Whole == [type |-> "T", val |-> [arr |-> <<2>>, sub |-> <<>>, m |-> <<>>]]

MCParsed == {Whole, Sub(1)}

Tokens == {"1", "2", "S1", "T1", "k", "bad"}

MCParse ==
    [int    |-> [t \in Tokens |-> CASE t = "1" -> 1 [] t = "2" -> 2 [] OTHER -> None],
     string |-> [t \in Tokens |-> <<t>>],
     S      |-> [t \in Tokens |-> IF t = "S1" THEN Sub(1) ELSE None],
     T      |-> [t \in Tokens |-> IF t = "T1" THEN Whole ELSE None]]

MCPaths == {<<"arr">>, <<"arr", "0">>, <<"sub">>, <<"sub", "x">>, <<"m", "k">>,
            <<"m", "k", "x">>}

MCIndex == [i \in UNION {Range(p) : p \in MCPaths} |-> IF i = "0" THEN 0 ELSE None]

Cmd(op, fields, args, opt, ex) ==
    [op |-> op, type |-> "T", fields |-> fields, args |-> args, opt |-> opt, ex |-> ex]

MCWrites ==
    {Cmd("SET", p, <<a>>, "NONE", FALSE) : p \in MCPaths, a \in {"1", "S1", "bad"}}
    \cup {Cmd("SET", <<>>, <<"T1">>, o, x) : o \in {"NONE", "NX", "XX"}, x \in BOOLEAN}
    \cup {Cmd("APPEND", <<"arr">>, a, "NONE", FALSE) : a \in {<<"1">>, <<"2", "bad">>}}
    \cup {Cmd("MERGE", <<>>, <<"T1">>, "NONE", FALSE), Cmd("MERGE", <<"sub">>, <<"S1">>, "NONE", FALSE)}
    \cup {Cmd(op, p, <<>>, "NONE", FALSE) : op \in {"DEL", "CLEAR"}, p \in MCPaths \cup {<<>>}}
=============================================================================
