------------------------------ MODULE MCScalarKey ------------------------------
(***************************************************************************)
(* A small instance of ScalarKey: 32 and 64 bits are 2 and 4, a second     *)
(* has 2 milliseconds, and there are words at the ends of every range.     *)
(***************************************************************************)
EXTENDS ScalarKey

MCNumbers == [w \in Words |->
    CASE w = "0" -> 0 [] w = "1" -> 1 [] w = "2" -> 2 [] w = "3" -> 3 [] w = "4" -> 4
      [] w = "5" -> 5 [] w = "6" -> 6 [] w = "7" -> 7 [] w = "8" -> 8 [] w = "16" -> 16
      [] w = "-1" -> -1 [] w = "-2" -> -2 [] w = "-3" -> -3 [] w = "-8" -> -8
      [] w = "-9" -> -9 [] w = "-16" -> -16 [] w = "1x" -> 1
      [] OTHER -> None]

MCChars == [w \in Words |->
    CASE w = "" -> <<>>
      [] w = "/" -> <<"/">>
      [] w = "/f" -> <<"/", "f">>
      [] w = "/f/" -> <<"/", "f", "/">>
      [] w = "//f" -> <<"/", "/", "f">>
      [] w = "/g/f" -> <<"/", "g", "/", "f">>
      [] w = "/gf//f" -> <<"/", "g", "f", "/", "/", "f">>
      [] OTHER -> <<"x">>]

MCName == [w \in Words |->
    CASE w = "--ex" -> "--EX" [] w = "--nx" -> "--NX" [] w = "json" -> "JSON"
      [] OTHER -> w]

Paths  == {"", "/", "/f", "/f/", "//f", "/g/f", "/gf//f", "f"}
Values == {"0", "1", "3", "4", "7", "8", "16", "-1", "-2", "-3", "-8", "-9", "-16", "1x", "true", "x"}
Conds  == {<<>>, <<"--nx">>, <<"--XX">>}
Times  == {<<>>, <<"--ex", "1">>, <<"--PX", "1">>}

\* Options in every order, missing, twice, and out of range.
OptionLists ==
    {c \o e : c \in Conds, e \in Times} \cup {e \o c : c \in Conds, e \in Times}
    \cup {<<"--nx", "--XX">>, <<"--ex", "1", "--PX", "1">>, <<"--ex", "8", "--PX", "1">>,
          <<"--ex", "0">>, <<"--ex", "-1">>, <<"--ex", "4">>, <<"--ex", "16">>,
          <<"--PX", "7">>, <<"--PX", "1x">>}

Command(name, opts, rest) == <<name, <<name, "k">> \o opts \o rest>>

MCLists ==
    {Command("PB.SET", o, r) : o \in OptionLists, r \in {<<"T", "/f", "1">>, <<"T", "{}">>}}
    \cup {Command("PB.SET", o, r) : o \in {<<>>, <<"--XX", "--ex", "1">>, <<"--nx", "--PX">>},
             r \in {<<>>, <<"T">>, <<"T", "--nx">>, <<"T", "/f", "1", "1">>}}
    \cup {Command("PB.SET", <<>>, <<"T", "/f", v>>) : v \in Values}
    \cup {Command("PB.SET", <<>>, <<"T", p, "1">>) : p \in Paths}
    \cup {Command("PB.SET", <<>>, <<"U", "{}">>)}
    \cup {Command("PB.GET", o, <<"T", "/f">>) :
             o \in {<<>>, <<"--FORMAT", "json">>, <<"--FORMAT", "x">>}}
    \cup {Command("PB.GET", o, r) : o \in {<<>>, <<"--FORMAT", "json">>, <<"--FORMAT">>},
             r \in {<<>>, <<"T">>, <<"U">>}}

MCLoadLists ==
    {<<>>, <<"--DIR">>, <<"--DIR", "x">>, <<"--DIR", "", "--DIR", "x">>,
     <<"--DIR", "x", "--DIR", "x">>, <<"x">>}
=============================================================================
