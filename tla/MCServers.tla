------------------------------- MODULE MCServers -------------------------------
(***************************************************************************)
(* A small instance of Servers: two files, two definitions of type M, and  *)
(* a file that imports a and defines N.                                    *)
(***************************************************************************)
EXTENDS Servers

MCOffers == {<<"a", "m1">>, <<"a", "m2">>, <<"b", "usesA">>}

MCKind    == [c \in Contents |-> "good"]
MCDeps    == [c \in Contents |-> IF c = "usesA" THEN {"a"} ELSE {}]
MCDefines == [c \in Contents |-> CASE c \in {"m1", "m2"} -> {"M"}
                                   [] c = "usesA" -> {"N"}
                                   [] OTHER -> {}]
=============================================================================
