----------------------------- MODULE MCProtoFactory -----------------------------
(***************************************************************************)
(* Small instances of ProtoFactory for TLC: two files, and contents that   *)
(* cover what an import can meet.                                          *)
(*   "empty"   a file without definitions                                  *)
(*   "msg"     defines Msg                                                 *)
(*   "usesA"   imports file a and defines Sub                              *)
(*   "broken"  does not compile                                            *)
(*   "warned"  compiles with a warning and defines Msg                     *)
(***************************************************************************)
EXTENDS ProtoFactory

MCKind == [c \in Contents |-> CASE c = "broken" -> "bad"
                                [] c = "warned" -> "warn"
                                [] OTHER -> "good"]
MCDeps == [c \in Contents |-> IF c = "usesA" THEN {"a"} ELSE {}]
MCDefines == [c \in Contents |-> CASE c \in {"msg", "warned"} -> {"Msg"}
                                   [] c = "usesA" -> {"Sub"}
                                   [] OTHER -> {}]
=============================================================================
