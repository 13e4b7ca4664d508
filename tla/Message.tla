-------------------------------- MODULE Message --------------------------------
(***************************************************************************)
(* The values the module stores: protobuf messages made from descriptors   *)
(* at run time (proto_factory.cpp, create) and used through reflection     *)
(* (field_ref.h).                                                          *)
(*                                                                         *)
(* A message is [type, val], val giving each field of its type             *)
(*   - a singular int: a number; a string: the sequence of its pieces;     *)
(*   - a singular message: <<>> while absent, <<m>> once present;          *)
(*   - an array: the sequence of its elements;                             *)
(*   - a map: a function on the keys that are present.                     *)
(*                                                                         *)
(* The text a client sends is a token.  Parse says what it converts to and *)
(* None that it does not.  Tokens are no serialized map entries, and the   *)
(* int kind stands for every numeric kind, bool and enum.                  *)
(***************************************************************************)
EXTENDS Integers, SequencesExt

CONSTANTS
    None,      \* the absence of a value, an error or a key
    Schema,    \* type -> field -> [label, kind, of, key]: of is the type of a message
               \* field, key the kind of a map's keys
    Parse,     \* kind or message type -> token -> value, or None
    Index,     \* path segment -> what std::stoi makes of it, or None
    Parsed     \* the messages that tokens convert to, and the messages inside them

ASSUME SchemaAssumption ==
    \A t \in DOMAIN Schema : \A f \in DOMAIN Schema[t] :
        LET fd == Schema[t][f] IN
        /\ fd.label \in {"one", "array", "map"}
        /\ fd.kind \in {"int", "string", "msg"}
        /\ fd.kind = "msg" => fd.of \in DOMAIN Schema
        /\ fd.label = "map" => fd.key \in {"int", "string"}

\* MergeFrom goes two levels deep: a message inside a message has no singular message.
ASSUME DepthAssumption ==
    \A t \in DOMAIN Schema : \A f \in DOMAIN Schema[t] :
        Schema[t][f].kind = "msg" =>
            LET sub == Schema[Schema[t][f].of] IN
            \A g \in DOMAIN sub : ~(sub[g].label = "one" /\ sub[g].kind = "msg")

Types == DOMAIN Schema

\* The text a client can send for a value: anything at all is a string.
Words == DOMAIN Parse["string"]

(***************************************************************************)
(* Closed(S): the messages of S are made as their descriptors say, of      *)
(* numbers, strings and messages of S.                                     *)
(***************************************************************************)
Elements(S, fd) ==
    CASE fd.kind = "int" -> Int
      [] fd.kind = "string" -> Seq(STRING)
      [] fd.kind = "msg" -> {m \in S : m.type = fd.of}

Fills(S, fd, v) ==
    CASE fd.label = "array" -> v \in Seq(Elements(S, fd))
      [] fd.label = "map" -> /\ v = [k \in DOMAIN v |-> v[k]]
                             /\ \A k \in DOMAIN v : v[k] \in Elements(S, fd)
      [] fd.label = "one" /\ fd.kind = "msg" ->
             v = <<>> \/ \E m \in Elements(S, fd) : v = <<m>>
      [] OTHER -> v \in Elements(S, fd)

MadeOf(S, m) ==
    /\ m = [type |-> m.type, val |-> m.val]
    /\ m.type \in Types
    /\ m.val = [f \in DOMAIN Schema[m.type] |-> m.val[f]]
    /\ \A f \in DOMAIN m.val : Fills(S, Schema[m.type][f], m.val[f])

Closed(S) == \A m \in S : MadeOf(S, m)

\* A path segment is a number or none.
ASSUME IndexAssumption == \A seg \in DOMAIN Index : Index[seg] # None => Index[seg] \in Int

\* A token converts to a value of the type asked for, or not at all.
ASSUME ParseAssumption ==
    /\ Closed(Parsed)
    /\ \A w \in Words :
          /\ Parse["int"][w] # None => Parse["int"][w] \in Int
          /\ Parse["string"][w] \in Seq(STRING)
          /\ \A t \in Types : Parse[t][w] # None =>
                 Parse[t][w] \in Parsed /\ Parse[t][w].type = t

-----------------------------------------------------------------------------

\* The default value of a field.
Zero(fd) == IF fd.label = "one" /\ fd.kind = "int" THEN 0 ELSE <<>>

\* create(type): a message all of whose fields have their default value.
Create(t) == [type |-> t, val |-> [f \in DOMAIN Schema[t] |-> Zero(Schema[t][f])]]

Field(m, f) == Schema[m.type][f]

\* What a map holds at a key inserted without a value, and a singular message field
\* reads as while absent.
ElementZero(fd) == CASE fd.kind = "int" -> 0
                     [] fd.kind = "string" -> <<>>
                     [] fd.kind = "msg" -> Create(fd.of)

(***************************************************************************)
(* An address leads from a message to a message inside it, one step        *)
(* [field, sel] per level: sel is the index into an array, the key of a    *)
(* map, None for a singular field.                                         *)
(***************************************************************************)

\* The value one step leads to.
Part(m, step) ==
    LET v == m.val[step.field]  fd == Field(m, step.field) IN
    CASE fd.label = "array" -> v[step.sel + 1]
      [] fd.label = "map" -> IF step.sel \in DOMAIN v THEN v[step.sel] ELSE ElementZero(fd)
      [] fd.label = "one" /\ fd.kind = "msg" -> IF v = <<>> THEN ElementZero(fd) ELSE v[1]
      [] OTHER -> v

\* Function g where it is defined, and f elsewhere.
Over(g, f) == [k \in DOMAIN f \cup DOMAIN g |-> IF k \in DOMAIN g THEN g[k] ELSE f[k]]

\* Mutant: setting one entry of a map loses the others.
WithPartAlone(m, step, part) ==
    LET v == m.val[step.field]  fd == Field(m, step.field) IN
    [m EXCEPT !.val[step.field] =
        CASE fd.label = "array" -> [v EXCEPT ![step.sel + 1] = part]
          [] fd.label = "map" -> [k \in {step.sel} |-> part]
          [] fd.label = "one" /\ fd.kind = "msg" -> <<part>>
          [] OTHER -> part]

\* m with part in the place one step leads to.
WithPart(m, step, part) ==
    LET v == m.val[step.field]  fd == Field(m, step.field) IN
    [m EXCEPT !.val[step.field] =
        CASE fd.label = "array" -> [v EXCEPT ![step.sel + 1] = part]
          [] fd.label = "map" -> Over([k \in {step.sel} |-> part], v)
          [] fd.label = "one" /\ fd.kind = "msg" -> <<part>>
          [] OTHER -> part]

\* The message at an address, and root with m in its place.
At(root, addr) ==
    LET reached[i \in 0..Len(addr)] ==
            IF i = 0 THEN root ELSE Part(reached[i - 1], addr[i])
    IN  reached[Len(addr)]

PutAt(root, addr, m) ==
    LET rebuilt[i \in 0..Len(addr)] ==
            IF i = Len(addr) THEN m
            ELSE WithPart(At(root, SubSeq(addr, 1, i)), addr[i + 1], rebuilt[i + 1])
    IN rebuilt[0]

(***************************************************************************)
(* Message::MergeFrom: singular fields of other win unless they have their *)
(* default value, arrays are concatenated, map entries replaced, singular  *)
(* messages merged in turn by Sub.                                         *)
(***************************************************************************)
Merged(fd, mine, theirs, sub) ==
    CASE fd.label = "array" -> mine \o theirs
      [] fd.label = "map" -> Over(theirs, mine)
      [] fd.label = "one" /\ theirs = Zero(fd) -> mine
      [] OTHER -> IF fd.kind = "msg" /\ mine # <<>> THEN <<sub>> ELSE theirs

MergeWith(Sub(_, _), m, other) ==
    [m EXCEPT !.val = [f \in DOMAIN m.val |->
        Merged(Field(m, f), m.val[f], other.val[f], Sub(m.val[f][1], other.val[f][1]))]]

MergeFrom(m, other) ==
    MergeWith(LAMBDA a, b : MergeWith(LAMBDA c, d : d, a, b), m, other)

-----------------------------------------------------------------------------

\* m is a message of its type: every field holds what its descriptor says, at two levels.
ElementOK(MsgOK(_), fd, v) ==
    CASE fd.kind = "int" -> v \in Int
      [] fd.kind = "string" -> v \in Seq(STRING)
      [] fd.kind = "msg" -> v.type = fd.of /\ MsgOK(v)

FieldOK(MsgOK(_), fd, v) ==
    CASE fd.label = "array" -> \A i \in DOMAIN v : ElementOK(MsgOK, fd, v[i])
      [] fd.label = "map" -> \A k \in DOMAIN v : ElementOK(MsgOK, fd, v[k])
      [] fd.label = "one" /\ fd.kind = "msg" ->
            Len(v) <= 1 /\ (v # <<>> => ElementOK(MsgOK, fd, v[1]))
      [] OTHER -> ElementOK(MsgOK, fd, v)

LevelOK(MsgOK(_), m) ==
    /\ DOMAIN m.val = DOMAIN Schema[m.type]
    /\ \A f \in DOMAIN m.val : FieldOK(MsgOK, Field(m, f), m.val[f])

TopOK(m)    == LevelOK(LAMBDA r : TRUE, m)
Conforms(m) == LevelOK(TopOK, m)
=============================================================================
