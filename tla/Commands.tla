-------------------------------- MODULE Commands --------------------------------
(***************************************************************************)
(* What each command does to the one key it names.                         *)
(*                                                                         *)
(* A key is Missing, holds a Foreign value (of another Redis type) or an   *)
(* Entry: a message, and whether an expiry is set on it.  A command is     *)
(* [op, type, fields, args, opt, ex]; fields = <<>> when it has no path.   *)
(* Its result is [entry, reply, logged]: what the key holds afterwards,    *)
(* the reply, and whether RedisModule_ReplicateVerbatim was called.  A     *)
(* handler whose exception is caught replies with an error, and what it    *)
(* did to the message in place stays done.                                 *)
(***************************************************************************)
EXTENDS FieldRef

ASSUME ErrorAssumption ==
    None \notin {"wrong type of key", "type mismatch", "unknown type", "no path", "bad value",
                 "whole array or map", "not an array or string", "not a message", "not an element"}

Number(n) == [kind |-> "number", val |-> n]
Nil       == [kind |-> "nil"]
Error(e)  == [kind |-> "error", val |-> e]
Abort     == [kind |-> "abort"]
Value(v)  == [kind |-> "value", val |-> v]

Missing       == [kind |-> "missing"]
Foreign       == [kind |-> "foreign"]
Entry(m, ttl) == [kind |-> "message", msg |-> m, ttl |-> ttl]

Holds(e)  == e.kind = "message"
PathOf(c) == [type |-> c.type, fields |-> c.fields]

\* Mutant: a command is replicated whether it went through or not.
StoppedLogged(e, err) == [entry |-> e, logged |-> TRUE,
                          reply |-> IF err = "abort" THEN Abort ELSE Error(err)]

\* The command went through, or it was stopped by err; in both cases the key holds e.
Done(e, n) == [entry |-> e, reply |-> Number(n), logged |-> TRUE]

Stopped(e, err) == [entry |-> e, logged |-> FALSE,
                    reply |-> IF err = "abort" THEN Abort ELSE Error(err)]

\* The message a writing command works on: the key's, or a new one that is not yet its.
Target(e, c) == IF Holds(e) THEN e.msg ELSE Create(c.type)

\* Mutant: a message changed in place loses its expiry.
FinishForever(e, r, ttl, n) ==
    IF r.err # None
    THEN Stopped(IF Holds(e) THEN Entry(r.root, e.ttl) ELSE e, r.err)
    ELSE Done(Entry(r.root, FALSE), n)

\* The end of a command that worked on the target in place and left it as r.root.
\* A new message becomes the key's only when nothing was thrown.
Finish(e, r, ttl, n) ==
    IF r.err # None
    THEN Stopped(IF Holds(e) THEN Entry(r.root, e.ttl) ELSE e, r.err)
    ELSE Done(Entry(r.root, ttl), n)

\* Mutant: the type of the message a key holds is not compared with the one named.
RefusalUntyped(e, c) ==
    CASE e = Foreign -> "wrong type of key"
      [] ~Holds(e) /\ c.type \notin Types -> "unknown type"
      [] OTHER -> None

\* key_exists throws for a key of another type; so do a new message of an unknown type
\* and a path into a message of a type other than the one named.
Refusal(e, c) ==
    CASE e = Foreign -> "wrong type of key"
      [] Holds(e) /\ e.msg.type # c.type -> "type mismatch"
      [] ~Holds(e) /\ c.type \notin Types -> "unknown type"
      [] OTHER -> None

-----------------------------------------------------------------------------
(***************************************************************************)
(* PB.SET                                                                  *)
(***************************************************************************)

\* Mutant: the value of a message field is parsed as the type the path starts from.
ConvertedAsRoot(r, tok) ==
    LET fd == FieldOf(r) IN Parse[IF fd.kind = "msg" THEN r.root.type ELSE fd.kind][tok]

\* What a token converts to at the end of a path, for _set_string and its kin: the
\* conversion comes before the field is touched.
Converted(r, tok) ==
    LET fd == FieldOf(r) IN Parse[IF fd.kind = "msg" THEN fd.of ELSE fd.kind][tok]

SetPlace(r, tok) ==
    IF Converted(r, tok) = None THEN Throw(r, "bad value") ELSE Put(r, Converted(r, tok))

SetField(r, tok) ==
    CASE r.err # None -> r
      [] r.err = None /\ IsArray(r) /\ r.sel = None -> Throw(r, "whole array or map")
      [] OTHER -> SetPlace(r, tok)

\* A whole message replaces the value, and with it the expiry; a field keeps it.
SetWhole(e, c) ==
    LET m == Parse[c.type][c.args[1]] IN
    IF m = None THEN Stopped(e, "bad value") ELSE Done(Entry(m, c.ex), 1)

\* SetCommand::_run.
Set(e, c) ==
    IF e = Foreign THEN Stopped(e, Refusal(e, c))
    ELSE IF c.opt = (IF Holds(e) THEN "NX" ELSE "XX") THEN Done(e, 0)
    ELSE IF Refusal(e, c) # None THEN Stopped(e, Refusal(e, c))
    ELSE IF c.fields = <<>> THEN SetWhole(e, c)
    ELSE Finish(e, SetField(MutableRef(Target(e, c), PathOf(c)), c.args[1]),
                c.ex \/ (Holds(e) /\ e.ttl), 1)

-----------------------------------------------------------------------------
(***************************************************************************)
(* PB.APPEND                                                               *)
(***************************************************************************)

\* No token converts to the entry message of a map.
AppendElement(r, tok) ==
    CASE r.err # None -> r
      [] r.err = None /\ (IsMap(r) \/ Converted(r, tok) = None) -> Throw(r, "bad value")
      [] OTHER -> Add(r, Converted(r, tok))

\* _append_arr, one element after the other until one does not convert.
AppendElements(r, toks) ==
    LET after[i \in 0..Len(toks)] ==
            IF i = 0 THEN r ELSE AppendElement(after[i - 1], toks[i])
    IN  after[Len(toks)]

\* _append_str: all the pieces are put behind the string at once.
AppendString(r, toks) ==
    Put(r, Get(r) \o FlattenSeq([i \in DOMAIN toks |-> Parse["string"][toks[i]]]))

AppendField(r, toks) ==
    CASE r.err # None -> r
      [] r.err = None /\ IsArray(r) /\ ~IsArrayElement(r) -> AppendElements(r, toks)
      [] r.err = None /\ (IsArray(r) => IsArrayElement(r)) /\ FieldOf(r).kind = "string" ->
            AppendString(r, toks)
      [] OTHER -> Throw(r, "not an array or string")

\* Mutant: the reply is the index of the last element.
AppendedIndex(e, r) ==
    Finish(e, r, Holds(e) /\ e.ttl,
           IF r.err # None THEN 0
           ELSE IF IsArray(r) /\ ~IsArrayElement(r) THEN Size(r) - 1 ELSE Len(Get(r)))

\* The reply is the length of the array or string afterwards.
Appended(e, r) ==
    Finish(e, r, Holds(e) /\ e.ttl,
           IF r.err # None THEN 0
           ELSE IF IsArray(r) /\ ~IsArrayElement(r) THEN Size(r) ELSE Len(Get(r)))

AppendCmd(e, c) ==
    IF c.fields = <<>> THEN Stopped(e, "no path")
    ELSE IF Refusal(e, c) # None THEN Stopped(e, Refusal(e, c))
    ELSE Appended(e, AppendField(MutableRef(Target(e, c), PathOf(c)), c.args))

-----------------------------------------------------------------------------
(***************************************************************************)
(* PB.MERGE                                                                *)
(***************************************************************************)

\* A missing key is left to SetCommand::_run, whose result is r; the reply says 0 and
\* nothing replicates it.
MergeMissing(r) ==
    IF r.reply.kind = "number"
    THEN [entry |-> r.entry, reply |-> Number(0), logged |-> FALSE]
    ELSE r

MergeMsg(e, c) ==
    LET other == Parse[c.type][c.args[1]] IN
    IF other = None THEN Stopped(e, "bad value")
    ELSE Done(Entry(MergeFrom(e.msg, other), e.ttl), 1)

\* _merge_sub_msg: the value is parsed as the field's message type, again no map entry.
MergeField(r, tok) ==
    CASE r.err # None -> r
      [] r.err = None /\ CppType(r) # "msg" -> Throw(r, "not a message")
      [] r.err = None /\ CppType(r) = "msg" /\ (IsMap(r) \/ Converted(r, tok) = None) ->
            Throw(r, "bad value")
      [] OTHER -> Merge(r, Converted(r, tok))

MergeCmd(e, c) ==
    IF e = Missing THEN MergeMissing(Set(e, c))
    ELSE IF Refusal(e, c) # None THEN Stopped(e, Refusal(e, c))
    ELSE IF c.fields = <<>> THEN MergeMsg(e, c)
    ELSE Finish(e, MergeField(MutableRef(e.msg, PathOf(c)), c.args[1]), e.ttl, 1)

-----------------------------------------------------------------------------
(***************************************************************************)
(* PB.DEL and PB.CLEAR                                                     *)
(***************************************************************************)

\* Only an element of an array can be deleted, not an entry of a map.
DelField(r) ==
    CASE r.err # None -> r
      [] r.err = None /\ ~IsArrayElement(r) -> Throw(r, "not an element")
      [] OTHER -> Del(r)

DelCmd(e, c) ==
    IF e = Missing THEN Done(e, 0)
    ELSE IF Refusal(e, c) # None THEN Stopped(e, Refusal(e, c))
    ELSE IF c.fields = <<>> THEN Done(Missing, 1)
    ELSE Finish(e, DelField(MutableRef(e.msg, PathOf(c))), e.ttl, 1)

ClearField(r) == IF r.err # None THEN r ELSE Clear(r)

\* Mutant: PB.CLEAR does not replicate itself.
ClearUnlogged(e, c) ==
    IF e = Missing THEN Done(e, 0)
    ELSE IF Refusal(e, c) # None THEN Stopped(e, Refusal(e, c))
    ELSE IF c.fields = <<>> THEN [Done(Entry(Create(c.type), e.ttl), 1) EXCEPT !.logged = FALSE]
    ELSE [Finish(e, ClearField(MutableRef(e.msg, PathOf(c))), e.ttl, 1) EXCEPT !.logged = FALSE]

ClearCmd(e, c) ==
    IF e = Missing THEN Done(e, 0)
    ELSE IF Refusal(e, c) # None THEN Stopped(e, Refusal(e, c))
    ELSE IF c.fields = <<>> THEN Done(Entry(Create(c.type), e.ttl), 1)
    ELSE Finish(e, ClearField(MutableRef(e.msg, PathOf(c))), e.ttl, 1)

-----------------------------------------------------------------------------
(***************************************************************************)
(* PB.GET and PB.LEN, which only look.                                     *)
(***************************************************************************)

\* A message is only replied with when a format is given; here it is its own text.
GetElement(kind, v, format) ==
    IF kind = "msg" /\ ~format THEN Error("no format") ELSE Value(v)

GetArray(r, format) ==
    LET v == Msg(r).val[r.field] IN
    Value([i \in DOMAIN v |-> GetElement(FieldOf(r).kind, v[i], format)])

GetMap(r, format) ==
    LET v == Msg(r).val[r.field] IN
    Value([k \in DOMAIN v |-> GetElement(FieldOf(r).kind, v[k], format)])

GetField(r, format) ==
    CASE r.err = "abort" -> Abort
      [] r.err \notin {None, "abort"} -> Error(r.err)
      [] r.err = None /\ r.sel = None /\ IsMap(r) -> GetMap(r, format)
      [] r.err = None /\ r.sel = None /\ IsArray(r) /\ ~IsMap(r) -> GetArray(r, format)
      [] OTHER -> GetElement(FieldOf(r).kind, Get(r), format)

GetCmd(e, type, fields, format) ==
    CASE e = Missing -> Nil
      [] e = Foreign -> Error("wrong type of key")
      [] Holds(e) /\ e.msg.type # type -> Error("type mismatch")
      [] Holds(e) /\ e.msg.type = type /\ fields = <<>> -> GetElement("msg", e.msg, format)
      [] OTHER -> GetField(ConstRef(e.msg, [type |-> type, fields |-> fields]), format)

\* The length of a message is that of its serialization: here the message itself.
LenField(r) ==
    CASE r.err = "abort" -> Abort
      [] r.err \notin {None, "abort"} -> Error(r.err)
      [] r.err = None /\ IsArray(r) ->
            IF r.sel # None THEN Error("not an array or map") ELSE Number(Size(r))
      [] r.err = None /\ ~IsArray(r) /\ FieldOf(r).kind = "string" -> Number(Len(Get(r)))
      [] r.err = None /\ ~IsArray(r) /\ FieldOf(r).kind = "msg" -> Value(Get(r))
      [] OTHER -> Error("no length")

LenCmd(e, type, fields) ==
    CASE e = Missing -> Number(0)
      [] e = Foreign -> Error("wrong type of key")
      [] Holds(e) /\ e.msg.type # type -> Error("type mismatch")
      [] Holds(e) /\ e.msg.type = type /\ fields = <<>> -> Value(e.msg)
      [] OTHER -> LenField(ConstRef(e.msg, [type |-> type, fields |-> fields]))

-----------------------------------------------------------------------------

Execute(e, c) ==
    CASE c.op = "SET"    -> Set(e, c)
      [] c.op = "APPEND" -> AppendCmd(e, c)
      [] c.op = "MERGE"  -> MergeCmd(e, c)
      [] c.op = "DEL"    -> DelCmd(e, c)
      [] c.op = "CLEAR"  -> ClearCmd(e, c)
=============================================================================
