--------------------------------- MODULE Store ---------------------------------
(***************************************************************************)
(* The keys of one Redis server and the commands that change them.  Redis  *)
(* runs one command at a time, so a command is one step; the commands that *)
(* only look, PB.GET and PB.LEN, appear in the properties.                 *)
(***************************************************************************)
EXTENDS Commands, FiniteSetsExt

CONSTANTS
    Keys,      \* names of keys
    Writes,    \* the commands that are tried, as Execute takes them
    Paths,     \* the paths the properties look at
    MaxSize    \* bound: the size of a message

\* PB.SET and PB.MERGE have a value, PB.APPEND has one or more; the other words are the
\* path's.
ASSUME WritesAssumption ==
    \A c \in Writes : /\ c.op \in {"SET", "APPEND", "MERGE", "DEL", "CLEAR"}
                      /\ c.fields \in Seq(DOMAIN Index)
                      /\ c.args \in Seq(Words)
                      /\ c.op \in {"SET", "APPEND", "MERGE"} => c.args # <<>>
                      /\ c.ex \in BOOLEAN

ASSUME PathsAssumption == \A p \in Paths : p \in Seq(DOMAIN Index) /\ p # <<>>

VARIABLES
    db,  \* what each key holds
    up   \* FALSE once a command has taken the process down

storeVars == <<db, up>>

\* The size of a message: its elements, entries, characters and fields that are set.
ElementSize(MsgSize(_), fd, v) ==
    CASE fd.kind = "int" -> 1
      [] fd.kind = "string" -> Len(v)
      [] fd.kind = "msg" -> 1 + MsgSize(v)

FieldSize(MsgSize(_), fd, v) ==
    CASE fd.label # "one" -> MapThenSumSet(LAMBDA i : ElementSize(MsgSize, fd, v[i]), DOMAIN v)
      [] v = Zero(fd) -> 0
      [] fd.label = "one" /\ fd.kind = "msg" /\ v # <<>> -> ElementSize(MsgSize, fd, v[1])
      [] OTHER -> ElementSize(MsgSize, fd, v)

LevelSize(MsgSize(_), m) ==
    MapThenSumSet(LAMBDA f : FieldSize(MsgSize, Field(m, f), m.val[f]), DOMAIN m.val)

SizeOf(m) == LevelSize(LAMBDA s : LevelSize(LAMBDA r : 0, s), m)

Init ==
    /\ db = [k \in Keys |-> Missing]
    /\ up = TRUE

\* A command of the module on key k has the result r.  One that trips a fatal check of
\* protobuf ends the process; what it held is then lost.
Effect(k, r) ==
    /\ up
    /\ Holds(r.entry) => SizeOf(r.entry.msg) <= MaxSize
    /\ IF r.reply = Abort
       THEN up' = FALSE /\ db' = [j \in Keys |-> Missing]
       ELSE up' = up /\ db' = [db EXCEPT ![k] = r.entry]

Command(k, c) == Effect(k, Execute(db[k], c))

\* Redis itself: SET of a plain value, DEL, and the expiry of a key.
NativeSet(k) ==
    /\ up
    /\ db' = [db EXCEPT ![k] = Foreign]
    /\ UNCHANGED up

NativeDel(k) ==
    /\ up
    /\ db' = [db EXCEPT ![k] = Missing]
    /\ UNCHANGED up

Expire(k) ==
    /\ up
    /\ Holds(db[k]) /\ db[k].ttl
    /\ db' = [db EXCEPT ![k] = Missing]
    /\ UNCHANGED up

Next == \E k \in Keys : \/ \E c \in Writes : Command(k, c)
                        \/ NativeSet(k)
                        \/ NativeDel(k)
                        \/ Expire(k)

Spec == Init /\ [][Next]_storeVars

-----------------------------------------------------------------------------
(***************************************************************************)
(* Properties.  Most speak of every command in every state that can be     *)
(* reached.                                                                *)
(***************************************************************************)

\* Every key holds nothing, a foreign value or a message that conforms to its descriptor.
TypeOK ==
    /\ up \in BOOLEAN
    /\ DOMAIN db = Keys
    /\ \A k \in Keys : Holds(db[k]) =>
          db[k].ttl \in BOOLEAN /\ db[k].msg.type \in Types /\ Conforms(db[k].msg)

EveryResult(P(_, _, _)) ==
    up => \A k \in Keys, c \in Writes : P(db[k], c, Execute(db[k], c))

Look(e, fields) == GetCmd(e, e.msg.type, fields, TRUE)

Reading(m, p) == ConstRef(m, [type |-> m.type, fields |-> p])

\* Value y of a field fd is x with nothing changed or removed: an array may have more
\* elements, a map more keys, and a message may have come into being.  What is inside its
\* messages is looked at by longer paths.
FieldGrows(fd, x, y) ==
    CASE fd.label = "array" -> IF fd.kind = "msg" THEN Len(x) <= Len(y) ELSE IsPrefix(x, y)
      [] fd.label = "map" -> /\ DOMAIN x \subseteq DOMAIN y
                             /\ fd.kind # "msg" => \A k \in DOMAIN x : x[k] = y[k]
      [] fd.label = "one" /\ fd.kind = "msg" -> x # <<>> => y # <<>>
      [] OTHER -> x = y

\* Every path that leads somewhere in message a leads there in b, and finds it grown.
Grows(a, b) ==
    /\ a.type = b.type
    /\ \A p \in Paths :
          LET x == Reading(a, p)  y == Reading(b, p) IN
          x.err = None => /\ y = [x EXCEPT !.root = b]
                          /\ FieldGrows(FieldOf(x), Msg(x).val[x.field], Msg(y).val[x.field])

\* A command that replies with an error may leave traces, since it works in place: the
\* sub-messages and map entries its path went through, the elements PB.APPEND got to.
\* It never changes or loses anything that was there, and never creates a key.
ErrorsOnlyAdd ==
    EveryResult(LAMBDA e, c, r :
        r.reply.kind = "error" =>
            \/ r.entry = e
            \/ Holds(e) /\ Holds(r.entry) /\ r.entry.ttl = e.ttl /\ Grows(e.msg, r.entry.msg))

\* No two spellings of one field, index or key.
Distinct(a, b) ==
    /\ a # b
    /\ Index[a] = Index[b] => Index[a] = None
    /\ \A kind \in {"int", "string"} : Parse[kind][a] = Parse[kind][b] => Parse[kind][a] = None

\* The paths part: neither leads through the place the other names.
Apart(p, q) ==
    \E i \in DOMAIN p \cap DOMAIN q :
        SubSeq(p, 1, i - 1) = SubSeq(q, 1, i - 1) /\ Distinct(p[i], q[i])

\* After PB.SET of a field, PB.GET returns the value set, and what it returned at any
\* other place is what it returns still, whether the key was there or not.  Only below a
\* map key that was not there the default values of a new message come to light.
SetIsLocal ==
    EveryResult(LAMBDA e, c, r :
        (c.op = "SET" /\ c.fields # <<>> /\ r.reply = Number(1)) =>
            LET before == IF Holds(e) THEN e ELSE Entry(Create(c.type), FALSE) IN
            /\ LET ref == ConstRef(r.entry.msg, PathOf(c)) IN
               ref.err = None /\ Get(ref) = Converted(ref, c.args[1])
            /\ \A p \in Paths : Apart(p, c.fields) =>
                  Look(r.entry, p) = Look(before, p) \/ Look(before, p) = Error("no key"))

\* PB.DEL of an element removes that element and no other: those behind it move up by
\* one, in their order, and the rest of the message stays.
DelRemovesOne ==
    EveryResult(LAMBDA e, c, r :
        (c.op = "DEL" /\ c.fields # <<>> /\ r.reply = Number(1) /\ Holds(e)) =>
            LET arr == Front(c.fields)  i == Index[Last(c.fields)] IN
            /\ Look(r.entry, arr).val = RemoveAt(Look(e, arr).val, i + 1)
            /\ \A p \in Paths : Apart(p, arr) => Look(r.entry, p) = Look(e, p))

\* PB.LEN of an array or map counts what PB.GET lists, and PB.APPEND replies with the
\* length PB.LEN then gives.
LenAgrees ==
    /\ EveryResult(LAMBDA e, c, r :
          (c.op = "APPEND" /\ r.reply.kind = "number") =>
              \/ LenCmd(r.entry, c.type, c.fields) = r.reply
              \/ IsArrayElement(ConstRef(r.entry.msg, PathOf(c))))
    /\ up => \A k \in Keys, p \in Paths : Holds(db[k]) =>
          LET ref == Reading(db[k].msg, p) IN
          (ref.err = None /\ IsArray(ref) /\ ref.sel = None) =>
              LenCmd(db[k], db[k].msg.type, p)
                  = Number(Cardinality(DOMAIN Look(db[k], p).val))

\* A path that reads also writes: the mutable reference ends at the same place and sees
\* the same value there, and on its way changes nothing that was there.  A path that
\* writes and does not read leads to or through a map key that is not there.
ReadAndWriteAgree ==
    up => \A k \in Keys, p \in Paths : Holds(db[k]) =>
        LET path == [type |-> db[k].msg.type, fields |-> p]
            c    == ConstRef(db[k].msg, path)
            m    == MutableRef(db[k].msg, path)
        IN /\ c.err = None => /\ m = [c EXCEPT !.root = m.root]
                              /\ Msg(m) = Msg(c)
                              /\ Grows(c.root, m.root)
           /\ c.err # None => m.err = c.err \/ c.err = "no key"

\* The expiry of a key survives every command but PB.SET of the whole message, and
\* PB.SET with --EX or --PX sets one.
ExpiryKept ==
    EveryResult(LAMBDA e, c, r :
        Holds(r.entry) =>
            /\ (Holds(e) /\ e.ttl /\ ~r.entry.ttl) =>
                  c.op = "SET" /\ c.fields = <<>> /\ r.reply = Number(1)
            /\ (c.op = "SET" /\ c.ex /\ r.reply = Number(1)) => r.entry.ttl)

\* A key never turns from one message type to another: it is deleted in between.
TypeSticks ==
    [][\A k \in Keys :
          Holds(db[k]) /\ Holds(db[k]') => db[k].msg.type = db[k]'.msg.type]_storeVars

\* PB.CLEAR of a place leaves every other place alone.
ClearIsLocal ==
    EveryResult(LAMBDA e, c, r :
        (c.op = "CLEAR" /\ c.fields # <<>> /\ r.reply = Number(1) /\ Holds(e)) =>
            \A p \in Paths : Apart(p, c.fields) => Look(r.entry, p) = Look(e, p))

\* Every command gets a reply.
AlwaysReplies == up
=============================================================================
