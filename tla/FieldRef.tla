-------------------------------- MODULE FieldRef --------------------------------
(***************************************************************************)
(* FieldRef<Msg> (field_ref.h): how a path is followed into a message, and *)
(* what can be done at its end.                                            *)
(*                                                                         *)
(* A reference is [root, addr, type, field, sel, err]: the root message,   *)
(* the address of _msg in it and its type, _field_desc, _arr_idx or        *)
(* _map_key, and the exception thrown.  The ConstFieldRef of the reading   *)
(* commands only looks; the MutableFieldRef of the writing ones creates    *)
(* what it steps through, so root may have changed even when err is set.   *)
(***************************************************************************)
EXTENDS Message

\* No exception is none.
ASSUME NoneAssumption ==
    None \notin {"type mismatch", "no field", "bad key", "no key", "bad index", "out of range",
                 "not nested", "map value", "array element", "not a message", "abort"}

\* Nor is any field: field = None says that the path has named none.
ASSUME FieldAssumption == \A t \in Types : None \notin DOMAIN Schema[t]

FieldOf(r) == Schema[r.type][r.field]
Msg(r)     == At(r.root, r.addr)
Here(r)    == [field |-> r.field, sel |-> r.sel]
Throw(r, e) == [r EXCEPT !.err = e]

IsArray(r)        == FieldOf(r).label # "one"
IsArrayElement(r) == FieldOf(r).label = "array" /\ r.sel # None
IsMap(r)          == FieldOf(r).label = "map"

\* type(): a map is a repeated field of entry messages.
CppType(r) == IF IsMap(r) THEN "msg" ELSE FieldOf(r).kind

-----------------------------------------------------------------------------
(***************************************************************************)
(* Following a path.                                                       *)
(***************************************************************************)

\* The field called seg of the message the reference is at.
FindField(r, seg) ==
    CASE r.err # None -> r
      [] r.err = None /\ seg \notin DOMAIN Schema[r.type] -> Throw(r, "no field")
      [] OTHER -> [r EXCEPT !.field = seg, !.sel = None]

\* Mutant: it is the key to write that must be there.
FindKeySwapped(mutable, r, seg) ==
    LET key == Parse[FieldOf(r).key][seg] IN
    IF key = None
    THEN Throw(r, "bad key")
    ELSE IF mutable /\ key \notin DOMAIN Msg(r).val[r.field]
    THEN Throw(r, "no key")
    ELSE [r EXCEPT !.sel = key]

\* A key of the map the reference is at: a key to read must be there.
FindKey(mutable, r, seg) ==
    LET key == Parse[FieldOf(r).key][seg] IN
    IF key = None
    THEN Throw(r, "bad key")
    ELSE IF ~mutable /\ key \notin DOMAIN Msg(r).val[r.field]
    THEN Throw(r, "no key")
    ELSE [r EXCEPT !.sel = key]

\* An index of the array the reference is at.
FindIndex(r, seg) ==
    IF Index[seg] = None
    THEN Throw(r, "bad index")
    ELSE IF Index[seg] >= Len(Msg(r).val[r.field]) \/ Index[seg] < 0
    THEN Throw(r, "out of range")
    ELSE [r EXCEPT !.sel = Index[seg]]

\* Mutant: a sub-message or map value already present is replaced by an empty one.
EnsureFresh(r) == PutAt(r.root, r.addr, WithPart(Msg(r), Here(r), ElementZero(FieldOf(r))))

\* root with what the reference denotes created: MutableMessage on a singular message,
\* InsertOrLookupMapValue on a map.
Ensure(r) == PutAt(r.root, r.addr, WithPart(Msg(r), Here(r), Part(Msg(r), Here(r))))

\* The message the reference denotes is the one it is at; the map entry of a scalar
\* is made, too, before it proves to be none.
Inside(r) ==
    IF FieldOf(r).kind # "msg"
    THEN Throw(r, "map value")
    ELSE [root |-> r.root, addr |-> Append(r.addr, Here(r)), type |-> FieldOf(r).of,
          field |-> None, sel |-> None, err |-> r.err]

\* Going into what the reference denotes, which protobuf's reflection survives for
\* anything but an element of an array of scalars.
Enter(mutable, r) ==
    LET fd == FieldOf(r) IN
    IF fd.kind # "msg" /\ fd.label # "map"
    THEN Throw(r, IF fd.label = "array" THEN "abort" ELSE "not nested")
    ELSE Inside([r EXCEPT !.root = IF mutable THEN Ensure(r) ELSE @])

Follow(mutable, r, seg) ==
    CASE r.err # None -> r
      [] r.err = None /\ r.field = None -> FindField(r, seg)
      [] r.err = None /\ r.field # None /\ r.sel = None /\ IsMap(r) -> FindKey(mutable, r, seg)
      [] r.err = None /\ r.field # None /\ r.sel = None /\ IsArray(r) /\ ~IsMap(r) ->
            FindIndex(r, seg)
      [] OTHER -> FindField(Enter(mutable, r), seg)

Resolve(mutable, root, path) ==
    LET start == [root |-> root, addr |-> <<>>, type |-> root.type, field |-> None,
                  sel |-> None, err |-> None]
    IN
    IF root.type # path.type
    THEN Throw(start, "type mismatch")
    ELSE LET ref[i \in 0..Len(path.fields)] ==
                 IF i = 0 THEN start ELSE Follow(mutable, ref[i - 1], path.fields[i])
         IN  ref[Len(path.fields)]

ConstRef(root, path)   == Resolve(FALSE, root, path)
MutableRef(root, path) == Resolve(TRUE, root, path)

-----------------------------------------------------------------------------
(***************************************************************************)
(* What can be done with a reference that threw nothing.  Each returns the *)
(* reference with the changed root, or with the exception.                 *)
(***************************************************************************)

\* size(): of a whole array or map.
Size(r) == LET v == Msg(r).val[r.field] IN
           IF IsMap(r) THEN Cardinality(DOMAIN v) ELSE Len(v)

\* The value denoted: get_..., get_repeated_..., get_mapped_....
Get(r) == Part(Msg(r), Here(r))

\* set_..., set_repeated_..., set_mapped_...: all of them make the place first.
Put(r, v) == [r EXCEPT !.root = PutAt(r.root, r.addr, WithPart(Msg(r), Here(r), v))]

\* The whole field, as opposed to an element of it.
PutWhole(r, v) == [r EXCEPT !.root = PutAt(r.root, r.addr, [Msg(r) EXCEPT !.val[r.field] = v])]

\* add_...: one more element.
Add(r, v) == PutWhole(r, Append(Msg(r).val[r.field], v))

\* clear(): for a map element, too, the whole field.
Clear(r) == IF IsArrayElement(r)
            THEN Throw(r, "array element")
            ELSE PutWhole(r, Zero(FieldOf(r)))

Swapped(s, i) == [s EXCEPT ![i] = s[i + 1], ![i + 1] = s[i]]

\* Mutant: the loop stops one element early.
DelEarly(r) ==
    LET arr == Msg(r).val[r.field]
        n   == Len(arr)
        swaps[i \in 0..(n - 2 - r.sel)] ==
            IF i = 0 THEN arr ELSE Swapped(swaps[i - 1], r.sel + i)
    IN PutWhole(r, SubSeq(IF n - 2 - r.sel < 0 THEN arr ELSE swaps[n - 2 - r.sel], 1, n - 1))

\* del(): the element is swapped to the end, one place at a time, and removed there.
Del(r) ==
    LET arr == Msg(r).val[r.field]
        n   == Len(arr)
        swaps[i \in 0..(n - 1 - r.sel)] ==
            IF i = 0 THEN arr ELSE Swapped(swaps[i - 1], r.sel + i)
    IN PutWhole(r, SubSeq(swaps[n - 1 - r.sel], 1, n - 1))

\* merge(): MutableMessage, which protobuf's reflection does not survive on a repeated field.
Merge(r, other) ==
    IF CppType(r) # "msg" THEN Throw(r, "not a message")
    ELSE IF IsArray(r) THEN Throw(r, "abort")
    ELSE Put(r, MergeFrom(Get(r), other))
=============================================================================
