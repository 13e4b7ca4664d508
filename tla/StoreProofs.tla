------------------------------- MODULE StoreProofs -------------------------------
(***************************************************************************)
(* What a command of Store replies, logs and leaves in its key.            *)
(***************************************************************************)
EXTENDS Store, MessageProofs

-----------------------------------------------------------------------------
(***************************************************************************)
(* Results.  A command goes through, or it is stopped; PB.MERGE of a       *)
(* missing key does neither.                                               *)
(***************************************************************************)

IsResult(r) == r = [entry |-> r.entry, reply |-> r.reply, logged |-> r.logged]

Went(r)   == IsResult(r) /\ r.logged = TRUE /\ r.reply.kind = "number"
Failed(r) == IsResult(r) /\ r.logged = FALSE /\ (r.reply = Abort \/ r.reply.kind = "error")
Unsaid(r) == IsResult(r) /\ r.logged = FALSE /\ r.reply = Number(0)

LEMMA DoneWent == ASSUME NEW e, NEW n PROVE Went(Done(e, n))
  BY DEF IsResult, Went, Done, Number

LEMMA StoppedFailed == ASSUME NEW e, NEW err PROVE Failed(Stopped(e, err))
<1>1. Stopped(e, err) = [entry |-> e, logged |-> FALSE,
                         reply |-> IF err = "abort" THEN Abort ELSE Error(err)]
  BY DEF Stopped
<1>2. Error(err).kind = "error"
  BY DEF Error
<1> QED
  BY <1>1, <1>2 DEF IsResult, Failed

LEMMA FinishResult ==
  ASSUME NEW e, NEW r, NEW ttl, NEW n
  PROVE  Went(Finish(e, r, ttl, n)) \/ Failed(Finish(e, r, ttl, n))
  BY DoneWent, StoppedFailed DEF Finish

LEMMA SetResult ==
  ASSUME NEW e, NEW c
  PROVE  Went(Set(e, c)) \/ Failed(Set(e, c))
  BY DoneWent, StoppedFailed, FinishResult DEF Set, SetWhole

LEMMA ExecuteResult ==
  ASSUME NEW e, NEW c \in Writes
  PROVE  LET r == Execute(e, c) IN
         Went(r) \/ Failed(r) \/ (c.op = "MERGE" /\ e = Missing /\ Unsaid(r))
<1>1. CASE c.op = "SET"
  BY <1>1, SetResult DEF Execute
<1>2. CASE c.op = "APPEND"
  BY <1>2, StoppedFailed, FinishResult DEF Execute, AppendCmd, Appended
<1>3. CASE c.op = "MERGE"
  <2>1. CASE e = Missing
    <3> DEFINE r == Set(e, c)
    <3> HIDE DEF r
    <3>1. ASSUME Went(r) PROVE Unsaid(MergeMissing(r))
      BY <3>1 DEF Went, MergeMissing, IsResult, Unsaid
    <3>2. ASSUME Failed(r) PROVE Failed(MergeMissing(r))
      BY <3>2 DEF Failed, Abort, MergeMissing
    <3> QED
      BY <1>3, <2>1, <3>1, <3>2, SetResult DEF Execute, MergeCmd, r
  <2>2. CASE e # Missing
    BY <1>3, <2>2, DoneWent, StoppedFailed, FinishResult DEF Execute, MergeCmd, MergeMsg
  <2> QED
    BY <2>1, <2>2
<1>4. CASE c.op = "DEL"
  BY <1>4, DoneWent, StoppedFailed, FinishResult DEF Execute, DelCmd
<1>5. CASE c.op = "CLEAR"
  BY <1>5, DoneWent, StoppedFailed, FinishResult DEF Execute, ClearCmd
<1> QED
  BY <1>1, <1>2, <1>3, <1>4, <1>5, WritesAssumption

-----------------------------------------------------------------------------
(***************************************************************************)
(* Values from the client.                                                 *)
(***************************************************************************)

\* The messages tokens convert to are a full set, with the empty ones.
Read == Parsed \cup {Create(t) : t \in Types}

LEMMA ReadFull == Full(Read)
  BY FullFrom, ParseAssumption DEF Read

LEMMA ParsedMade ==
  ASSUME NEW t \in Types, NEW w \in Words, Parse[t][w] # None
  PROVE  WellMade(Parse[t][w]) /\ Parse[t][w].type = t /\ Parse[t][w] \in Read
  BY ReadFull, ParseAssumption DEF WellMade, Read

LEMMA CreatedMade ==
  ASSUME NEW t \in Types
  PROVE  WellMade(Create(t)) /\ Create(t).type = t
<1>1. Create(t) \in Read
  BY DEF Read
<1> QED
  BY <1>1, CreateMade, ReadFull DEF WellMade

\* What a token converts to can be put where the reference denotes.
LEMMA ConvertedIn ==
  ASSUME NEW S, NEW r, NEW h, Points(S, r, h), NEW tok \in Words, Converted(r, tok) # None
  PROVE  /\ \E T : /\ Points(T, r, h) /\ S \subseteq T
                   /\ Converted(r, tok) \in Elements(T, FieldOf(r))
         /\ FieldOf(r).kind = "msg" =>
               WellMade(Converted(r, tok)) /\ Converted(r, tok).type = FieldOf(r).of
<1> DEFINE fd == FieldOf(r)  v == Converted(r, tok)  T == S \cup Read
<1>1. IsFd(fd)
  BY FieldFills
<1>2. v = Parse[IF fd.kind = "msg" THEN fd.of ELSE fd.kind][tok] /\ v # None
  BY DEF Converted
<1>3. Full(T) /\ S \subseteq T /\ Read \subseteq T
  BY ReadFull, FullUnion, StandsAt DEF Points
<1>4. Points(T, r, h)
  BY <1>3, PointsMore
<1> HIDE DEF fd, v, T
<1>5. CASE fd.kind = "msg"
  <2>1. WellMade(v) /\ v.type = fd.of /\ v \in Read
    BY <1>1, <1>2, <1>5, ParsedMade DEF IsFd
  <2>2. v \in Elements(T, fd)
    BY <1>3, <1>5, <2>1 DEF Elements
  <2> QED
    BY <1>3, <1>4, <2>1, <2>2 DEF v, fd
<1>6. CASE fd.kind = "int"
  <2>1. v \in Elements(T, fd)
    BY <1>2, <1>6, ParseAssumption DEF Elements
  <2> QED
    BY <1>3, <1>4, <1>6, <2>1 DEF v, fd
<1>7. CASE fd.kind = "string"
  <2>1. v \in Elements(T, fd)
    BY <1>2, <1>7, ParseAssumption DEF Elements
  <2> QED
    BY <1>3, <1>4, <1>7, <2>1 DEF v, fd
<1> QED
  BY <1>1, <1>5, <1>6, <1>7 DEF IsFd

-----------------------------------------------------------------------------
(***************************************************************************)
(* What the commands do at the end of their path leaves a well made        *)
(* message of the same type, thrown or not.                                *)
(***************************************************************************)

LEMMA EndedRooted == ASSUME NEW r, NEW t, Ended(r, t) PROVE Rooted(r, t)
  BY DEF Ended

LEMMA DenotesRooted == ASSUME NEW r, NEW t, Denotes(r, t) PROVE Rooted(r, t)
  BY StandsRooted DEF Denotes, Points

LEMMA ThrownRooted ==
  ASSUME NEW r, NEW t, Rooted(r, t), NEW e
  PROVE  Rooted(Throw(r, e), t)
  BY RefChanges DEF Rooted

LEMMA SetPlaceGood ==
  ASSUME NEW r, NEW t, Denotes(r, t), IsPlace(r), NEW tok \in Words
  PROVE  Rooted(SetPlace(r, tok), t)
<1>1. CASE Converted(r, tok) = None
  BY <1>1, DenotesRooted, ThrownRooted DEF SetPlace
<1>2. CASE Converted(r, tok) # None
  <2>1. PICK S, h : Points(S, r, h)
    BY DEF Denotes
  <2>2. PICK T : Points(T, r, h) /\ Converted(r, tok) \in Elements(T, FieldOf(r))
    BY <1>2, <2>1, ConvertedIn
  <2>3. Rooted(Put(r, Converted(r, tok)), r.root.type)
    BY <2>2, PutGood
  <2> QED
    BY <1>2, <2>3 DEF SetPlace, Denotes
<1> QED
  BY <1>1, <1>2

LEMMA SetFieldGood ==
  ASSUME NEW r, NEW t, Followed(r, t), NEW tok \in Words
  PROVE  Rooted(SetField(r, tok), t)
<1>1. CASE r.err # None
  BY <1>1, EndedRooted DEF SetField, Followed, Denotes
<1>2. CASE r.err = None
  <2>1. Denotes(r, t)
    BY <1>2 DEF Followed, Ended
  <2>2. CASE IsArray(r) /\ r.sel = None
    BY <1>2, <2>1, <2>2, DenotesRooted, ThrownRooted DEF SetField
  <2>3. CASE ~(IsArray(r) /\ r.sel = None)
    <3>1. IsPlace(r)
      BY <2>3 DEF IsPlace, IsArray
    <3> QED
      BY <1>2, <2>1, <2>3, <3>1, SetPlaceGood DEF SetField
  <2> QED
    BY <2>2, <2>3
<1> QED
  BY <1>1, <1>2

LEMMA MergeFieldGood ==
  ASSUME NEW r, NEW t, Followed(r, t), NEW tok \in Words
  PROVE  Rooted(MergeField(r, tok), t)
<1>1. CASE r.err # None
  BY <1>1, EndedRooted DEF MergeField, Followed, Denotes
<1>2. CASE r.err = None
  <2>1. Denotes(r, t) /\ Rooted(r, t)
    BY <1>2, DenotesRooted DEF Followed, Ended
  <2>2. CASE CppType(r) # "msg"
    BY <1>2, <2>1, <2>2, ThrownRooted DEF MergeField
  <2>3. CASE CppType(r) = "msg" /\ (IsMap(r) \/ Converted(r, tok) = None)
    BY <1>2, <2>1, <2>3, ThrownRooted DEF MergeField
  <2>4. CASE CppType(r) = "msg" /\ ~IsMap(r) /\ Converted(r, tok) # None
    <3>1. PICK S, h : Points(S, r, h)
      BY <2>1 DEF Denotes
    <3>2. FieldOf(r).kind = "msg"
      BY <2>4 DEF CppType
    <3>3. WellMade(Converted(r, tok)) /\ Converted(r, tok).type = FieldOf(r).of
      BY <2>4, <3>1, <3>2, ConvertedIn
    <3>4. Rooted(Merge(r, Converted(r, tok)), r.root.type)
      BY <3>1, <3>3, MergeGood
    <3> QED
      BY <1>2, <2>1, <2>4, <3>4 DEF MergeField, Denotes
  <2> QED
    BY <2>2, <2>3, <2>4
<1> QED
  BY <1>1, <1>2

LEMMA DelFieldGood ==
  ASSUME NEW r, NEW t, Followed(r, t)
  PROVE  Rooted(DelField(r), t)
<1>1. CASE r.err # None
  BY <1>1, EndedRooted DEF DelField, Followed, Denotes
<1>2. CASE r.err = None
  <2>1. Denotes(r, t) /\ Rooted(r, t)
    BY <1>2, DenotesRooted DEF Followed, Ended
  <2>2. CASE ~IsArrayElement(r)
    BY <1>2, <2>1, <2>2, ThrownRooted DEF DelField
  <2>3. CASE IsArrayElement(r)
    <3>1. PICK S, h : Points(S, r, h)
      BY <2>1 DEF Denotes
    <3>2. /\ Del(r) = PutWhole(r, Dropped(Msg(r).val[r.field], r.sel))
          /\ Fills(S, FieldOf(r), Dropped(Msg(r).val[r.field], r.sel))
      BY <2>3, <3>1, DelIs
    <3>3. Rooted(Del(r), r.root.type)
      BY <3>1, <3>2, PutWholeGood
    <3> QED
      BY <1>2, <2>1, <2>3, <3>3 DEF DelField, Denotes
  <2> QED
    BY <2>2, <2>3
<1> QED
  BY <1>1, <1>2

LEMMA ClearFieldGood ==
  ASSUME NEW r, NEW t, Followed(r, t)
  PROVE  Rooted(ClearField(r), t)
<1>1. CASE r.err # None
  BY <1>1, EndedRooted DEF ClearField, Followed, Denotes
<1>2. CASE r.err = None
  <2>1. PICK S, h : Points(S, r, h)
    BY <1>2 DEF Followed, Ended, Denotes
  <2>2. Rooted(Clear(r), r.root.type)
    BY <2>1, ClearGood
  <2> QED
    BY <1>2, <2>2 DEF ClearField, Followed, Ended, Denotes
<1> QED
  BY <1>1, <1>2

\* The loop of PB.APPEND is at a whole array or map, or something was thrown.
Appending(q, t) == Ended(q, t) \/ (Denotes(q, t) /\ IsArray(q) /\ ~IsArrayElement(q))

LEMMA AppendElementGood ==
  ASSUME NEW r, NEW t, Appending(r, t), NEW tok \in Words
  PROVE  Appending(AppendElement(r, tok), t)
<1>1. CASE r.err # None
  BY <1>1 DEF AppendElement, Appending
<1>2. CASE r.err = None
  <2>1. /\ Denotes(r, t) /\ IsArray(r) /\ ~IsArrayElement(r)
        /\ Rooted(r, t) /\ r.root.type = t
    BY <1>2, DenotesRooted DEF Appending, Ended, Denotes
  <2>2. CASE IsMap(r) \/ Converted(r, tok) = None
    BY <1>2, <2>1, <2>2, Thrown, ErrorAssumption DEF AppendElement, Appending
  <2>3. CASE ~IsMap(r) /\ Converted(r, tok) # None
    <3>1. PICK S, h : Points(S, r, h)
      BY <2>1 DEF Denotes
    <3>2. FieldOf(r).label = "array"
      BY <2>1, <2>3, <3>1, FieldFills DEF IsMap, IsArray, IsFd
    <3>6. r.sel = None
      BY <2>1, <3>2 DEF IsArrayElement
    <3>3. PICK T : Points(T, r, h) /\ Converted(r, tok) \in Elements(T, FieldOf(r))
      BY <2>3, <3>1, ConvertedIn
    <3>4. Whole(Add(r, Converted(r, tok)), r.root.type)
      BY <1>2, <2>1, <3>2, <3>3, <3>6, AddGood
    <3>5. AppendElement(r, tok) = Add(r, Converted(r, tok))
      BY <1>2, <2>3 DEF AppendElement
    <3> QED
      BY <2>1, <3>4, <3>5 DEF Appending, Whole, IsArray, IsArrayElement
  <2> QED
    BY <2>2, <2>3
<1> QED
  BY <1>1, <1>2

\* h is the reference as one token after the other is appended.
Appends(r, toks, n, h) ==
    /\ h[0] = r
    /\ \A i \in 1..n : h[i] = AppendElement(h[i - 1], toks[i])

LEMMA AppendsExist ==
  ASSUME NEW r, NEW toks, NEW N \in Nat
  PROVE  \E h : Appends(r, toks, N, h)
<1> DEFINE T == {n \in Nat : \E h : Appends(r, toks, n, h)}
<1>1. 0 \in T
  <2> DEFINE h == [i \in {0} |-> r]
  <2>1. Appends(r, toks, 0, h)
    BY DEF Appends
  <2> QED
    BY <2>1
<1>2. ASSUME NEW n \in Nat, n \in T PROVE n + 1 \in T
  <2>1. PICK h : Appends(r, toks, n, h)
    BY <1>2
  <2> DEFINE e == [i \in 0..(n + 1) |->
                     IF i = n + 1 THEN AppendElement(h[n], toks[n + 1]) ELSE h[i]]
  <2>2. e[0] = r /\ e[n + 1] = AppendElement(e[n], toks[n + 1])
    BY <2>1 DEF Appends
  <2>3. ASSUME NEW i \in 1..n PROVE e[i] = AppendElement(e[i - 1], toks[i])
    BY <2>1 DEF Appends
  <2>4. \A i \in 1..(n + 1) : i = n + 1 \/ i \in 1..n
    OBVIOUS
  <2>5. (n + 1) - 1 = n
    OBVIOUS
  <2> HIDE DEF e
  <2>6. \A i \in 1..(n + 1) : e[i] = AppendElement(e[i - 1], toks[i])
    BY <2>2, <2>3, <2>4, <2>5
  <2>7. Appends(r, toks, n + 1, e)
    BY <2>2, <2>6 DEF Appends
  <2> QED
    BY <2>7
<1> HIDE DEF T
<1>3. N \in T
  BY <1>1, <1>2, Induct
<1> QED
  BY <1>3 DEF T

LEMMA AppendElementsIs ==
  ASSUME NEW r, NEW toks, Len(toks) \in Nat, NEW h, Appends(r, toks, Len(toks), h)
  PROVE  AppendElements(r, toks) = h[Len(toks)]
<1> DEFINE n == Len(toks)
           Is(e) == e = [i \in 0..n |-> IF i = 0 THEN r ELSE AppendElement(e[i - 1], toks[i])]
           f == CHOOSE e : Is(e)
           t == [i \in 0..n |-> h[i]]
<1>1. n \in Nat
  OBVIOUS
<1>2. AppendElements(r, toks) = f[n]
  BY DEF AppendElements
<1>3. Is(t)
  <2>1. \A i \in 0..n : i = 0 \/ (i \in 1..n /\ i - 1 \in 0..n)
    BY <1>1
  <2>2. \A i \in 0..n : h[i] = IF i = 0 THEN r ELSE AppendElement(t[i - 1], toks[i])
    BY <1>1, <2>1 DEF Appends
  <2> QED
    BY <2>2, Zenon
<1>4. Is(f)
  BY <1>3
<1> HIDE DEF f
<1>5. f[0] = h[0]
  BY <1>1, <1>4 DEF Appends
<1>6. ASSUME NEW i \in 1..n, f[i - 1] = h[i - 1] PROVE f[i] = h[i]
  <2>1. i \in 0..n /\ i # 0
    BY <1>1
  <2>2. f[i] = AppendElement(f[i - 1], toks[i])
    BY <1>4, <2>1
  <2> QED
    BY <1>6, <2>2 DEF Appends
<1> HIDE DEF Is, n
<1>7. f[n] = h[n]
  BY <1>1, <1>5, <1>6, Agree
<1> QED
  BY <1>2, <1>7 DEF n

LEMMA AppendElementsGood ==
  ASSUME NEW r, NEW t, Appending(r, t), NEW toks \in Seq(Words)
  PROVE  Appending(AppendElements(r, toks), t)
<1> DEFINE n == Len(toks)
<1>1. n \in Nat /\ \A i \in 1..n : toks[i] \in Words
  OBVIOUS
<1>2. PICK h : Appends(r, toks, n, h)
  BY <1>1, AppendsExist
<1> DEFINE I == {i \in 0..n : Appending(h[i], t)}
<1> HIDE DEF n
<1>3. 0 \in I
  BY <1>1, <1>2 DEF Appends
<1>4. ASSUME NEW i \in 1..n, i - 1 \in I PROVE i \in I
  BY <1>1, <1>2, <1>4, AppendElementGood DEF Appends
<1> HIDE DEF I
<1>5. \A i \in 0..n : i \in I
  BY <1>1, <1>3, <1>4, InductTo
<1>6. n \in 0..n
  BY <1>1
<1> QED
  BY <1>1, <1>2, <1>5, <1>6, AppendElementsIs DEF I, n

\* A sequence of strings, put one behind the other, is a string.
LEMMA FlattenIn ==
  ASSUME NEW A, NEW s \in Seq(Seq(A))
  PROVE  FlattenSeq(s) \in Seq(A)
<1> DEFINE n == Len(s)
           B == Seq(A)
           Is(e) == e = [i \in 1..n |-> IF i = 1 THEN s[i] ELSE e[i - 1] \o s[i]]
           f == CHOOSE e : Is(e)
           step == [i \in 1..n |-> [x \in B |-> x \o s[i]]]
<1>1. n \in Nat /\ \A i \in 1..n : s[i] \in B
  OBVIOUS
<1>2. <<>> \in B
  OBVIOUS
<1>3. CASE n = 0
  BY <1>3 DEF FlattenSeq
<1>4. CASE n # 0
  <2>1. FlattenSeq(s) = f[n]
    BY <1>4 DEF FlattenSeq
  <2>2. StaysIn(step, n, B)
    BY <1>1 DEF StaysIn
  <2> HIDE DEF B
  <2>3. PICK h : Follows(h, <<>>, step, n, B)
    <3> HIDE DEF step, n
    <3> QED
      BY <1>1, <1>2, <2>2, StepsExist
  <2>4. ASSUME NEW i \in 1..n PROVE h[i] = h[i - 1] \o s[i] /\ h[i] \in B /\ h[i - 1] \in B
    <3>1. i \in 0..n /\ i - 1 \in 0..n
      BY <1>1
    <3> QED
      BY <2>3, <3>1 DEF Follows
  <2> DEFINE t == [i \in 1..n |-> h[i]]
  <2>5. ASSUME NEW i \in 1..n PROVE h[i] = IF i = 1 THEN s[i] ELSE t[i - 1] \o s[i]
    <3>1. CASE i = 1
      <4>1. h[i - 1] = <<>>
        BY <2>3, <3>1 DEF Follows
      <4>2. <<>> \o s[i] = s[i]
        BY <1>1 DEF B
      <4> QED
        BY <2>4, <3>1, <4>1, <4>2
    <3>2. CASE i # 1
      <4>1. i - 1 \in 1..n
        BY <1>1, <3>2
      <4> QED
        BY <2>4, <3>2, <4>1
    <3> QED
      BY <3>1, <3>2
  <2>6. Is(t)
    BY <2>5, Zenon
  <2>7. Is(f)
    BY <2>6
  <2> HIDE DEF f
  <2> DEFINE I == {i \in 0..n : i # 0 => f[i] \in B}
  <2>8. 0 \in I
    BY <1>1
  <2>9. ASSUME NEW i \in 1..n, i - 1 \in I PROVE i \in I
    <3>1. i \in 0..n
      BY <1>1
    <3>2. CASE i = 1
      <4>1. f[i] = s[i]
        BY <2>7, <3>2
      <4> QED
        BY <1>1, <3>1, <4>1
    <3>3. CASE i # 1
      <4>1. f[i] = f[i - 1] \o s[i]
        BY <2>7, <3>3
      <4>2. f[i - 1] \in B /\ s[i] \in B
        BY <1>1, <2>9, <3>3
      <4>3. f[i] \in B
        BY <4>1, <4>2 DEF B
      <4> QED
        BY <3>1, <4>3
    <3> QED
      BY <3>2, <3>3
  <2> HIDE DEF I, n
  <2>10. \A i \in 0..n : i \in I
    <3> HIDE DEF B
    <3> QED
      BY <1>1, <2>8, <2>9, InductTo
  <2>11. n \in 0..n
    BY <1>1
  <2>12. f[n] \in B
    BY <1>4, <2>10, <2>11 DEF I
  <2> QED
    BY <2>1, <2>12 DEF B
<1> QED
  BY <1>3, <1>4

LEMMA AppendStringGood ==
  ASSUME NEW r, NEW t, Denotes(r, t), IsPlace(r), FieldOf(r).kind = "string",
         NEW toks \in Seq(Words)
  PROVE  Rooted(AppendString(r, toks), t)
<1> DEFINE B == Seq(STRING)
           pieces == [i \in DOMAIN toks |-> Parse["string"][toks[i]]]
           v == Get(r) \o FlattenSeq(pieces)
<1>1. PICK S, h : Points(S, r, h)
  BY DEF Denotes
<1>2. Elements(S, FieldOf(r)) = B
  BY DEF Elements
<1>3. Get(r) \in B
  BY <1>1, <1>2, PointsStep
<1>4. ASSUME NEW i \in DOMAIN toks PROVE pieces[i] \in B
  <2>1. toks[i] \in Words
    OBVIOUS
  <2> QED
    BY <2>1, ParseAssumption
<1>5. DOMAIN toks = 1..Len(toks) /\ Len(toks) \in Nat
  OBVIOUS
<1> HIDE DEF B
<1>6. pieces \in Seq(B)
  BY <1>4, <1>5
<1> HIDE DEF pieces
<1>7. FlattenSeq(pieces) \in B
  BY <1>6, FlattenIn DEF B
<1>8. v \in B
  BY <1>3, <1>7 DEF B
<1>9. AppendString(r, toks) = Put(r, v)
  BY DEF AppendString, pieces
<1> HIDE DEF v
<1>10. Rooted(Put(r, v), r.root.type)
  BY <1>1, <1>2, <1>8, PutGood
<1> QED
  BY <1>9, <1>10 DEF Denotes

LEMMA AppendFieldGood ==
  ASSUME NEW r, NEW t, Followed(r, t), NEW toks \in Seq(Words)
  PROVE  Rooted(AppendField(r, toks), t)
<1>1. CASE r.err # None
  BY <1>1, EndedRooted DEF AppendField, Followed, Denotes
<1>2. CASE r.err = None
  <2>1. Denotes(r, t) /\ Rooted(r, t)
    BY <1>2, DenotesRooted DEF Followed, Ended
  <2>2. CASE IsArray(r) /\ ~IsArrayElement(r)
    <3>1. AppendField(r, toks) = AppendElements(r, toks)
      BY <1>2, <2>2 DEF AppendField
    <3>2. Appending(AppendElements(r, toks), t)
      BY <2>1, <2>2, AppendElementsGood DEF Appending
    <3> QED
      BY <3>1, <3>2, EndedRooted, DenotesRooted DEF Appending
  <2>3. CASE (IsArray(r) => IsArrayElement(r)) /\ FieldOf(r).kind = "string"
    <3>1. IsPlace(r)
      BY <2>3 DEF IsPlace, IsArray, IsArrayElement
    <3>2. AppendField(r, toks) = AppendString(r, toks)
      BY <1>2, <2>3 DEF AppendField
    <3> QED
      BY <2>1, <2>3, <3>1, <3>2, AppendStringGood
  <2>4. CASE (IsArray(r) => IsArrayElement(r)) /\ FieldOf(r).kind # "string"
    BY <1>2, <2>1, <2>4, ThrownRooted DEF AppendField
  <2> QED
    BY <2>2, <2>3, <2>4
<1> QED
  BY <1>1, <1>2

-----------------------------------------------------------------------------
(***************************************************************************)
(* What a command leaves in its key.                                       *)
(***************************************************************************)

LEMMA Entries ==
  /\ \A m, t : /\ Holds(Entry(m, t)) /\ Entry(m, t).msg = m /\ Entry(m, t).ttl = t
               /\ Entry(m, t) \notin {Missing, Foreign}
  /\ ~Holds(Missing) /\ ~Holds(Foreign) /\ Missing # Foreign
<1>1. Missing.kind = "missing" /\ Foreign.kind = "foreign"
  BY DEF Missing, Foreign
<1>2. \A m, t : Entry(m, t).kind = "message" /\ Entry(m, t).msg = m /\ Entry(m, t).ttl = t
  BY DEF Entry
<1> QED
  BY <1>1, <1>2 DEF Holds

\* A key that holds a message holds a well made one, with an expiry or without.
IsMessage(e) == e = Entry(e.msg, e.ttl) /\ e.ttl \in BOOLEAN /\ WellMade(e.msg)

IsEntry(e) == e \in {Missing, Foreign} \/ IsMessage(e)

LEMMA HoldsMessage ==
  ASSUME NEW e, IsEntry(e)
  PROVE  /\ Holds(e) <=> IsMessage(e)
         /\ ~Holds(e) => e \in {Missing, Foreign}
<1>1. ASSUME IsMessage(e) PROVE Holds(e)
  <2>1. e = Entry(e.msg, e.ttl)
    BY <1>1 DEF IsMessage
  <2>2. Holds(Entry(e.msg, e.ttl))
    BY Entries
  <2> QED
    BY <2>1, <2>2
<1>2. ASSUME e \in {Missing, Foreign} PROVE ~Holds(e)
  BY <1>2, Entries
<1> QED
  BY <1>1, <1>2 DEF IsEntry

\* The result r of command c on a key that held e.
Kept(e, c, r) ==
    /\ IsEntry(r.entry)
    /\ Holds(e) /\ Holds(r.entry) => r.entry.msg.type = e.msg.type
    /\ Holds(r.entry) =>
          /\ (Holds(e) /\ e.ttl /\ ~r.entry.ttl) =>
                c.op = "SET" /\ c.fields = <<>> /\ r.reply = Number(1)
          /\ (c.op = "SET" /\ c.ex /\ r.reply = Number(1)) => r.entry.ttl

\* Message m stays in a key that held e, if that is a message, and has the type c names.
Fits(e, c, m) ==
    WellMade(m) /\ (Holds(e) => m.type = e.msg.type)

LEMMA Replies ==
  /\ Number(0) # Number(1)
  /\ \A err : Stopped(None, err).reply # Number(1)
<1>1. Number(0).val = 0 /\ Number(1).val = 1
  BY DEF Number
<1>2. Number(1).kind = "number" /\ Abort.kind = "abort" /\ \A err : Error(err).kind = "error"
  BY DEF Number, Abort, Error
<1>3. \A err : Stopped(None, err).reply \in {Abort, Error(err)}
  BY DEF Stopped
<1> QED
  BY <1>1, <1>2, <1>3

LEMMA StoppedKept ==
  ASSUME NEW e, IsEntry(e), NEW c, NEW err
  PROVE  Kept(e, c, Stopped(e, err))
<1>1. Stopped(e, err).entry = e /\ Stopped(e, err).reply = Stopped(None, err).reply
  BY DEF Stopped
<1> QED
  BY <1>1, Replies DEF Kept

LEMMA DoneSame ==
  ASSUME NEW e, IsEntry(e), NEW c
  PROVE  Kept(e, c, Done(e, 0))
<1>1. Done(e, 0).entry = e /\ Done(e, 0).reply = Number(0)
  BY DEF Done
<1> QED
  BY <1>1, Replies DEF Kept

LEMMA NewEntry ==
  ASSUME NEW m, WellMade(m), NEW ttl \in BOOLEAN
  PROVE  IsEntry(Entry(m, ttl)) /\ Entry(m, ttl).msg = m /\ Entry(m, ttl).ttl = ttl
  BY Entries DEF IsEntry, IsMessage

\* The end of a command that worked on the target in place.
LEMMA FinishKept ==
  ASSUME NEW e, IsEntry(e), NEW c, NEW r, NEW n, NEW ttl \in BOOLEAN,
         WellMade(r.root), Holds(e) => r.root.type = e.msg.type,
         Holds(e) /\ e.ttl => ttl, c.op = "SET" /\ c.ex => ttl
  PROVE  Kept(e, c, Finish(e, r, ttl, n))
<1> DEFINE x == Finish(e, r, ttl, n)
<1>1. CASE r.err # None /\ Holds(e)
  <2> DEFINE q == Entry(r.root, e.ttl)
  <2>1. x = Stopped(q, r.err)
    BY <1>1 DEF Finish
  <2>2. IsEntry(q) /\ q.msg = r.root /\ q.ttl = e.ttl
    BY <1>1, NewEntry, HoldsMessage DEF IsMessage
  <2> HIDE DEF q
  <2>3. x.entry = q /\ x.reply = Stopped(None, r.err).reply
    BY <2>1 DEF Stopped
  <2> HIDE DEF x
  <2>4. Kept(e, c, x)
    BY <1>1, <2>2, <2>3, Replies DEF Kept
  <2> QED
    BY <2>4 DEF x
<1>2. CASE r.err # None /\ ~Holds(e)
  BY <1>2, StoppedKept DEF Finish
<1>3. CASE r.err = None
  <2> DEFINE q == Entry(r.root, ttl)
  <2>1. x = Done(q, n)
    BY <1>3 DEF Finish
  <2>2. IsEntry(q) /\ q.msg = r.root /\ q.ttl = ttl
    BY NewEntry
  <2> HIDE DEF q
  <2>3. x.entry = q
    BY <2>1 DEF Done
  <2> HIDE DEF x
  <2>4. Kept(e, c, x)
    BY <2>2, <2>3 DEF Kept
  <2> QED
    BY <2>4 DEF x
<1> QED
  BY <1>1, <1>2, <1>3

\* A command that is not refused names the type of the message its key holds.
LEMMA NotRefused ==
  ASSUME NEW e, NEW c, Refusal(e, c) = None
  PROVE  e # Foreign /\ (Holds(e) => e.msg.type = c.type) /\ (~Holds(e) => c.type \in Types)
<1>1. CASE e = Foreign
  BY <1>1, ErrorAssumption DEF Refusal
<1>2. CASE e # Foreign /\ Holds(e)
  BY <1>2, ErrorAssumption DEF Refusal
<1>3. CASE e # Foreign /\ ~Holds(e)
  BY <1>3, ErrorAssumption DEF Refusal
<1> QED
  BY <1>1, <1>2, <1>3

\* Where the path of a command leads in the message it works on.
LEMMA PathGood ==
  ASSUME NEW m, WellMade(m), NEW c \in Writes, c.fields # <<>>
  PROVE  Followed(MutableRef(m, PathOf(c)), m.type)
<1>1. PathOf(c).fields = c.fields /\ c.fields \in Seq(DOMAIN Index)
  BY WritesAssumption DEF PathOf
<1> QED
  BY <1>1, ResolveGood DEF MutableRef

LEMMA TargetGood ==
  ASSUME NEW e, IsEntry(e), NEW c, Refusal(e, c) = None
  PROVE  WellMade(Target(e, c)) /\ (Holds(e) => Target(e, c).type = e.msg.type)
  BY NotRefused, CreatedMade, HoldsMessage DEF IsMessage, Target

LEMMA WellMadeType == ASSUME NEW m, WellMade(m) PROVE m.type \in Types
  BY DEF WellMade, Full, Closed, MadeOf

LEMMA SetKept ==
  ASSUME NEW e, IsEntry(e), NEW c \in Writes, c.args # <<>>, Holds(e) => c.op = "SET"
  PROVE  Kept(e, c, Set(e, c))
<1>1. c.args[1] \in Words /\ c.ex \in BOOLEAN
  BY WritesAssumption
<1> DEFINE goes == e # Foreign /\ ~(c.opt = (IF Holds(e) THEN "NX" ELSE "XX"))
<1>2. CASE e = Foreign
  BY <1>2, StoppedKept DEF Set
<1>3. CASE e # Foreign /\ c.opt = (IF Holds(e) THEN "NX" ELSE "XX")
  BY <1>3, DoneSame DEF Set
<1>4. CASE goes /\ Refusal(e, c) # None
  BY <1>4, StoppedKept DEF Set
<1>5. CASE goes /\ Refusal(e, c) = None /\ c.fields = <<>>
  <2> DEFINE m == Parse[c.type][c.args[1]]
             q == Entry(m, c.ex)
  <2>1. Set(e, c) = IF m = None THEN Stopped(e, "bad value") ELSE Done(q, 1)
    BY <1>5 DEF Set, SetWhole
  <2>2. CASE m = None
    BY <2>1, <2>2, StoppedKept
  <2>3. CASE m # None
    <3>1. c.type \in Types /\ (Holds(e) => e.msg.type = c.type)
      BY <1>5, NotRefused, WellMadeType, HoldsMessage DEF IsMessage
    <3>2. WellMade(m) /\ m.type = c.type
      BY <1>1, <2>3, <3>1, ParsedMade
    <3> HIDE DEF m
    <3>3. IsEntry(q) /\ q.msg = m /\ q.ttl = c.ex
      BY <1>1, <3>2, NewEntry
    <3> HIDE DEF q
    <3>4. Done(q, 1).entry = q /\ Done(q, 1).reply = Number(1)
      BY DEF Done
    <3>5. Kept(e, c, Done(q, 1))
      <4> DEFINE x == Done(q, 1)
      <4> HIDE DEF x
      <4>1. x.entry = q /\ x.reply = Number(1)
        BY <3>4 DEF x
      <4>2. Holds(e) /\ Holds(q) => q.msg.type = e.msg.type
        BY <3>1, <3>2, <3>3
      <4>3. Holds(e) => c.op = "SET" /\ c.fields = <<>>
        BY <1>5
      <4>4. c.ex => q.ttl
        BY <3>3
      <4>5. Kept(e, c, x)
        BY <3>3, <4>1, <4>2, <4>3, <4>4 DEF Kept
      <4> QED
        BY <4>5 DEF x
    <3> QED
      BY <2>1, <2>3, <3>5
  <2> QED
    BY <2>2, <2>3
<1>6. CASE goes /\ Refusal(e, c) = None /\ c.fields # <<>>
  <2> DEFINE m == Target(e, c)
             r == SetField(MutableRef(m, PathOf(c)), c.args[1])
             ttl == c.ex \/ (Holds(e) /\ e.ttl)
  <2>1. Set(e, c) = Finish(e, r, ttl, 1)
    BY <1>6 DEF Set
  <2>2. WellMade(m) /\ (Holds(e) => m.type = e.msg.type)
    BY <1>6, TargetGood
  <2> HIDE DEF m
  <2>3. Rooted(r, m.type)
    BY <1>1, <1>6, <2>2, PathGood, SetFieldGood
  <2>4. ttl \in BOOLEAN
    BY <1>1
  <2> HIDE DEF r, ttl
  <2>5. Kept(e, c, Finish(e, r, ttl, 1))
    BY <2>2, <2>3, <2>4, FinishKept DEF Rooted, ttl
  <2> QED
    BY <2>1, <2>5
<1> QED
  BY <1>2, <1>3, <1>4, <1>5, <1>6

\* The commands other than PB.SET keep the expiry as it is.
LEMMA InPlaceKept ==
  ASSUME NEW e, IsEntry(e), NEW c, c.op # "SET", NEW r, NEW n, NEW ttl,
         ttl = (Holds(e) /\ e.ttl), WellMade(r.root), Holds(e) => r.root.type = e.msg.type
  PROVE  Kept(e, c, Finish(e, r, ttl, n))
<1>1. ttl \in BOOLEAN /\ (Holds(e) /\ e.ttl => ttl)
  BY HoldsMessage DEF IsMessage
<1> QED
  BY <1>1, FinishKept

LEMMA ReplacedKept ==
  ASSUME NEW e, IsEntry(e), Holds(e), NEW c, c.op # "SET", NEW m, WellMade(m),
         m.type = e.msg.type, NEW n
  PROVE  Kept(e, c, Done(Entry(m, e.ttl), n))
<1> DEFINE q == Entry(m, e.ttl)
<1>1. IsEntry(q) /\ q.msg = m /\ q.ttl = e.ttl
  BY NewEntry, HoldsMessage DEF IsMessage
<1> HIDE DEF q
<1> DEFINE x == Done(q, n)
<1>2. x.entry = q
  BY DEF Done
<1> HIDE DEF x
<1>3. Kept(e, c, x)
  BY <1>1, <1>2 DEF Kept
<1> QED
  BY <1>3 DEF x, q

LEMMA AppendKept ==
  ASSUME NEW e, IsEntry(e), NEW c \in Writes, c.op # "SET"
  PROVE  Kept(e, c, AppendCmd(e, c))
<1>1. CASE c.fields = <<>>
  BY <1>1, StoppedKept DEF AppendCmd
<1>2. CASE c.fields # <<>> /\ Refusal(e, c) # None
  BY <1>2, StoppedKept DEF AppendCmd
<1>3. CASE c.fields # <<>> /\ Refusal(e, c) = None
  <2> DEFINE m == Target(e, c)
             r == AppendField(MutableRef(m, PathOf(c)), c.args)
             ttl == Holds(e) /\ e.ttl
             n == IF r.err # None THEN 0
                  ELSE IF IsArray(r) /\ ~IsArrayElement(r) THEN Size(r) ELSE Len(Get(r))
  <2>1. AppendCmd(e, c) = Finish(e, r, ttl, n)
    BY <1>3 DEF AppendCmd, Appended
  <2>2. WellMade(m) /\ (Holds(e) => m.type = e.msg.type)
    BY <1>3, TargetGood
  <2> HIDE DEF m
  <2>3. Rooted(r, m.type)
    BY <1>3, <2>2, PathGood, AppendFieldGood, WritesAssumption
  <2> HIDE DEF r, n
  <2>4. Kept(e, c, Finish(e, r, ttl, n))
    BY <2>2, <2>3, InPlaceKept DEF Rooted
  <2> QED
    BY <2>1, <2>4
<1> QED
  BY <1>1, <1>2, <1>3

\* A command on a key that holds a message, after the checks they share.
LEMMA HeldNow ==
  ASSUME NEW e, IsEntry(e), e # Missing, NEW c, Refusal(e, c) = None
  PROVE  Holds(e) /\ WellMade(e.msg) /\ e.msg.type = c.type /\ c.type \in Types
         /\ e.ttl = (Holds(e) /\ e.ttl)
<1>1. Holds(e) /\ e.msg.type = c.type
  BY NotRefused, HoldsMessage
<1>2. WellMade(e.msg) /\ e.ttl \in BOOLEAN
  BY <1>1, HoldsMessage DEF IsMessage
<1>3. e.ttl = (Holds(e) /\ e.ttl)
  BY <1>1, <1>2
<1> QED
  BY <1>1, <1>2, <1>3, WellMadeType

LEMMA DelKept ==
  ASSUME NEW e, IsEntry(e), NEW c \in Writes, c.op # "SET"
  PROVE  Kept(e, c, DelCmd(e, c))
<1>1. CASE e = Missing
  BY <1>1, DoneSame DEF DelCmd
<1>2. CASE e # Missing /\ Refusal(e, c) # None
  BY <1>2, StoppedKept DEF DelCmd
<1>3. CASE e # Missing /\ Refusal(e, c) = None /\ c.fields = <<>>
  <2>1. DelCmd(e, c).entry = Missing
    BY <1>3 DEF DelCmd, Done
  <2> QED
    BY <2>1, Entries DEF Kept, IsEntry
<1>4. CASE e # Missing /\ Refusal(e, c) = None /\ c.fields # <<>>
  <2> DEFINE r == DelField(MutableRef(e.msg, PathOf(c)))
  <2>1. Holds(e) /\ WellMade(e.msg) /\ e.ttl = (Holds(e) /\ e.ttl)
    BY <1>4, HeldNow
  <2>2. DelCmd(e, c) = Finish(e, r, e.ttl, 1)
    BY <1>4 DEF DelCmd
  <2>3. Rooted(r, e.msg.type)
    BY <1>4, <2>1, PathGood, DelFieldGood
  <2> HIDE DEF r
  <2>4. Kept(e, c, Finish(e, r, e.ttl, 1))
    BY <2>1, <2>3, InPlaceKept DEF Rooted
  <2> QED
    BY <2>2, <2>4
<1> QED
  BY <1>1, <1>2, <1>3, <1>4

LEMMA ClearKept ==
  ASSUME NEW e, IsEntry(e), NEW c \in Writes, c.op # "SET"
  PROVE  Kept(e, c, ClearCmd(e, c))
<1>1. CASE e = Missing
  BY <1>1, DoneSame DEF ClearCmd
<1>2. CASE e # Missing /\ Refusal(e, c) # None
  BY <1>2, StoppedKept DEF ClearCmd
<1>3. CASE e # Missing /\ Refusal(e, c) = None /\ c.fields = <<>>
  <2>1. ClearCmd(e, c) = Done(Entry(Create(c.type), e.ttl), 1)
    BY <1>3 DEF ClearCmd
  <2>2. Holds(e) /\ e.msg.type = c.type /\ c.type \in Types
    BY <1>3, HeldNow
  <2>3. WellMade(Create(c.type)) /\ Create(c.type).type = e.msg.type
    BY <2>2, CreatedMade
  <2>4. Kept(e, c, Done(Entry(Create(c.type), e.ttl), 1))
    BY <2>2, <2>3, ReplacedKept
  <2> QED
    BY <2>1, <2>4
<1>4. CASE e # Missing /\ Refusal(e, c) = None /\ c.fields # <<>>
  <2> DEFINE r == ClearField(MutableRef(e.msg, PathOf(c)))
  <2>1. Holds(e) /\ WellMade(e.msg) /\ e.ttl = (Holds(e) /\ e.ttl)
    BY <1>4, HeldNow
  <2>2. ClearCmd(e, c) = Finish(e, r, e.ttl, 1)
    BY <1>4 DEF ClearCmd
  <2>3. Rooted(r, e.msg.type)
    BY <1>4, <2>1, PathGood, ClearFieldGood
  <2> HIDE DEF r
  <2>4. Kept(e, c, Finish(e, r, e.ttl, 1))
    BY <2>1, <2>3, InPlaceKept DEF Rooted
  <2> QED
    BY <2>2, <2>4
<1> QED
  BY <1>1, <1>2, <1>3, <1>4

LEMMA MergedMade ==
  ASSUME NEW a, WellMade(a), NEW b, WellMade(b), a.type = b.type
  PROVE  WellMade(MergeFrom(a, b)) /\ MergeFrom(a, b).type = a.type
<1>1. PICK S : Full(S) /\ a \in S
  BY DEF WellMade
<1>2. PICK T : Full(T) /\ b \in T
  BY DEF WellMade
<1> DEFINE U == S \cup T
<1>3. Full(U) /\ a \in U /\ b \in U
  BY <1>1, <1>2, FullUnion
<1> HIDE DEF U
<1>4. MergeFrom(a, b).type = a.type
  BY <1>3, MergeFromMade
<1>5. PICK V : Full(V) /\ U \subseteq V /\ MergeFrom(a, b) \in V
  BY <1>3, MergeFromMade
<1> QED
  BY <1>4, <1>5 DEF WellMade

LEMMA MergeKept ==
  ASSUME NEW e, IsEntry(e), NEW c \in Writes, c.op # "SET", c.args # <<>>
  PROVE  Kept(e, c, MergeCmd(e, c))
<1>1. c.args[1] \in Words
  BY WritesAssumption
<1>2. CASE e = Missing
  <2> DEFINE r == Set(e, c)
  <2>1. Kept(e, c, r)
    BY <1>2, SetKept, Entries
  <2> HIDE DEF r
  <2>2. MergeMissing(r).entry = r.entry
    BY DEF MergeMissing
  <2>3. MergeCmd(e, c) = MergeMissing(r)
    BY <1>2 DEF MergeCmd, r
  <2>4. ~Holds(e)
    BY <1>2, Entries
  <2> DEFINE x == MergeMissing(r)
  <2> HIDE DEF x
  <2>5. Kept(e, c, x)
    BY <2>1, <2>2, <2>4 DEF Kept, x
  <2> QED
    BY <2>3, <2>5 DEF x
<1>3. CASE e # Missing /\ Refusal(e, c) # None
  BY <1>3, StoppedKept DEF MergeCmd
<1>4. CASE e # Missing /\ Refusal(e, c) = None /\ c.fields = <<>>
  <2> DEFINE other == Parse[c.type][c.args[1]]
  <2>1. /\ Holds(e) /\ WellMade(e.msg) /\ e.msg.type = c.type /\ c.type \in Types
    BY <1>4, HeldNow
  <2>2. MergeCmd(e, c) = IF other = None THEN Stopped(e, "bad value")
                         ELSE Done(Entry(MergeFrom(e.msg, other), e.ttl), 1)
    BY <1>4 DEF MergeCmd, MergeMsg
  <2>3. CASE other = None
    BY <2>2, <2>3, StoppedKept
  <2>4. CASE other # None
    <3>1. WellMade(other) /\ other.type = c.type
      BY <1>1, <2>1, <2>4, ParsedMade
    <3> HIDE DEF other
    <3>2. WellMade(MergeFrom(e.msg, other)) /\ MergeFrom(e.msg, other).type = e.msg.type
      BY <2>1, <3>1, MergedMade
    <3>3. Kept(e, c, Done(Entry(MergeFrom(e.msg, other), e.ttl), 1))
      BY <2>1, <3>2, ReplacedKept
    <3> QED
      BY <2>2, <2>4, <3>3
  <2> QED
    BY <2>3, <2>4
<1>5. CASE e # Missing /\ Refusal(e, c) = None /\ c.fields # <<>>
  <2> DEFINE r == MergeField(MutableRef(e.msg, PathOf(c)), c.args[1])
  <2>1. Holds(e) /\ WellMade(e.msg) /\ e.ttl = (Holds(e) /\ e.ttl)
    BY <1>5, HeldNow
  <2>2. MergeCmd(e, c) = Finish(e, r, e.ttl, 1)
    BY <1>5 DEF MergeCmd
  <2>3. Rooted(r, e.msg.type)
    BY <1>1, <1>5, <2>1, PathGood, MergeFieldGood
  <2> HIDE DEF r
  <2>4. Kept(e, c, Finish(e, r, e.ttl, 1))
    BY <2>1, <2>3, InPlaceKept DEF Rooted
  <2> QED
    BY <2>2, <2>4
<1> QED
  BY <1>2, <1>3, <1>4, <1>5

LEMMA ExecuteKept ==
  ASSUME NEW e, IsEntry(e), NEW c \in Writes
  PROVE  Kept(e, c, Execute(e, c))
<1>1. CASE c.op = "SET"
  BY <1>1, SetKept, WritesAssumption DEF Execute
<1>2. CASE c.op = "APPEND"
  BY <1>2, AppendKept DEF Execute
<1>3. CASE c.op = "MERGE"
  BY <1>3, MergeKept, WritesAssumption DEF Execute
<1>4. CASE c.op = "DEL"
  BY <1>4, DelKept DEF Execute
<1>5. CASE c.op = "CLEAR"
  BY <1>5, ClearKept DEF Execute
<1> QED
  BY <1>1, <1>2, <1>3, <1>4, <1>5, WritesAssumption

-----------------------------------------------------------------------------
(***************************************************************************)
(* A well made message conforms to its descriptor.                         *)
(***************************************************************************)

\* Fills, part by part.
LEMMA FillsParts ==
  ASSUME NEW S, NEW fd, IsFd(fd), NEW v, Fills(S, fd, v)
  PROVE  /\ fd.label = "array" => \A i \in DOMAIN v : v[i] \in Elements(S, fd)
         /\ fd.label = "map" => \A k \in DOMAIN v : v[k] \in Elements(S, fd)
         /\ (fd.label = "one" /\ fd.kind = "msg") =>
               Len(v) <= 1 /\ (v # <<>> => v[1] \in Elements(S, fd))
         /\ (fd.label = "one" /\ fd.kind # "msg") => v \in Elements(S, fd)
<1>1. ASSUME fd.label = "array" PROVE \A i \in DOMAIN v : v[i] \in Elements(S, fd)
  <2>1. v \in Seq(Elements(S, fd))
    BY <1>1 DEF Fills
  <2> QED
    BY <2>1
<1>2. ASSUME fd.label = "map" PROVE \A k \in DOMAIN v : v[k] \in Elements(S, fd)
  BY <1>2 DEF Fills
<1>3. ASSUME fd.label = "one", fd.kind = "msg"
      PROVE  Len(v) <= 1 /\ (v # <<>> => v[1] \in Elements(S, fd))
  <2>1. v = <<>> \/ \E m \in Elements(S, fd) : v = <<m>>
    BY <1>3 DEF Fills
  <2>2. ASSUME NEW m \in Elements(S, fd), v = <<m>> PROVE Len(v) = 1 /\ v[1] = m
    BY <2>2
  <2> QED
    BY <2>1, <2>2
<1>4. ASSUME fd.label = "one", fd.kind # "msg" PROVE v \in Elements(S, fd)
  BY <1>4 DEF Fills
<1> QED
  BY <1>1, <1>2, <1>3, <1>4

\* What a level of a message must be, its own messages aside.
LEMMA TopConforms ==
  ASSUME NEW S, Closed(S), NEW m \in S
  PROVE  TopOK(m)
<1>1. MadeOf(S, m)
  BY DEF Closed
<1>2. DOMAIN m.val = DOMAIN Schema[m.type] /\ m.type \in Types
  BY <1>1 DEF MadeOf
<1>3. ASSUME NEW f \in DOMAIN m.val PROVE FieldOK(LAMBDA r : TRUE, Field(m, f), m.val[f])
  <2> DEFINE fd == Field(m, f)  v == m.val[f]
  <2>1. IsFd(fd) /\ Fills(S, fd, v)
    BY <1>1, <1>2, SchemaFd DEF MadeOf, Field
  <2> HIDE DEF fd, v
  <2>2. \A x \in Elements(S, fd) : ElementOK(LAMBDA r : TRUE, fd, x)
    BY <2>1 DEF ElementOK, Elements, IsFd
  <2> QED
    BY <2>1, <2>2, FillsParts DEF FieldOK, ElementOK, IsFd, fd, v
<1> QED
  BY <1>2, <1>3 DEF TopOK, LevelOK, FieldOK, ElementOK

LEMMA WellMadeConforms ==
  ASSUME NEW m, WellMade(m)
  PROVE  Conforms(m)
<1>1. PICK S : Closed(S) /\ m \in S
  BY DEF WellMade, Full
<1>2. MadeOf(S, m)
  BY <1>1 DEF Closed
<1>3. DOMAIN m.val = DOMAIN Schema[m.type] /\ m.type \in Types
  BY <1>2 DEF MadeOf
<1>4. \A s \in S : TopOK(s)
  BY <1>1, TopConforms
<1>5. ASSUME NEW f \in DOMAIN m.val PROVE FieldOK(TopOK, Field(m, f), m.val[f])
  <2> DEFINE fd == Field(m, f)  v == m.val[f]
  <2>1. IsFd(fd) /\ Fills(S, fd, v)
    BY <1>2, <1>3, SchemaFd DEF MadeOf, Field
  <2> HIDE DEF fd, v
  <2>2. \A x \in Elements(S, fd) : ElementOK(TopOK, fd, x)
    BY <1>4, <2>1 DEF ElementOK, Elements, IsFd
  <2> QED
    BY <2>1, <2>2, FillsParts DEF FieldOK, ElementOK, IsFd, fd, v
<1> QED
  BY <1>3, <1>5 DEF Conforms, LevelOK, FieldOK, ElementOK

-----------------------------------------------------------------------------
(***************************************************************************)
(* The invariant: every key holds what commands leave.                     *)
(***************************************************************************)

Made ==
    /\ up \in BOOLEAN
    /\ db = [k \in Keys |-> db[k]]
    /\ \A k \in Keys : IsEntry(db[k])

LEMMA NoEntry == IsEntry(Missing) /\ IsEntry(Foreign)
  BY DEF IsEntry

\* The database with one key changed.
LEMMA OneKey ==
  ASSUME NEW K, NEW d, d = [k \in K |-> d[k]], \A k \in K : IsEntry(d[k]),
         NEW j \in K, NEW e, IsEntry(e), NEW x, x = [d EXCEPT ![j] = e]
  PROVE  x = [k \in K |-> x[k]] /\ \A k \in K : IsEntry(x[k])
<1>1. x = [k \in K |-> IF k = j THEN e ELSE d[k]]
  OBVIOUS
<1> QED
  BY <1>1

LEMMA AllGone ==
  ASSUME NEW K, NEW x, x = [k \in K |-> Missing]
  PROVE  x = [k \in K |-> x[k]] /\ \A k \in K : IsEntry(x[k])
  BY NoEntry

LEMMA InitMade == Init => Made
  BY AllGone DEF Init, Made

LEMMA CommandMade ==
  ASSUME Made, NEW k \in Keys, NEW c \in Writes, Command(k, c)
  PROVE  Made'
<1> DEFINE r == Execute(db[k], c)
<1>1. IsEntry(r.entry)
  BY ExecuteKept DEF Made, Kept
<1>2. up' \in BOOLEAN
  BY DEF Command, Effect, Made
<1>3. \/ db' = [j \in Keys |-> Missing]
      \/ db' = [db EXCEPT ![k] = r.entry]
  BY DEF Command, Effect
<1> HIDE DEF r
<1>4. CASE db' = [j \in Keys |-> Missing]
  BY <1>2, <1>4, AllGone DEF Made
<1>5. CASE db' = [db EXCEPT ![k] = r.entry]
  <2>1. db' = [j \in Keys |-> db'[j]] /\ \A j \in Keys : IsEntry(db'[j])
    BY <1>1, <1>5, OneKey DEF Made
  <2> QED
    BY <1>2, <2>1 DEF Made
<1> QED
  BY <1>3, <1>4, <1>5

LEMMA NativeMade ==
  ASSUME Made, NEW k \in Keys, NativeSet(k) \/ NativeDel(k) \/ Expire(k)
  PROVE  Made'
<1>1. \E e \in {Missing, Foreign} : db' = [db EXCEPT ![k] = e]
  BY DEF NativeSet, NativeDel, Expire
<1>2. PICK e \in {Missing, Foreign} : db' = [db EXCEPT ![k] = e]
  BY <1>1
<1>3. IsEntry(e)
  BY NoEntry
<1>4. db' = [j \in Keys |-> db'[j]] /\ \A j \in Keys : IsEntry(db'[j])
  BY <1>2, <1>3, OneKey DEF Made
<1>5. up' = up
  BY DEF NativeSet, NativeDel, Expire
<1> QED
  BY <1>4, <1>5 DEF Made

LEMMA NextMade == Made /\ [Next]_storeVars => Made'
<1> SUFFICES ASSUME Made, [Next]_storeVars PROVE Made'
  OBVIOUS
<1>1. CASE UNCHANGED storeVars
  BY <1>1 DEF Made, storeVars
<1>2. CASE Next
  BY <1>2, CommandMade, NativeMade DEF Next
<1> QED
  BY <1>1, <1>2

LEMMA SpecMade == Spec => []Made
  BY InitMade, NextMade, PTL DEF Spec

\* Whatever commands are run, every message a key holds is made as its descriptor says:
\* no path, whatever it names or where it stops, puts a value of the wrong kind anywhere.
THEOREM MessagesConform == Spec => []TypeOK
<1>1. Made => TypeOK
  <2> SUFFICES ASSUME Made, NEW k \in Keys, Holds(db[k])
               PROVE  db[k].ttl \in BOOLEAN /\ db[k].msg.type \in Types /\ Conforms(db[k].msg)
    BY DEF Made, TypeOK
  <2>1. db[k].ttl \in BOOLEAN /\ WellMade(db[k].msg)
    BY HoldsMessage DEF Made, IsMessage
  <2> QED
    BY <2>1, WellMadeType, WellMadeConforms
<1> QED
  BY <1>1, SpecMade, PTL

\* The expiry of a key outlives every command but a PB.SET of the whole message, and
\* PB.SET with --EX or --PX sets one.
THEOREM ExpirySurvives == Spec => []ExpiryKept
<1>1. Made => ExpiryKept
  <2> SUFFICES ASSUME Made, NEW k \in Keys, NEW c \in Writes
               PROVE  LET e == db[k]  r == Execute(db[k], c) IN
                      Holds(r.entry) =>
                         /\ (Holds(e) /\ e.ttl /\ ~r.entry.ttl) =>
                               c.op = "SET" /\ c.fields = <<>> /\ r.reply = Number(1)
                         /\ (c.op = "SET" /\ c.ex /\ r.reply = Number(1)) => r.entry.ttl
    BY DEF ExpiryKept, EveryResult
  <2>1. Kept(db[k], c, Execute(db[k], c))
    BY ExecuteKept DEF Made
  <2> QED
    BY <2>1 DEF Kept
<1> QED
  BY <1>1, SpecMade, PTL

\* What the key holds keeps its type for as long as it is a message.
LEMMA NextSticks ==
  ASSUME Made, Next, NEW k \in Keys, Holds(db[k]), Holds(db[k]')
  PROVE  db[k].msg.type = db[k]'.msg.type
<1>1. PICK j \in Keys : \/ \E c \in Writes : Command(j, c)
                        \/ NativeSet(j) \/ NativeDel(j) \/ Expire(j)
  BY DEF Next
<1>2. CASE NativeSet(j) \/ NativeDel(j) \/ Expire(j)
  <2>1. PICK e \in {Missing, Foreign} : db' = [db EXCEPT ![j] = e]
    BY <1>2 DEF NativeSet, NativeDel, Expire
  <2>2. db'[j] = e /\ (k # j => db'[k] = db[k])
    BY <2>1 DEF Made
  <2> QED
    BY <2>2, Entries
<1>3. CASE \E c \in Writes : Command(j, c)
  <2>1. PICK c \in Writes : Command(j, c)
    BY <1>3
  <2> DEFINE r == Execute(db[j], c)
  <2>2. Kept(db[j], c, r)
    BY ExecuteKept DEF Made
  <2>3. db' = [i \in Keys |-> Missing] \/ db' = [db EXCEPT ![j] = r.entry]
    BY <2>1 DEF Command, Effect
  <2> HIDE DEF r
  <2>4. CASE db' = [i \in Keys |-> Missing]
    BY <2>4, Entries
  <2>5. CASE db' = [db EXCEPT ![j] = r.entry]
    <3>1. db'[j] = r.entry /\ (k # j => db'[k] = db[k])
      BY <2>5 DEF Made
    <3> QED
      BY <2>2, <3>1 DEF Kept
  <2> QED
    BY <2>3, <2>4, <2>5
<1> QED
  BY <1>1, <1>2, <1>3

\* A key never turns from one message type to another, whatever commands name it: it is
\* deleted in between.
THEOREM TypesStick == Spec => TypeSticks
<1> DEFINE A == \A k \in Keys :
                  Holds(db[k]) /\ Holds(db[k]') => db[k].msg.type = db[k]'.msg.type
<1>1. Made /\ [Next]_storeVars => [A]_storeVars
  BY NextSticks
<1> QED
  BY <1>1, SpecMade, PTL DEF Spec, TypeSticks
=============================================================================
