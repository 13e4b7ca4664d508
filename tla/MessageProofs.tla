----------------------------- MODULE MessageProofs -----------------------------
(***************************************************************************)
(* Messages and the places in them, for every schema: whatever is put at   *)
(* an address is what the address leads to afterwards, and messages stay   *)
(* made as their descriptors say.  Then paths: where the references that read*)
(* and write follow a path to, and how far they go the same way.           *)
(*                                                                         *)
(* Messages nest to any depth, so being well made is not defined by        *)
(* recursion: a message is well made when it belongs to a closed set.      *)
(***************************************************************************)
EXTENDS FieldRef, Iteration, SequenceTheorems

IsFd(fd) ==
    /\ fd.label \in {"one", "array", "map"}
    /\ fd.kind \in {"int", "string", "msg"}
    /\ fd.kind = "msg" => fd.of \in Types

LEMMA SchemaFd ==
  ASSUME NEW t \in Types, NEW f \in DOMAIN Schema[t]
  PROVE  IsFd(Schema[t][f])
  BY SchemaAssumption DEF IsFd, Types

\* A closed set with an empty message of every type.
Full(S) == Closed(S) /\ \A t \in Types : Create(t) \in S

WellMade(m) == \E S : Full(S) /\ m \in S

-----------------------------------------------------------------------------
(***************************************************************************)
(* Closed sets.                                                            *)
(***************************************************************************)

LEMMA ElementsMore ==
  ASSUME NEW S, NEW T, S \subseteq T, NEW fd, IsFd(fd)
  PROVE  Elements(S, fd) \subseteq Elements(T, fd)
  BY DEF Elements, IsFd

LEMMA FillsMore ==
  ASSUME NEW S, NEW T, S \subseteq T, NEW fd, IsFd(fd), NEW v, Fills(S, fd, v)
  PROVE  Fills(T, fd, v)
<1> DEFINE A == Elements(S, fd)  B == Elements(T, fd)
<1>1. A \subseteq B
  BY ElementsMore
<1> HIDE DEF A, B
<1>2. v \in Seq(A) => v \in Seq(B)
  BY <1>1
<1>3. CASE fd.label = "array"
  BY <1>2, <1>3 DEF Fills, A, B
<1>4. CASE fd.label = "map"
  BY <1>1, <1>4 DEF Fills, A, B
<1>5. CASE fd.label = "one" /\ fd.kind = "msg"
  BY <1>1, <1>5 DEF Fills, A, B
<1>6. CASE fd.label = "one" /\ fd.kind # "msg"
  BY <1>1, <1>6 DEF Fills, A, B
<1> QED
  BY <1>3, <1>4, <1>5, <1>6 DEF IsFd

LEMMA MadeOfMore ==
  ASSUME NEW S, NEW T, S \subseteq T, NEW m, MadeOf(S, m)
  PROVE  MadeOf(T, m)
<1>1. m.type \in Types /\ DOMAIN m.val = DOMAIN Schema[m.type]
  BY DEF MadeOf
<1>2. ASSUME NEW f \in DOMAIN m.val PROVE Fills(T, Schema[m.type][f], m.val[f])
  BY <1>1, SchemaFd, FillsMore DEF MadeOf
<1> QED
  BY <1>2 DEF MadeOf

\* A message made of the messages of a full set can be added to it.
LEMMA FullAdd ==
  ASSUME NEW S, Full(S), NEW m, MadeOf(S, m)
  PROVE  Full(S \cup {m})
<1>1. ASSUME NEW x \in S \cup {m} PROVE MadeOf(S \cup {m}, x)
  BY MadeOfMore DEF Full, Closed
<1> QED
  BY <1>1 DEF Full, Closed

LEMMA FullUnion ==
  ASSUME NEW S, Full(S), NEW T, Full(T)
  PROVE  Full(S \cup T)
<1>1. ASSUME NEW x \in S \cup T PROVE MadeOf(S \cup T, x)
  BY MadeOfMore DEF Full, Closed
<1> QED
  BY <1>1 DEF Full, Closed

LEMMA ZeroFills ==
  ASSUME NEW S, NEW fd, IsFd(fd)
  PROVE  Fills(S, fd, Zero(fd))
<1>1. \A A : <<>> \in Seq(A)
  OBVIOUS
<1>2. <<>> = [k \in DOMAIN <<>> |-> <<>>[k]] /\ \A k \in DOMAIN <<>> : FALSE
  OBVIOUS
<1>3. CASE fd.label = "array"
  BY <1>1, <1>3 DEF Fills, Zero
<1>4. CASE fd.label = "map"
  BY <1>2, <1>4 DEF Fills, Zero
<1>5. CASE fd.label = "one" /\ fd.kind = "msg"
  BY <1>5 DEF Fills, Zero
<1>6. CASE fd.label = "one" /\ fd.kind = "string"
  <2>1. Elements(S, fd) = Seq(STRING) /\ Zero(fd) = <<>>
    BY <1>6 DEF Elements, Zero
  <2>2. Zero(fd) \in Elements(S, fd)
    BY <1>1, <2>1
  <2> QED
    BY <1>6, <2>2 DEF Fills
<1>7. CASE fd.label = "one" /\ fd.kind = "int"
  BY <1>7 DEF Fills, Zero, Elements
<1> QED
  BY <1>3, <1>4, <1>5, <1>6, <1>7 DEF IsFd

LEMMA CreateMade ==
  ASSUME NEW S, NEW t \in Types
  PROVE  MadeOf(S, Create(t)) /\ Create(t).type = t
<1> DEFINE m == Create(t)
<1>1. /\ m = [type |-> m.type, val |-> m.val] /\ m.type = t
      /\ m.val = [f \in DOMAIN Schema[t] |-> m.val[f]]
  BY DEF Create
<1>2. ASSUME NEW f \in DOMAIN m.val PROVE Fills(S, Schema[t][f], m.val[f])
  <2>1. f \in DOMAIN Schema[t]
    BY <1>1
  <2>2. m.val[f] = Zero(Schema[t][f])
    BY <2>1 DEF Create
  <2> QED
    BY <2>1, <2>2, SchemaFd, ZeroFills
<1> HIDE DEF m
<1>3. MadeOf(S, m) /\ m.type = t
  BY <1>1, <1>2 DEF MadeOf
<1> QED
  BY <1>3 DEF m

\* The empty messages alone are a full set, and any closed set becomes one with them.
LEMMA FullFrom ==
  ASSUME NEW S, Closed(S)
  PROVE  Full(S \cup {Create(t) : t \in Types})
<1> DEFINE T == S \cup {Create(t) : t \in Types}
<1>1. ASSUME NEW x \in T PROVE MadeOf(T, x)
  <2>1. CASE x \in S
    BY <2>1, MadeOfMore DEF Closed
  <2>2. CASE x \in {Create(t) : t \in Types}
    BY <2>2, CreateMade
  <2> QED
    BY <2>1, <2>2
<1> QED
  BY <1>1 DEF Full, Closed

LEMMA ElementZeroIn ==
  ASSUME NEW S, Full(S), NEW fd, IsFd(fd)
  PROVE  ElementZero(fd) \in Elements(S, fd)
<1>1. <<>> \in Seq(STRING)
  OBVIOUS
<1>2. CASE fd.kind = "msg"
  BY <1>2, CreateMade DEF Full, ElementZero, Elements, IsFd
<1>3. CASE fd.kind = "string"
  <2>1. Elements(S, fd) = Seq(STRING) /\ ElementZero(fd) = <<>>
    BY <1>3 DEF Elements, ElementZero
  <2> QED
    BY <1>1, <2>1
<1>4. CASE fd.kind = "int"
  BY <1>4 DEF ElementZero, Elements
<1> QED
  BY <1>2, <1>3, <1>4 DEF IsFd

-----------------------------------------------------------------------------
(***************************************************************************)
(* One step into a message.                                                *)
(***************************************************************************)

\* Step s names a field of m, and of an array an element that is there.
StepOK(m, s) ==
    /\ s.field \in DOMAIN Schema[m.type]
    /\ Field(m, s.field).label = "array" => s.sel \in 0..(Len(m.val[s.field]) - 1)

\* w is m with x in field f.
Changed(m, f, x, w) ==
    /\ w = [type |-> w.type, val |-> w.val] /\ w.type = m.type
    /\ w.val = [g \in DOMAIN m.val |-> w.val[g]]
    /\ w.val[f] = x
    /\ \A g \in DOMAIN m.val \ {f} : w.val[g] = m.val[g]

\* m is a record with a value in every field of its type.
Shaped(m) ==
    /\ m = [type |-> m.type, val |-> m.val]
    /\ m.val = [f \in DOMAIN Schema[m.type] |-> m.val[f]]

LEMMA MadeShaped ==
  ASSUME NEW S, NEW m, MadeOf(S, m)
  PROVE  Shaped(m)
  BY DEF MadeOf, Shaped

LEMMA FieldChanged ==
  ASSUME NEW m, Shaped(m), NEW f \in DOMAIN Schema[m.type], NEW x
  PROVE  Changed(m, f, x, [m EXCEPT !.val[f] = x])
<1> DEFINE v == m.val
           u == [v EXCEPT ![f] = x]
           w == [type |-> m.type, val |-> u]
<1>1. m = [type |-> m.type, val |-> v] /\ f \in DOMAIN v /\ v = [g \in DOMAIN v |-> v[g]]
  BY DEF Shaped
<1>2. [m EXCEPT !.val[f] = x] = w
  BY <1>1
<1>3. u = [g \in DOMAIN v |-> u[g]] /\ u[f] = x /\ \A g \in DOMAIN v \ {f} : u[g] = v[g]
  BY <1>1
<1> HIDE DEF u
<1>4. Changed(m, f, x, w)
  BY <1>3 DEF Changed
<1> QED
  BY <1>2, <1>4

LEMMA ChangedMade ==
  ASSUME NEW S, NEW m, MadeOf(S, m), NEW f \in DOMAIN Schema[m.type],
         NEW x, Fills(S, Schema[m.type][f], x), NEW w, Changed(m, f, x, w)
  PROVE  MadeOf(S, w)
<1>1. DOMAIN m.val = DOMAIN Schema[m.type] /\ DOMAIN w.val = DOMAIN m.val /\ w.type = m.type
  BY DEF MadeOf, Changed
<1>2. ASSUME NEW g \in DOMAIN w.val PROVE Fills(S, Schema[w.type][g], w.val[g])
  BY <1>1 DEF MadeOf, Changed
<1> QED
  BY <1>1, <1>2 DEF MadeOf, Changed

\* Value u is v, the value of a field fd, with part at sel.
Placed(fd, v, sel, part, u) ==
    /\ fd.label = "array" => u = [v EXCEPT ![sel + 1] = part]
    /\ fd.label = "map" => u = Over([k \in {sel} |-> part], v)
    /\ fd.label = "one" /\ fd.kind = "msg" => u = <<part>>
    /\ fd.label = "one" /\ fd.kind # "msg" => u = part

\* What WithPart puts in the field, and what it leaves of it.
LEMMA WithPartIs ==
  ASSUME NEW m, Shaped(m), NEW s, StepOK(m, s), NEW part
  PROVE  LET w == WithPart(m, s, part) IN
         /\ Changed(m, s.field, w.val[s.field], w)
         /\ Placed(Field(m, s.field), m.val[s.field], s.sel, part, w.val[s.field])
<1> DEFINE w == WithPart(m, s, part)  fd == Field(m, s.field)  v == m.val[s.field]
           x == CASE fd.label = "array" -> [v EXCEPT ![s.sel + 1] = part]
                  [] fd.label = "map" -> Over([k \in {s.sel} |-> part], v)
                  [] fd.label = "one" /\ fd.kind = "msg" -> <<part>>
                  [] OTHER -> part
<1>1. w = [m EXCEPT !.val[s.field] = x]
  BY DEF WithPart
<1>2. s.field \in DOMAIN Schema[m.type]
  BY DEF StepOK
<1>3. Changed(m, s.field, x, w)
  <2> HIDE DEF x
  <2> QED
    BY <1>1, <1>2, FieldChanged
<1>4. w.val[s.field] = x
  <2> HIDE DEF x, w
  <2> QED
    BY <1>3 DEF Changed
<1> HIDE DEF w
<1>5. Changed(m, s.field, w.val[s.field], w)
  BY <1>3, <1>4
<1>6. Placed(fd, v, s.sel, part, x)
  <2> HIDE DEF fd, v
  <2> QED
    BY DEF Placed
<1> HIDE DEF x
<1> QED
  BY <1>4, <1>5, <1>6 DEF w

LEMMA PartIn ==
  ASSUME NEW S, Full(S), NEW m \in S, NEW s, StepOK(m, s)
  PROVE  Part(m, s) \in Elements(S, Field(m, s.field))
<1> DEFINE fd == Field(m, s.field)  v == m.val[s.field]  A == Elements(S, fd)
<1>1. IsFd(fd) /\ Fills(S, fd, v)
  BY SchemaFd DEF Full, Closed, MadeOf, StepOK, Field
<1>2. ElementZero(fd) \in A
  BY <1>1, ElementZeroIn
<1>3. fd.label = "array" => s.sel \in 0..(Len(v) - 1)
  BY DEF StepOK
<1>4. Part(m, s) = CASE fd.label = "array" -> v[s.sel + 1]
                     [] fd.label = "map" -> IF s.sel \in DOMAIN v THEN v[s.sel] ELSE ElementZero(fd)
                     [] fd.label = "one" /\ fd.kind = "msg" ->
                            IF v = <<>> THEN ElementZero(fd) ELSE v[1]
                     [] OTHER -> v
  BY DEF Part
<1> HIDE DEF fd, v
<1>5. CASE fd.label = "array"
  <2>1. v \in Seq(A)
    BY <1>1, <1>5 DEF Fills
  <2>2. Part(m, s) = v[s.sel + 1]
    BY <1>4, <1>5
  <2>3. v[s.sel + 1] \in A
    <3> HIDE DEF A
    <3> QED
      BY <1>3, <1>5, <2>1
  <2> QED
    BY <2>2, <2>3 DEF fd
<1>6. CASE fd.label = "map"
  BY <1>1, <1>2, <1>4, <1>6 DEF Fills, fd
<1>7. CASE fd.label = "one" /\ fd.kind = "msg"
  <2>1. v = <<>> \/ \E e \in A : v = <<e>>
    BY <1>1, <1>7 DEF Fills
  <2>2. Part(m, s) = IF v = <<>> THEN ElementZero(fd) ELSE v[1]
    BY <1>4, <1>7
  <2> HIDE DEF A
  <2>3. Part(m, s) \in A
    BY <1>2, <2>1, <2>2
  <2> QED
    BY <2>3 DEF A, fd
<1>8. CASE fd.label = "one" /\ fd.kind # "msg"
  BY <1>1, <1>4, <1>8 DEF Fills, fd
<1> QED
  BY <1>1, <1>5, <1>6, <1>7, <1>8 DEF IsFd

\* What is put in a place is what is found there, and the rest of the message stays.
LEMMA WithPartLaws ==
  ASSUME NEW S, Full(S), NEW m \in S, NEW s, StepOK(m, s), NEW part
  PROVE  LET w == WithPart(m, s, part) IN
         /\ Changed(m, s.field, w.val[s.field], w)
         /\ Part(w, s) = part
         /\ StepOK(w, s)
<1> DEFINE w == WithPart(m, s, part)  fd == Field(m, s.field)  v == m.val[s.field]
           u == w.val[s.field]
<1>1. MadeOf(S, m)
  BY DEF Full, Closed
<1>2. Changed(m, s.field, u, w) /\ Placed(fd, v, s.sel, part, u)
  BY <1>1, MadeShaped, WithPartIs
<1>3. IsFd(fd) /\ Fills(S, fd, v)
  BY <1>1, SchemaFd DEF MadeOf, StepOK, Field
<1>4. Field(w, s.field) = fd
  BY <1>2 DEF Changed, Field
<1>5. fd.label = "array" => s.sel \in 0..(Len(v) - 1)
  BY DEF StepOK
<1>6. Part(w, s) = CASE fd.label = "array" -> u[s.sel + 1]
                     [] fd.label = "map" -> IF s.sel \in DOMAIN u THEN u[s.sel] ELSE ElementZero(fd)
                     [] fd.label = "one" /\ fd.kind = "msg" ->
                            IF u = <<>> THEN ElementZero(fd) ELSE u[1]
                     [] OTHER -> u
  BY <1>4 DEF Part
<1>7. s.field \in DOMAIN Schema[w.type]
  BY <1>2 DEF StepOK, Changed
<1> HIDE DEF u, w, v, fd
<1>8. CASE fd.label = "array"
  <2>1. v \in Seq(Elements(S, fd))
    BY <1>3, <1>8 DEF Fills
  <2>2. u = [v EXCEPT ![s.sel + 1] = part] /\ s.sel \in 0..(Len(v) - 1)
    BY <1>2, <1>5, <1>8 DEF Placed
  <2>3. u[s.sel + 1] = part /\ Len(u) = Len(v)
    BY <2>1, <2>2
  <2>4. Part(w, s) = part
    BY <1>6, <1>8, <2>3
  <2>5. StepOK(w, s)
    BY <1>4, <1>7, <2>2, <2>3 DEF StepOK, u
  <2> QED
    BY <1>2, <2>4, <2>5 DEF u, w
<1>9. fd.label # "array" => StepOK(w, s)
  BY <1>4, <1>7 DEF StepOK
<1>10. CASE fd.label = "map"
  <2>1. s.sel \in DOMAIN u /\ u[s.sel] = part
    BY <1>2, <1>10 DEF Placed, Over
  <2>2. Part(w, s) = part
    BY <1>6, <1>10, <2>1
  <2>3. StepOK(w, s)
    BY <1>9, <1>10
  <2> QED
    BY <1>2, <2>2, <2>3 DEF u, w
<1>11. CASE fd.label = "one"
  <2>1. ASSUME fd.kind = "msg" PROVE Part(w, s) = part
    <3>1. u = <<part>> /\ Part(w, s) = IF u = <<>> THEN ElementZero(fd) ELSE u[1]
      BY <1>2, <1>6, <1>11, <2>1 DEF Placed
    <3>2. <<part>> # <<>> /\ <<part>>[1] = part
      OBVIOUS
    <3> QED
      BY <3>1, <3>2
  <2>2. ASSUME fd.kind # "msg" PROVE Part(w, s) = part
    BY <1>2, <1>6, <1>11, <2>2 DEF Placed
  <2>3. Part(w, s) = part
    BY <2>1, <2>2
  <2>4. StepOK(w, s)
    BY <1>9, <1>11
  <2> QED
    BY <1>2, <2>3, <2>4 DEF u, w
<1> QED
  BY <1>3, <1>8, <1>10, <1>11 DEF IsFd

\* Putting an element of the right kind in its place keeps the message well made.
LEMMA WithPartMade ==
  ASSUME NEW S, NEW m, MadeOf(S, m), NEW s, StepOK(m, s),
         NEW part \in Elements(S, Field(m, s.field))
  PROVE  MadeOf(S, WithPart(m, s, part))
<1> DEFINE w == WithPart(m, s, part)  fd == Field(m, s.field)  v == m.val[s.field]
           u == w.val[s.field]  A == Elements(S, fd)
<1>1. MadeOf(S, m)
  OBVIOUS
<1>2. Changed(m, s.field, u, w) /\ Placed(fd, v, s.sel, part, u)
  BY <1>1, MadeShaped, WithPartIs
<1>3. IsFd(fd) /\ Fills(S, fd, v)
  BY <1>1, SchemaFd DEF MadeOf, StepOK, Field
<1>4. fd = Schema[m.type][s.field] /\ s.field \in DOMAIN Schema[m.type] /\ part \in A
  BY DEF Field, StepOK
<1> HIDE DEF u, w, v, fd
<1>5. CASE fd.label = "array"
  <2>1. v \in Seq(A) /\ u = [v EXCEPT ![s.sel + 1] = part]
    BY <1>2, <1>3, <1>5 DEF Fills, Placed
  <2>2. s.sel \in 0..(Len(v) - 1)
    BY <1>4, <1>5 DEF StepOK, fd, v, Field
  <2>3. u \in Seq(A)
    <3> HIDE DEF A
    <3>1. Len(v) \in Nat /\ \A i \in 1..Len(v) : v[i] \in A
      BY <2>1
    <3>2. v = [i \in 1..Len(v) |-> v[i]]
      BY <2>1
    <3>3. u = [i \in 1..Len(v) |-> u[i]]
      BY <2>1, <3>2
    <3>4. ASSUME NEW i \in 1..Len(v) PROVE u[i] \in A
      BY <1>4, <2>1, <3>1, <3>2
    <3> QED
      BY <3>1, <3>3, <3>4
  <2>4. Fills(S, fd, u)
    BY <1>5, <2>3 DEF Fills
  <2> QED
    BY <1>1, <1>2, <1>4, <2>4, ChangedMade DEF w
<1>6. CASE fd.label = "map"
  <2>1. u = [k \in DOMAIN u |-> u[k]] /\ \A k \in DOMAIN u : k = s.sel \/ k \in DOMAIN v
    BY <1>2, <1>6 DEF Over, Placed
  <2>2. u[s.sel] = part /\ \A k \in DOMAIN v : k # s.sel => u[k] = v[k]
    BY <1>2, <1>6 DEF Over, Placed
  <2>3. \A k \in DOMAIN v : v[k] \in A
    BY <1>3, <1>6 DEF Fills
  <2> HIDE DEF A
  <2>4. \A k \in DOMAIN u : u[k] \in A
    BY <1>4, <2>1, <2>2, <2>3
  <2>5. Fills(S, fd, u)
    BY <1>6, <2>1, <2>4 DEF Fills, A
  <2> QED
    BY <1>1, <1>2, <1>4, <2>5, ChangedMade DEF w
<1>7. CASE fd.label = "one"
  <2>1. Fills(S, fd, u)
    BY <1>2, <1>4, <1>7 DEF Fills, Placed
  <2> QED
    BY <1>1, <1>2, <1>4, <2>1, ChangedMade DEF w
<1> QED
  BY <1>3, <1>5, <1>6, <1>7 DEF IsFd

-----------------------------------------------------------------------------
(***************************************************************************)
(* Addresses.  The trail of an address is what each of its steps leads to. *)
(***************************************************************************)

IsSeq(s) == \E A : s \in Seq(A)

\* h is the trail of the first n steps.
Reach(root, addr, n, h) ==
    /\ h[0] = root
    /\ \A i \in 1..n : h[i] = Part(h[i - 1], addr[i])

LEMMA ReachExists ==
  ASSUME NEW root, NEW addr, NEW N \in Nat
  PROVE  \E h : Reach(root, addr, N, h)
<1> DEFINE T == {n \in Nat : \E h : Reach(root, addr, n, h)}
<1>1. 0 \in T
  <2> DEFINE h == [i \in {0} |-> root]
  <2>1. Reach(root, addr, 0, h)
    BY DEF Reach
  <2> QED
    BY <2>1
<1>2. ASSUME NEW n \in Nat, n \in T PROVE n + 1 \in T
  <2>1. PICK h : Reach(root, addr, n, h)
    BY <1>2
  <2> DEFINE e == [i \in 0..(n + 1) |-> IF i = n + 1 THEN Part(h[n], addr[n + 1]) ELSE h[i]]
  <2>2. e[0] = root /\ e[n + 1] = Part(e[n], addr[n + 1])
    BY <2>1 DEF Reach
  <2>3. ASSUME NEW i \in 1..n PROVE e[i] = Part(e[i - 1], addr[i])
    BY <2>1 DEF Reach
  <2>4. \A i \in 1..(n + 1) : i = n + 1 \/ i \in 1..n
    OBVIOUS
  <2>5. (n + 1) - 1 = n
    OBVIOUS
  <2> HIDE DEF e
  <2>6. \A i \in 1..(n + 1) : e[i] = Part(e[i - 1], addr[i])
    BY <2>2, <2>3, <2>4, <2>5
  <2>7. Reach(root, addr, n + 1, e)
    BY <2>2, <2>6 DEF Reach
  <2> QED
    BY <2>7
<1> HIDE DEF T
<1>3. N \in T
  BY <1>1, <1>2, Induct
<1> QED
  BY <1>3 DEF T

LEMMA AtIs ==
  ASSUME NEW root, NEW addr, Len(addr) \in Nat, NEW h, Reach(root, addr, Len(addr), h)
  PROVE  At(root, addr) = h[Len(addr)]
<1> DEFINE n == Len(addr)
           Is(e) == e = [i \in 0..n |-> IF i = 0 THEN root ELSE Part(e[i - 1], addr[i])]
           f == CHOOSE e : Is(e)
           t == [i \in 0..n |-> h[i]]
<1>1. n \in Nat
  OBVIOUS
<1>2. Is(t)
  <2>1. \A i \in 0..n : i = 0 \/ (i \in 1..n /\ i - 1 \in 0..n)
    BY <1>1
  <2>2. \A i \in 0..n : h[i] = IF i = 0 THEN root ELSE Part(t[i - 1], addr[i])
    BY <1>1, <2>1 DEF Reach
  <2> QED
    BY <2>2, Zenon
<1>3. Is(f)
  BY <1>2
<1>4. At(root, addr) = f[n]
  BY DEF At
<1> HIDE DEF f
<1>5. f[0] = h[0]
  BY <1>1, <1>3 DEF Reach
<1>6. ASSUME NEW i \in 1..n, f[i - 1] = h[i - 1] PROVE f[i] = h[i]
  <2>1. i \in 0..n /\ i # 0
    BY <1>1
  <2>2. f[i] = Part(f[i - 1], addr[i])
    BY <1>3, <2>1
  <2> QED
    BY <1>6, <2>2 DEF Reach
<1> HIDE DEF Is, n
<1>7. f[n] = h[n]
  BY <1>1, <1>5, <1>6, Agree
<1> QED
  BY <1>4, <1>7 DEF n

LEMMA AtPrefix ==
  ASSUME NEW root, NEW A, NEW addr \in Seq(A), NEW h, Reach(root, addr, Len(addr), h),
         NEW i \in 0..Len(addr)
  PROVE  At(root, SubSeq(addr, 1, i)) = h[i]
<1> DEFINE p == SubSeq(addr, 1, i)
<1>1. Len(p) = i /\ i \in Nat /\ \A j \in 1..i : p[j] = addr[j] /\ j \in 1..Len(addr)
  OBVIOUS
<1> HIDE DEF p
<1>2. Reach(root, p, Len(p), h)
  BY <1>1 DEF Reach
<1> QED
  BY <1>1, <1>2, AtIs DEF p

\* One more step.
LEMMA AtAppend ==
  ASSUME NEW root, NEW A, NEW addr \in Seq(A), NEW s \in A
  PROVE  At(root, Append(addr, s)) = Part(At(root, addr), s)
<1> DEFINE n == Len(addr)  q == Append(addr, s)
<1>1. /\ n \in Nat /\ n + 1 \in Nat /\ Len(q) = n + 1 /\ q[n + 1] = s
      /\ \A i \in 1..n : q[i] = addr[i]
  OBVIOUS
<1>2. PICK h : Reach(root, q, n + 1, h)
  BY <1>1, ReachExists
<1>3. \A i \in 1..n : i \in 1..(n + 1)
  BY <1>1
<1>4. (n + 1) - 1 = n /\ n + 1 \in 1..(n + 1) /\ n + 1 \in Nat
  BY <1>1
<1> HIDE DEF q, n
<1>5. Reach(root, addr, n, h)
  BY <1>1, <1>2, <1>3 DEF Reach
<1>6. h[n + 1] = Part(h[n], s)
  BY <1>1, <1>2, <1>4 DEF Reach
<1>7. At(root, addr) = h[n]
  BY <1>1, <1>5, AtIs DEF n
<1>8. At(root, q) = h[n + 1]
  BY <1>1, <1>2, <1>4, AtIs
<1> QED
  BY <1>6, <1>7, <1>8 DEF q

\* g is the trail h as it is when m is put at its end.
Rebuilds(h, addr, n, m, g) ==
    /\ g[n] = m
    /\ \A i \in 0..(n - 1) : g[i] = WithPart(h[i], addr[i + 1], g[i + 1])

LEMMA RebuildsExists ==
  ASSUME NEW h, NEW addr, NEW N \in Nat, NEW m
  PROVE  \E g : Rebuilds(h, addr, N, m, g)
<1> DEFINE Done(k, g) ==
             g[N] = m /\ \A i \in (N - k)..(N - 1) : g[i] = WithPart(h[i], addr[i + 1], g[i + 1])
           T == {k \in Nat : k <= N => \E g : Done(k, g)}
<1>1. 0 \in T
  <2> DEFINE g == [i \in {N} |-> m]
  <2>1. Done(0, g)
    OBVIOUS
  <2> QED
    BY <2>1
<1>2. ASSUME NEW k \in Nat, k \in T PROVE k + 1 \in T
  <2> SUFFICES ASSUME k + 1 <= N PROVE \E g : Done(k + 1, g)
    OBVIOUS
  <2>1. PICK g : Done(k, g)
    BY <1>2
  <2> DEFINE j == N - (k + 1)
             e == [i \in j..N |-> IF i = j THEN WithPart(h[j], addr[j + 1], g[j + 1]) ELSE g[i]]
  <2>2. j \in Nat /\ j < N /\ j + 1 = N - k
    OBVIOUS
  <2>3. e[N] = m /\ e[j] = WithPart(h[j], addr[j + 1], e[j + 1])
    BY <2>1, <2>2
  <2>4. ASSUME NEW i \in (N - k)..(N - 1) PROVE e[i] = WithPart(h[i], addr[i + 1], e[i + 1])
    <3>1. e[i] = g[i] /\ e[i + 1] = g[i + 1]
      BY <2>2
    <3> HIDE DEF e
    <3> QED
      BY <2>1, <3>1
  <2>5. \A i \in j..(N - 1) : i = j \/ i \in (N - k)..(N - 1)
    BY <2>2
  <2> HIDE DEF e
  <2>6. Done(k + 1, e)
    BY <2>3, <2>4, <2>5
  <2> QED
    BY <2>6
<1> HIDE DEF T
<1>3. N \in T
  BY <1>1, <1>2, Induct
<1>4. \E g : Done(N, g)
  BY <1>3 DEF T
<1> QED
  BY <1>4 DEF Rebuilds

LEMMA PutAtIs ==
  ASSUME NEW root, NEW A, NEW addr \in Seq(A), NEW m, NEW h, Reach(root, addr, Len(addr), h),
         NEW g, Rebuilds(h, addr, Len(addr), m, g)
  PROVE  PutAt(root, addr, m) = g[0]
<1> DEFINE n == Len(addr)
           Is(e) == e = [i \in 0..n |-> IF i = n THEN m
                          ELSE WithPart(At(root, SubSeq(addr, 1, i)), addr[i + 1], e[i + 1])]
           f == CHOOSE e : Is(e)
           t == [i \in 0..n |-> g[i]]
<1>1. n \in Nat
  OBVIOUS
<1>2. \A i \in 0..n : At(root, SubSeq(addr, 1, i)) = h[i]
  BY AtPrefix
<1>3. Is(t)
  <2>1. \A i \in 0..n : i = n \/ (i # n /\ i \in 0..(n - 1) /\ i + 1 \in 0..n)
    BY <1>1
  <2>2. \A i \in 0..n : g[i] = IF i = n THEN m
                          ELSE WithPart(At(root, SubSeq(addr, 1, i)), addr[i + 1], t[i + 1])
    <3> HIDE DEF n
    <3> QED
      BY <1>1, <1>2, <2>1 DEF Rebuilds, n
  <2> QED
    BY <2>2, Zenon
<1>4. Is(f)
  BY <1>3
<1>5. PutAt(root, addr, m) = f[0]
  BY DEF PutAt
<1> HIDE DEF f
<1> DEFINE fr == [j \in 0..n |-> f[n - j]]
           gr == [j \in 0..n |-> g[n - j]]
<1>6. fr[0] = gr[0]
  <2>1. f[n] = m
    BY <1>1, <1>4
  <2>2. g[n] = m
    BY DEF Rebuilds
  <2> HIDE DEF n, Is
  <2> QED
    BY <1>1, <2>1, <2>2
<1>7. ASSUME NEW j \in 1..n, fr[j - 1] = gr[j - 1] PROVE fr[j] = gr[j]
  <2> DEFINE i == n - j
  <2>1. i \in 0..(n - 1) /\ i \in 0..n /\ i # n /\ i + 1 = n - (j - 1) /\ j \in 0..n /\ j - 1 \in 0..n
    BY <1>1
  <2>2. f[i + 1] = g[i + 1]
    <3> HIDE DEF n, Is, i
    <3> QED
      BY <1>7, <2>1
  <2>3. f[i] = WithPart(At(root, SubSeq(addr, 1, i)), addr[i + 1], f[i + 1])
    <3> HIDE DEF n, i
    <3> QED
      BY <1>4, <2>1
  <2>4. g[i] = WithPart(h[i], addr[i + 1], g[i + 1])
    BY <2>1 DEF Rebuilds
  <2>5. f[i] = g[i]
    BY <1>2, <2>1, <2>2, <2>3, <2>4
  <2> QED
    <3> HIDE DEF n, Is
    <3> QED
      BY <2>1, <2>5
<1> HIDE DEF Is, n, fr, gr
<1>8. fr[n] = gr[n]
  BY <1>1, <1>6, <1>7, Agree
<1>9. f[0] = g[0]
  BY <1>1, <1>8 DEF fr, gr
<1> QED
  BY <1>5, <1>9

(***************************************************************************)
(* Leads(S, root, addr, h): root belongs to S, which is full, and addr     *)
(* leads through messages that are there, h.                               *)
(***************************************************************************)
Leads(S, root, addr, h) ==
    /\ Full(S) /\ root \in S
    /\ IsSeq(addr)
    /\ Reach(root, addr, Len(addr), h)
    /\ \A i \in 1..Len(addr) :
          StepOK(h[i - 1], addr[i]) /\ Field(h[i - 1], addr[i].field).kind = "msg"

LEMMA LeadsIn ==
  ASSUME NEW S, NEW root, NEW addr, NEW h, Leads(S, root, addr, h)
  PROVE  /\ Len(addr) \in Nat
         /\ \A i \in 0..Len(addr) : h[i] \in S /\ MadeOf(S, h[i]) /\ h[i].type \in Types
         /\ \A i \in 1..Len(addr) : h[i].type = Field(h[i - 1], addr[i].field).of
<1> DEFINE n == Len(addr)
<1>1. n \in Nat
  BY DEF Leads, IsSeq
<1>2. ASSUME NEW i \in 1..n, h[i - 1] \in S
      PROVE  h[i] \in S /\ h[i].type = Field(h[i - 1], addr[i].field).of
  <2>1. StepOK(h[i - 1], addr[i]) /\ Field(h[i - 1], addr[i].field).kind = "msg"
    BY DEF Leads
  <2>2. h[i] = Part(h[i - 1], addr[i])
    BY DEF Leads, Reach
  <2>3. h[i] \in Elements(S, Field(h[i - 1], addr[i].field))
    BY <1>2, <2>1, <2>2, PartIn DEF Leads
  <2> QED
    BY <2>1, <2>3 DEF Elements
<1>3. h[0] \in S
  BY DEF Leads, Reach
<1> DEFINE I == {i \in 0..n : h[i] \in S}
<1>7. 0 \in I /\ \A i \in 1..n : i - 1 \in I => i \in I
  BY <1>1, <1>2, <1>3
<1> HIDE DEF n, I
<1>4. \A i \in 0..n : h[i] \in S
  <2>1. \A i \in 0..n : i \in I
    BY <1>1, <1>7, InductTo
  <2> QED
    BY <2>1 DEF I
<1>5. \A i \in 0..n : MadeOf(S, h[i]) /\ h[i].type \in Types
  BY <1>4 DEF Leads, Full, Closed, MadeOf
<1>6. \A i \in 1..n : i - 1 \in 0..n
  BY <1>1
<1> QED
  BY <1>1, <1>2, <1>4, <1>5, <1>6 DEF n

LEMMA LeadsMore ==
  ASSUME NEW S, NEW root, NEW addr, NEW h, Leads(S, root, addr, h), NEW T, Full(T), S \subseteq T
  PROVE  Leads(T, root, addr, h)
  BY DEF Leads

\* Putting a message where another of its type was: the address still leads there, what
\* it leads through has changed only in the field it goes on by, and all is well made.
LEMMA PutAtLaws ==
  ASSUME NEW S, NEW root, NEW addr, NEW h, Leads(S, root, addr, h),
         NEW m, MadeOf(S, m), m.type = h[Len(addr)].type
  PROVE  \E T, g : /\ Leads(T, PutAt(root, addr, m), addr, g)
                   /\ S \subseteq T /\ m \in T
                   /\ Rebuilds(h, addr, Len(addr), m, g)
                   /\ \A i \in 0..Len(addr) : g[i].type = h[i].type
                   /\ \A i \in 1..Len(addr) :
                         Changed(h[i - 1], addr[i].field, g[i - 1].val[addr[i].field], g[i - 1])
<1> DEFINE n == Len(addr)
<1>1. n \in Nat /\ \A i \in 0..n : h[i] \in S /\ MadeOf(S, h[i]) /\ h[i].type \in Types
  BY LeadsIn
<1>2. PICK g : Rebuilds(h, addr, n, m, g)
  BY <1>1, RebuildsExists
<1>3. PICK A : addr \in Seq(A)
  BY DEF Leads, IsSeq
<1>4. PutAt(root, addr, m) = g[0]
  BY <1>2, <1>3, PutAtIs DEF Leads
<1> DEFINE T == S \cup {g[i] : i \in 0..n}
<1>5. ASSUME NEW i \in 1..n
      PROVE  /\ g[i - 1] = WithPart(h[i - 1], addr[i], g[i])
             /\ StepOK(h[i - 1], addr[i]) /\ h[i - 1] \in S /\ i - 1 \in 0..n
             /\ Field(h[i - 1], addr[i].field).kind = "msg"
  <2>1. i - 1 \in 0..(n - 1) /\ i - 1 \in 0..n /\ (i - 1) + 1 = i
    BY <1>1
  <2> HIDE DEF n
  <2> QED
    BY <1>1, <1>2, <2>1 DEF Rebuilds, Leads, n
<1>6. ASSUME NEW i \in 1..n
      PROVE  /\ Changed(h[i - 1], addr[i].field, g[i - 1].val[addr[i].field], g[i - 1])
             /\ Part(g[i - 1], addr[i]) = g[i]
             /\ StepOK(g[i - 1], addr[i])
             /\ Field(g[i - 1], addr[i].field) = Field(h[i - 1], addr[i].field)
  <2>1. Full(S)
    BY DEF Leads
  <2>2. /\ Changed(h[i - 1], addr[i].field, g[i - 1].val[addr[i].field], g[i - 1])
        /\ Part(g[i - 1], addr[i]) = g[i]
        /\ StepOK(g[i - 1], addr[i])
    BY <1>5, <2>1, WithPartLaws
  <2> QED
    BY <2>2 DEF Changed, Field
<1>7. g[n] = m
  BY <1>2 DEF Rebuilds
<1>8. ASSUME NEW i \in 0..n PROVE g[i].type = h[i].type
  <2>1. CASE i = n
    BY <1>7, <2>1
  <2>2. CASE i # n
    <3>1. i + 1 \in 1..n /\ (i + 1) - 1 = i
      BY <1>1, <2>2
    <3> HIDE DEF n
    <3>2. Changed(h[i], addr[i + 1].field, g[i].val[addr[i + 1].field], g[i])
      BY <1>6, <3>1
    <3> QED
      BY <3>2 DEF Changed
  <2> QED
    BY <2>1, <2>2
<1> HIDE DEF n
<1>9. Full(T)
  <2>1. ASSUME NEW x \in S PROVE MadeOf(T, x)
    BY <2>1, MadeOfMore DEF Leads, Full, Closed
  <2>2. ASSUME NEW i \in 0..n PROVE MadeOf(T, g[i])
    <3>1. CASE i = n
      BY <1>7, <3>1, MadeOfMore
    <3>2. CASE i # n
      <4> DEFINE j == i + 1
      <4>1. j \in 1..n /\ j - 1 = i /\ j \in 0..n
        BY <1>1, <3>2
      <4> HIDE DEF j
      <4>2. /\ g[i] = WithPart(h[i], addr[j], g[j])
            /\ StepOK(h[i], addr[j]) /\ h[i] \in S
            /\ Field(h[i], addr[j].field).kind = "msg"
        BY <1>5, <4>1
      <4>3. MadeOf(T, h[i])
        BY <2>1, <4>2
      <4>4. h[j].type = Field(h[i], addr[j].field).of
        BY <4>1, LeadsIn DEF n
      <4>5. g[j] \in Elements(T, Field(h[i], addr[j].field))
        BY <1>8, <4>1, <4>2, <4>4 DEF Elements
      <4> QED
        BY <4>2, <4>3, <4>5, WithPartMade
    <3> QED
      BY <3>1, <3>2
  <2>3. \A x \in T : MadeOf(T, x)
    BY <2>1, <2>2
  <2> QED
    BY <2>3 DEF Full, Closed, Leads
<1>10. S \subseteq T /\ g[0] \in T /\ m \in T
  BY <1>1, <1>7
<1> HIDE DEF T
<1>11. Reach(g[0], addr, n, g)
  BY <1>6 DEF Reach
<1>12. Leads(T, g[0], addr, g)
  <2>1. IsSeq(addr)
    BY DEF Leads
  <2>2. \A i \in 1..n : StepOK(g[i - 1], addr[i]) /\ Field(g[i - 1], addr[i].field).kind = "msg"
    BY <1>5, <1>6
  <2> QED
    BY <1>9, <1>10, <1>11, <2>1, <2>2 DEF Leads, n
<1>13. \A i \in 0..n : g[i].type = h[i].type
  BY <1>8
<1>14. \A i \in 1..n :
         Changed(h[i - 1], addr[i].field, g[i - 1].val[addr[i].field], g[i - 1])
  BY <1>6
<1> QED
  BY <1>2, <1>4, <1>10, <1>12, <1>13, <1>14 DEF n

\* One step more is taken to a message.
LEMMA LeadsAppend ==
  ASSUME NEW S, NEW root, NEW addr, NEW h, Leads(S, root, addr, h),
         NEW s, StepOK(h[Len(addr)], s), Field(h[Len(addr)], s.field).kind = "msg"
  PROVE  /\ Len(Append(addr, s)) = Len(addr) + 1
         /\ \E e : /\ Leads(S, root, Append(addr, s), e)
                   /\ e[Len(addr) + 1] = Part(h[Len(addr)], s)
<1> DEFINE n == Len(addr)
           q == Append(addr, s)
           e == [i \in 0..(n + 1) |-> IF i = n + 1 THEN Part(h[n], s) ELSE h[i]]
<1>1. PICK A : addr \in Seq(A)
  BY DEF Leads, IsSeq
<1>2. /\ n \in Nat /\ Len(q) = n + 1 /\ q[n + 1] = s /\ q \in Seq(A \cup {s})
      /\ (n + 1) - 1 = n
  BY <1>1
<1>3. e[n + 1] = Part(h[n], s) /\ e[0] = h[0] /\ e[n] = h[n]
  <2>1. n \in Nat
    BY <1>2
  <2> HIDE DEF n
  <2>2. 0 \in 0..(n + 1) /\ n \in 0..(n + 1) /\ n + 1 \in 0..(n + 1) /\ 0 # n + 1 /\ n # n + 1
    BY <2>1
  <2> QED
    BY <2>2
<1>4. ASSUME NEW i \in 1..n PROVE q[i] = addr[i] /\ e[i] = h[i] /\ e[i - 1] = h[i - 1]
  BY <1>1, <1>2
<1>5. \A i \in 1..(n + 1) : i = n + 1 \/ i \in 1..n
  BY <1>2
<1> HIDE DEF e, q
<1>6. ASSUME NEW i \in 1..(n + 1)
      PROVE  /\ e[i] = Part(e[i - 1], q[i])
             /\ StepOK(e[i - 1], q[i]) /\ Field(e[i - 1], q[i].field).kind = "msg"
  <2>1. CASE i = n + 1
    BY <1>2, <1>3, <2>1
  <2>2. CASE i \in 1..n
    BY <1>4, <2>2 DEF Leads, Reach
  <2> QED
    BY <1>5, <2>1, <2>2
<1> HIDE DEF n
<1>7. Reach(root, q, n + 1, e)
  BY <1>3, <1>6 DEF Reach, Leads
<1>8. Leads(S, root, q, e)
  BY <1>2, <1>6, <1>7 DEF Leads, IsSeq
<1> QED
  BY <1>2, <1>3, <1>8 DEF n, q

-----------------------------------------------------------------------------
(***************************************************************************)
(* References.                                                             *)
(***************************************************************************)

IsRef(r) ==
    r = [root |-> r.root, addr |-> r.addr, type |-> r.type, field |-> r.field,
         sel |-> r.sel, err |-> r.err]

\* The root of r is a well made message of type t.
Rooted(r, t) == IsRef(r) /\ WellMade(r.root) /\ r.root.type = t

\* Reference r is at a message.
Stands(S, r, h) ==
    /\ IsRef(r)
    /\ Leads(S, r.root, r.addr, h)
    /\ r.type = h[Len(r.addr)].type

\* Reference r denotes a field of it, or an element that is there, or a key.
Points(S, r, h) ==
    /\ Stands(S, r, h)
    /\ r.field \in DOMAIN Schema[r.type]
    /\ (FieldOf(r).label = "array" /\ r.sel # None) =>
          r.sel \in 0..(Len(h[Len(r.addr)].val[r.field]) - 1)

\* Whatever can be done to the element can be: it is not a whole array.
IsPlace(r) == FieldOf(r).label = "array" => r.sel # None

LEMMA RefChanges ==
  ASSUME NEW r, IsRef(r)
  PROVE  /\ \A e : /\ IsRef(Throw(r, e)) /\ Throw(r, e).err = e
                   /\ Throw(r, e).root = r.root
         /\ \A x : [r EXCEPT !.root = x]
                     = [root |-> x, addr |-> r.addr, type |-> r.type, field |-> r.field,
                        sel |-> r.sel, err |-> r.err]
         /\ \A x : [r EXCEPT !.sel = x]
                     = [root |-> r.root, addr |-> r.addr, type |-> r.type, field |-> r.field,
                        sel |-> x, err |-> r.err]
<1>1. ASSUME NEW e PROVE /\ IsRef(Throw(r, e)) /\ Throw(r, e).err = e
                         /\ Throw(r, e).root = r.root
  <2>1. Throw(r, e) = [root |-> r.root, addr |-> r.addr, type |-> r.type, field |-> r.field,
                       sel |-> r.sel, err |-> e]
    BY DEF IsRef, Throw
  <2> QED
    BY <2>1 DEF IsRef
<1>2. ASSUME NEW x
      PROVE  [r EXCEPT !.root = x]
               = [root |-> x, addr |-> r.addr, type |-> r.type, field |-> r.field,
                  sel |-> r.sel, err |-> r.err]
  BY DEF IsRef
<1>3. ASSUME NEW x
      PROVE  [r EXCEPT !.sel = x]
               = [root |-> r.root, addr |-> r.addr, type |-> r.type, field |-> r.field,
                  sel |-> x, err |-> r.err]
  BY DEF IsRef
<1> QED
  BY <1>1, <1>2, <1>3

LEMMA RefField ==
  ASSUME NEW r, IsRef(r), NEW f, NEW x
  PROVE  [r EXCEPT !.field = f, !.sel = x]
           = [root |-> r.root, addr |-> r.addr, type |-> r.type, field |-> f,
              sel |-> x, err |-> r.err]
<1>1. [r EXCEPT !.field = f, !.sel = x] = [[r EXCEPT !.field = f] EXCEPT !.sel = x]
  OBVIOUS
<1>2. [r EXCEPT !.field = f]
        = [root |-> r.root, addr |-> r.addr, type |-> r.type, field |-> f,
           sel |-> r.sel, err |-> r.err]
  BY DEF IsRef
<1>3. \A p : p = [root |-> r.root, addr |-> r.addr, type |-> r.type, field |-> f,
                  sel |-> r.sel, err |-> r.err]
           => [p EXCEPT !.sel = x]
                = [root |-> r.root, addr |-> r.addr, type |-> r.type, field |-> f,
                   sel |-> x, err |-> r.err]
  OBVIOUS
<1> QED
  BY <1>1, <1>2, <1>3

\* The message a reference is at.
LEMMA StandsAt ==
  ASSUME NEW S, NEW r, NEW h, Stands(S, r, h)
  PROVE  /\ Msg(r) = h[Len(r.addr)]
         /\ Msg(r) \in S /\ MadeOf(S, Msg(r))
         /\ Msg(r).type = r.type /\ r.type \in Types
         /\ Len(r.addr) \in Nat /\ Full(S) /\ r.root \in S /\ MadeOf(S, r.root)
<1> DEFINE n == Len(r.addr)
<1>1. n \in Nat /\ h[n] \in S /\ MadeOf(S, h[n]) /\ h[n].type \in Types
  BY LeadsIn DEF Stands
<1>2. Msg(r) = h[n]
  BY <1>1, AtIs DEF Msg, Stands, Leads
<1>3. Full(S) /\ r.root \in S /\ MadeOf(S, r.root)
  BY DEF Stands, Leads, Full, Closed
<1> QED
  BY <1>1, <1>2, <1>3 DEF Stands

LEMMA PointsStep ==
  ASSUME NEW S, NEW r, NEW h, Points(S, r, h), IsPlace(r)
  PROVE  /\ StepOK(Msg(r), Here(r))
         /\ FieldOf(r) = Field(Msg(r), Here(r).field) /\ Here(r).field = r.field
         /\ IsFd(FieldOf(r))
         /\ Get(r) \in Elements(S, FieldOf(r))
<1>1. /\ Msg(r) = h[Len(r.addr)] /\ Msg(r).type = r.type /\ r.type \in Types
      /\ Full(S) /\ Msg(r) \in S
  BY StandsAt DEF Points
<1>2. Here(r).field = r.field /\ Here(r).sel = r.sel
  BY DEF Here
<1>3. FieldOf(r) = Field(Msg(r), Here(r).field)
  BY <1>1, <1>2 DEF FieldOf, Field
<1>4. StepOK(Msg(r), Here(r))
  BY <1>1, <1>2, <1>3 DEF Points, IsPlace, StepOK
<1>5. IsFd(FieldOf(r))
  BY <1>1, SchemaFd DEF Points, FieldOf
<1> QED
  BY <1>1, <1>2, <1>3, <1>4, <1>5, PartIn DEF Get

\* A reference with a message put where it is.
LEMMA PutMessage ==
  ASSUME NEW S, NEW r, NEW h, Stands(S, r, h), NEW m, MadeOf(S, m), m.type = r.type,
         NEW q, q = [r EXCEPT !.root = PutAt(r.root, r.addr, m)]
  PROVE  /\ Rooted(q, r.root.type)
         /\ q = [root |-> q.root, addr |-> r.addr, type |-> r.type, field |-> r.field,
                 sel |-> r.sel, err |-> r.err]
         /\ \E T, g : /\ Stands(T, q, g) /\ S \subseteq T /\ m \in T
                      /\ g[Len(r.addr)] = m
<1>1. IsRef(r) /\ Leads(S, r.root, r.addr, h) /\ m.type = h[Len(r.addr)].type
  BY DEF Stands
<1>2. q = [root |-> q.root, addr |-> r.addr, type |-> r.type, field |-> r.field,
           sel |-> r.sel, err |-> r.err] /\ q.root = PutAt(r.root, r.addr, m)
  <2> DEFINE p == PutAt(r.root, r.addr, m)
  <2>1. q = [r EXCEPT !.root = p]
    OBVIOUS
  <2> HIDE DEF p
  <2>2. q.root = p /\ q = [root |-> p, addr |-> r.addr, type |-> r.type, field |-> r.field,
                           sel |-> r.sel, err |-> r.err]
    BY <1>1, <2>1 DEF IsRef
  <2> QED
    BY <2>2 DEF p
<1>3. PICK T, g : /\ Leads(T, PutAt(r.root, r.addr, m), r.addr, g)
                  /\ S \subseteq T /\ m \in T
                  /\ Rebuilds(h, r.addr, Len(r.addr), m, g)
                  /\ \A i \in 0..Len(r.addr) : g[i].type = h[i].type
                  /\ \A i \in 1..Len(r.addr) :
                        Changed(h[i - 1], r.addr[i].field, g[i - 1].val[r.addr[i].field], g[i - 1])
  BY <1>1, PutAtLaws
<1>4. g[Len(r.addr)] = m /\ Len(r.addr) \in Nat
  BY <1>3, LeadsIn DEF Rebuilds
<1>5. g[0] = q.root /\ h[0] = r.root /\ q.root.type = r.root.type
  BY <1>1, <1>2, <1>3, <1>4 DEF Leads, Reach
<1>6. q.addr = r.addr /\ q.type = r.type /\ IsRef(q)
  BY <1>2 DEF IsRef
<1>7. Stands(T, q, g)
  BY <1>1, <1>2, <1>3, <1>4, <1>6 DEF Stands
<1>8. WellMade(q.root)
  BY <1>2, <1>3 DEF WellMade, Leads
<1> QED
  BY <1>2, <1>3, <1>4, <1>5, <1>6, <1>7, <1>8 DEF Rooted

-----------------------------------------------------------------------------
(***************************************************************************)
(* Following a path.  Either an exception stops it, and the root is well   *)
(* made all the same, or the reference denotes something.                  *)
(***************************************************************************)

Ended(q, t) == q.err # None /\ Rooted(q, t)

Denotes(q, t) == q.err = None /\ q.root.type = t /\ \E S, h : Points(S, q, h)

Followed(q, t) == Ended(q, t) \/ Denotes(q, t)

\* Nothing thrown so far: at the message the path starts from, or denoting something.
Underway(r, t) ==
    /\ r.err = None /\ r.root.type = t
    /\ \E S, h : Stands(S, r, h) /\ (r.field = None \/ Points(S, r, h))

LEMMA StandsRooted ==
  ASSUME NEW S, NEW r, NEW h, Stands(S, r, h)
  PROVE  Rooted(r, r.root.type)
  BY StandsAt DEF Stands, Rooted, WellMade

LEMMA StandsSame ==
  ASSUME NEW S, NEW r, NEW h, Stands(S, r, h), NEW q, IsRef(q),
         q.root = r.root, q.addr = r.addr, q.type = r.type
  PROVE  Stands(S, q, h)
  BY DEF Stands

LEMMA Thrown ==
  ASSUME NEW r, NEW t, Rooted(r, t), NEW e, e # None
  PROVE  Ended(Throw(r, e), t)
<1>1. IsRef(Throw(r, e)) /\ Throw(r, e).err = e /\ Throw(r, e).root = r.root
  BY RefChanges DEF Rooted
<1> QED
  BY <1>1 DEF Ended, Rooted

LEMMA FindFieldGood ==
  ASSUME NEW S, NEW r, NEW h, Stands(S, r, h), r.err = None, NEW seg
  PROVE  Followed(FindField(r, seg), r.root.type)
<1> DEFINE q == [root |-> r.root, addr |-> r.addr, type |-> r.type, field |-> seg,
                 sel |-> None, err |-> r.err]
<1>1. CASE seg \notin DOMAIN Schema[r.type]
  <2>1. FindField(r, seg) = Throw(r, "no field")
    BY <1>1 DEF FindField
  <2> QED
    BY <2>1, StandsRooted, Thrown, NoneAssumption DEF Followed
<1>2. CASE seg \in DOMAIN Schema[r.type]
  <2>1. FindField(r, seg) = [r EXCEPT !.field = seg, !.sel = None]
    BY <1>2 DEF FindField
  <2>2. FindField(r, seg) = q
    <3>1. IsRef(r)
      BY DEF Stands
    <3> QED
      BY <2>1, <3>1, RefField
  <2>3. IsRef(q) /\ Stands(S, q, h)
    BY StandsSame DEF IsRef
  <2>4. Points(S, q, h)
    BY <1>2, <2>3 DEF Points
  <2>5. q.err = None /\ q.root = r.root
    OBVIOUS
  <2> HIDE DEF q
  <2> QED
    BY <2>2, <2>4, <2>5 DEF Followed, Denotes
<1> QED
  BY <1>1, <1>2

LEMMA SelectGood ==
  ASSUME NEW S, NEW r, NEW h, Points(S, r, h), r.err = None, NEW x,
         FieldOf(r).label = "array" => x \in 0..(Len(Msg(r).val[r.field]) - 1)
  PROVE  Denotes([r EXCEPT !.sel = x], r.root.type)
<1> DEFINE q == [root |-> r.root, addr |-> r.addr, type |-> r.type, field |-> r.field,
                 sel |-> x, err |-> r.err]
<1>1. [r EXCEPT !.sel = x] = q
  BY RefChanges DEF Points, Stands
<1>2. IsRef(q) /\ Stands(S, q, h)
  BY StandsSame DEF IsRef, Points
<1>3. Msg(r) = h[Len(r.addr)]
  BY StandsAt DEF Points
<1>4. FieldOf(q) = FieldOf(r)
  BY DEF FieldOf
<1>5. Points(S, q, h)
  BY <1>2, <1>3, <1>4 DEF Points
<1>6. q.err = None /\ q.root = r.root
  OBVIOUS
<1> HIDE DEF q
<1> QED
  BY <1>1, <1>5, <1>6 DEF Denotes

LEMMA FindKeyGood ==
  ASSUME NEW mutable, NEW S, NEW r, NEW h, Points(S, r, h), r.err = None, IsMap(r), NEW seg
  PROVE  Followed(FindKey(mutable, r, seg), r.root.type)
<1> DEFINE key == Parse[FieldOf(r).key][seg]
<1>1. Rooted(r, r.root.type)
  BY StandsRooted DEF Points
<1>2. Denotes([r EXCEPT !.sel = key], r.root.type)
  BY SelectGood DEF IsMap
<1>3. Ended(Throw(r, "bad key"), r.root.type) /\ Ended(Throw(r, "no key"), r.root.type)
  BY <1>1, Thrown, NoneAssumption
<1> HIDE DEF key
<1>4. FindKey(mutable, r, seg) \in {Throw(r, "bad key"), Throw(r, "no key"), [r EXCEPT !.sel = key]}
  BY DEF FindKey, key
<1> QED
  BY <1>2, <1>3, <1>4 DEF Followed

LEMMA FindIndexGood ==
  ASSUME NEW S, NEW r, NEW h, Points(S, r, h), r.err = None, FieldOf(r).label = "array",
         NEW seg \in DOMAIN Index
  PROVE  Followed(FindIndex(r, seg), r.root.type)
<1> DEFINE v == Msg(r).val[r.field]  i == Index[seg]
<1>1. Rooted(r, r.root.type)
  BY StandsRooted DEF Points
<1>2. Ended(Throw(r, "bad index"), r.root.type) /\ Ended(Throw(r, "out of range"), r.root.type)
  BY <1>1, Thrown, NoneAssumption
<1>3. Len(v) \in Nat
  <2>1. MadeOf(S, Msg(r)) /\ Msg(r).type = r.type
    BY StandsAt DEF Points
  <2>2. Fills(S, FieldOf(r), v)
    BY <2>1 DEF MadeOf, Points, FieldOf
  <2>3. v \in Seq(Elements(S, FieldOf(r)))
    BY <2>2 DEF Fills
  <2> HIDE DEF v
  <2> QED
    BY <2>3
<1> HIDE DEF v
<1>4. ASSUME i # None, ~(i >= Len(v)), ~(i < 0)
      PROVE  Denotes([r EXCEPT !.sel = i], r.root.type)
  <2>1. i \in Int
    BY <1>4, IndexAssumption
  <2> HIDE DEF i
  <2>2. i \in 0..(Len(v) - 1)
    BY <1>3, <1>4, <2>1
  <2> QED
    BY <2>2, SelectGood DEF v
<1> HIDE DEF i
<1>5. \/ FindIndex(r, seg) \in {Throw(r, "bad index"), Throw(r, "out of range")}
      \/ i # None /\ ~(i >= Len(v)) /\ ~(i < 0) /\ FindIndex(r, seg) = [r EXCEPT !.sel = i]
  BY DEF FindIndex, i, v
<1> QED
  BY <1>2, <1>4, <1>5 DEF Followed

\* MutableMessage and InsertOrLookupMapValue change nothing that was there: they put what
\* the reference denotes where it is.
LEMMA EnsureGood ==
  ASSUME NEW S, NEW r, NEW h, Points(S, r, h), IsPlace(r),
         NEW q, q = [r EXCEPT !.root = Ensure(r)]
  PROVE  /\ q = [root |-> q.root, addr |-> r.addr, type |-> r.type, field |-> r.field,
                 sel |-> r.sel, err |-> r.err]
         /\ q.root.type = r.root.type
         /\ \E T, g : /\ Stands(T, q, g)
                      /\ StepOK(g[Len(q.addr)], Here(q))
                      /\ Part(g[Len(q.addr)], Here(q)) = Get(r)
<1> DEFINE m == WithPart(Msg(r), Here(r), Get(r))
<1>1. /\ StepOK(Msg(r), Here(r)) /\ FieldOf(r) = Field(Msg(r), Here(r).field)
      /\ Get(r) \in Elements(S, FieldOf(r))
  BY PointsStep
<1>2. Stands(S, r, h) /\ MadeOf(S, Msg(r)) /\ Full(S) /\ Msg(r) \in S /\ Msg(r).type = r.type
  BY StandsAt DEF Points
<1>3. MadeOf(S, m)
  BY <1>1, <1>2, WithPartMade
<1>4. m.type = r.type /\ Part(m, Here(r)) = Get(r) /\ StepOK(m, Here(r))
  <2>1. Changed(Msg(r), Here(r).field, m.val[Here(r).field], m)
        /\ Part(m, Here(r)) = Get(r) /\ StepOK(m, Here(r))
    BY <1>1, <1>2, WithPartLaws
  <2> QED
    BY <1>2, <2>1 DEF Changed
<1>5. q = [r EXCEPT !.root = PutAt(r.root, r.addr, m)]
  BY DEF Ensure, Get
<1> HIDE DEF m
<1>6. /\ Rooted(q, r.root.type)
      /\ q = [root |-> q.root, addr |-> r.addr, type |-> r.type, field |-> r.field,
              sel |-> r.sel, err |-> r.err]
      /\ \E T, g : /\ Stands(T, q, g) /\ S \subseteq T /\ m \in T
                   /\ g[Len(r.addr)] = m
  BY <1>2, <1>3, <1>4, <1>5, PutMessage
<1>7. Here(q) = Here(r) /\ q.addr = r.addr
  BY <1>6 DEF Here
<1> QED
  BY <1>4, <1>6, <1>7 DEF Rooted

\* From a reference that denotes a message, into it.
LEMMA InsideGood ==
  ASSUME NEW S, NEW r, NEW h, Stands(S, r, h), StepOK(h[Len(r.addr)], Here(r)),
         FieldOf(r).kind = "msg"
  PROVE  \E e : Stands(S, Inside(r), e)
<1> DEFINE q == Inside(r)  n == Len(r.addr)
<1>1. q = [root |-> r.root, addr |-> Append(r.addr, Here(r)), type |-> FieldOf(r).of,
           field |-> None, sel |-> None, err |-> r.err]
  BY DEF Inside
<1>2. FieldOf(r) = Field(h[n], Here(r).field)
  BY DEF FieldOf, Field, Here, Stands
<1>3. Leads(S, r.root, r.addr, h)
  BY DEF Stands
<1>4. /\ Len(Append(r.addr, Here(r))) = n + 1
      /\ \E e : Leads(S, r.root, Append(r.addr, Here(r)), e) /\ e[n + 1] = Part(h[n], Here(r))
  BY <1>2, <1>3, LeadsAppend
<1>5. PICK e : Leads(S, r.root, Append(r.addr, Here(r)), e) /\ e[n + 1] = Part(h[n], Here(r))
  BY <1>4
<1>6. Full(S) /\ h[n] \in S
  BY <1>3, LeadsIn DEF Leads
<1>7. e[n + 1].type = FieldOf(r).of
  <2>1. Part(h[n], Here(r)) \in Elements(S, FieldOf(r))
    BY <1>2, <1>6, PartIn
  <2> QED
    BY <1>5, <2>1 DEF Elements
<1> HIDE DEF q, n
<1>8. Stands(S, q, e)
  BY <1>1, <1>4, <1>5, <1>7 DEF Stands, IsRef
<1> QED
  BY <1>8 DEF q

LEMMA EnterGood ==
  ASSUME NEW mutable \in BOOLEAN, NEW S, NEW r, NEW h, Points(S, r, h), r.err = None, IsPlace(r)
  PROVE  LET q == Enter(mutable, r) IN
         Ended(q, r.root.type)
         \/ (q.err = None /\ q.root.type = r.root.type /\ \E T, e : Stands(T, q, e))
<1> DEFINE fd == FieldOf(r)
           p == [r EXCEPT !.root = IF mutable THEN Ensure(r) ELSE @]
<1>1. Rooted(r, r.root.type) /\ IsRef(r) /\ Stands(S, r, h)
  BY StandsRooted DEF Points, Stands
<1>2. CASE fd.kind # "msg" /\ fd.label # "map"
  <2>1. Enter(mutable, r) \in {Throw(r, "abort"), Throw(r, "not nested")}
    BY <1>2 DEF Enter
  <2> QED
    BY <1>1, <2>1, Thrown, NoneAssumption
<1>3. CASE ~(fd.kind # "msg" /\ fd.label # "map")
  <2>1. Enter(mutable, r) = Inside(p)
    BY <1>3 DEF Enter
  <2>2. /\ p = [root |-> p.root, addr |-> r.addr, type |-> r.type, field |-> r.field,
                sel |-> r.sel, err |-> r.err]
        /\ p.root.type = r.root.type
        /\ \E T, g : Stands(T, p, g) /\ StepOK(g[Len(p.addr)], Here(p))
    <3>1. CASE mutable = TRUE
      <4>1. p = [r EXCEPT !.root = Ensure(r)]
        BY <3>1
      <4> HIDE DEF p
      <4> QED
        BY <4>1, EnsureGood
    <3>2. CASE mutable = FALSE
      <4>1. p = [r EXCEPT !.root = r.root]
        BY <3>2
      <4>2. p = r
        BY <1>1, <4>1 DEF IsRef
      <4>3. StepOK(h[Len(r.addr)], Here(r))
        BY <1>1, PointsStep, StandsAt
      <4> HIDE DEF p
      <4> QED
        BY <1>1, <4>2, <4>3 DEF IsRef
    <3> QED
      BY <3>1, <3>2
  <2> HIDE DEF p
  <2>3. PICK T, g : Stands(T, p, g) /\ StepOK(g[Len(p.addr)], Here(p))
    BY <2>2
  <2>4. FieldOf(p) = fd /\ p.err = None
    BY <2>2 DEF FieldOf
  <2>5. CASE fd.kind # "msg"
    <3>1. Inside(p) = Throw(p, "map value")
      BY <2>4, <2>5 DEF Inside
    <3> QED
      BY <2>1, <2>2, <2>3, <3>1, StandsRooted, Thrown, NoneAssumption
  <2>6. CASE fd.kind = "msg"
    <3>1. \E e : Stands(T, Inside(p), e)
      BY <2>3, <2>4, <2>6, InsideGood
    <3>2. Inside(p).err = None /\ Inside(p).root = p.root
      BY <2>4, <2>6 DEF Inside
    <3> QED
      BY <1>1, <2>1, <2>2, <3>1, <3>2
  <2> QED
    BY <2>5, <2>6
<1> QED
  BY <1>2, <1>3

LEMMA FollowGood ==
  ASSUME NEW mutable \in BOOLEAN, NEW r, NEW t, Underway(r, t), NEW seg \in DOMAIN Index
  PROVE  Followed(Follow(mutable, r, seg), t)
<1>1. PICK S, h : Stands(S, r, h) /\ (r.field = None \/ Points(S, r, h))
  BY DEF Underway
<1>2. r.err = None /\ r.root.type = t
  BY DEF Underway
<1>3. CASE r.field = None
  <2>1. Follow(mutable, r, seg) = FindField(r, seg)
    BY <1>2, <1>3 DEF Follow
  <2> QED
    BY <1>1, <1>2, <2>1, FindFieldGood
<1>4. CASE r.field # None
  <2>1. Points(S, r, h)
    BY <1>1, <1>4
  <2>2. CASE r.sel = None /\ IsMap(r)
    <3>1. Follow(mutable, r, seg) = FindKey(mutable, r, seg)
      BY <1>2, <1>4, <2>2 DEF Follow
    <3> QED
      BY <1>2, <2>1, <2>2, <3>1, FindKeyGood
  <2>3. CASE r.sel = None /\ IsArray(r) /\ ~IsMap(r)
    <3>1. Follow(mutable, r, seg) = FindIndex(r, seg)
      BY <1>2, <1>4, <2>3 DEF Follow
    <3>2. IsFd(FieldOf(r))
      BY <2>1, StandsAt, SchemaFd DEF Points, FieldOf
    <3>3. FieldOf(r).label = "array"
      BY <2>3, <3>2 DEF IsArray, IsMap, IsFd
    <3> QED
      BY <1>2, <2>1, <3>1, <3>3, FindIndexGood
  <2>4. CASE r.sel # None \/ ~IsArray(r)
    <3>1. IsPlace(r)
      BY <2>4 DEF IsPlace, IsArray
    <3>2. Follow(mutable, r, seg) = FindField(Enter(mutable, r), seg)
      BY <1>2, <1>4, <2>4 DEF Follow, IsMap, IsArray
    <3> DEFINE q == Enter(mutable, r)
    <3>3. Ended(q, t) \/ (q.err = None /\ q.root.type = t /\ \E T, e : Stands(T, q, e))
      BY <1>2, <2>1, <3>1, EnterGood
    <3> HIDE DEF q
    <3>4. CASE Ended(q, t)
      <4>1. FindField(q, seg) = q
        BY <3>4 DEF Ended, FindField
      <4> QED
        BY <3>2, <3>4, <4>1 DEF Followed, q
    <3>5. CASE ~Ended(q, t)
      BY <3>2, <3>3, <3>5, FindFieldGood DEF q
    <3> QED
      BY <3>4, <3>5
  <2> QED
    BY <2>2, <2>3, <2>4
<1> QED
  BY <1>3, <1>4

\* h is where the first n of the segments lead.
Walk(mutable, r, segs, n, h) ==
    /\ h[0] = r
    /\ \A i \in 1..n : h[i] = Follow(mutable, h[i - 1], segs[i])

LEMMA WalkExists ==
  ASSUME NEW mutable, NEW r, NEW segs, NEW N \in Nat
  PROVE  \E h : Walk(mutable, r, segs, N, h)
<1> DEFINE T == {n \in Nat : \E h : Walk(mutable, r, segs, n, h)}
<1>1. 0 \in T
  <2> DEFINE h == [i \in {0} |-> r]
  <2>1. Walk(mutable, r, segs, 0, h)
    BY DEF Walk
  <2> QED
    BY <2>1
<1>2. ASSUME NEW n \in Nat, n \in T PROVE n + 1 \in T
  <2>1. PICK h : Walk(mutable, r, segs, n, h)
    BY <1>2
  <2> DEFINE e == [i \in 0..(n + 1) |->
                     IF i = n + 1 THEN Follow(mutable, h[n], segs[n + 1]) ELSE h[i]]
  <2>2. e[0] = r /\ e[n + 1] = Follow(mutable, e[n], segs[n + 1])
    BY <2>1 DEF Walk
  <2>3. ASSUME NEW i \in 1..n PROVE e[i] = Follow(mutable, e[i - 1], segs[i])
    BY <2>1 DEF Walk
  <2>4. \A i \in 1..(n + 1) : i = n + 1 \/ i \in 1..n
    OBVIOUS
  <2>5. (n + 1) - 1 = n
    OBVIOUS
  <2> HIDE DEF e
  <2>6. \A i \in 1..(n + 1) : e[i] = Follow(mutable, e[i - 1], segs[i])
    BY <2>2, <2>3, <2>4, <2>5
  <2>7. Walk(mutable, r, segs, n + 1, e)
    BY <2>2, <2>6 DEF Walk
  <2> QED
    BY <2>7
<1> HIDE DEF T
<1>3. N \in T
  BY <1>1, <1>2, Induct
<1> QED
  BY <1>3 DEF T

\* The reference before the first segment.
StartOf(root) == [root |-> root, addr |-> <<>>, type |-> root.type, field |-> None,
                  sel |-> None, err |-> None]

LEMMA ResolveIs ==
  ASSUME NEW mutable, NEW root, NEW path, Len(path.fields) \in Nat, root.type = path.type,
         NEW h, Walk(mutable, StartOf(root), path.fields, Len(path.fields), h)
  PROVE  Resolve(mutable, root, path) = h[Len(path.fields)]
<1> DEFINE segs == path.fields
           n == Len(segs)
           st == StartOf(root)
           Is(e) == e = [i \in 0..n |-> IF i = 0 THEN st ELSE Follow(mutable, e[i - 1], segs[i])]
           f == CHOOSE e : Is(e)
           t == [i \in 0..n |-> h[i]]
<1>1. n \in Nat
  OBVIOUS
<1>2. Resolve(mutable, root, path) = f[n]
  BY DEF Resolve, StartOf
<1> HIDE DEF st
<1>3. Is(t)
  <2>1. \A i \in 0..n : i = 0 \/ (i \in 1..n /\ i - 1 \in 0..n)
    BY <1>1
  <2>2. \A i \in 0..n : h[i] = IF i = 0 THEN st ELSE Follow(mutable, t[i - 1], segs[i])
    BY <1>1, <2>1 DEF Walk, st
  <2> QED
    BY <2>2, Zenon
<1>4. Is(f)
  BY <1>3
<1> HIDE DEF f
<1>5. f[0] = h[0]
  BY <1>1, <1>4 DEF Walk, st
<1>6. ASSUME NEW i \in 1..n, f[i - 1] = h[i - 1] PROVE f[i] = h[i]
  <2>1. i \in 0..n /\ i # 0
    BY <1>1
  <2>2. f[i] = Follow(mutable, f[i - 1], segs[i])
    BY <1>4, <2>1
  <2> QED
    BY <1>6, <2>2 DEF Walk
<1> HIDE DEF Is, n
<1>7. f[n] = h[n]
  BY <1>1, <1>5, <1>6, Agree
<1> QED
  BY <1>2, <1>7 DEF n

LEMMA StartUnderway ==
  ASSUME NEW root, WellMade(root)
  PROVE  Underway(StartOf(root), root.type)
<1> DEFINE r == StartOf(root)  h == [i \in {0} |-> root]
<1>1. PICK S : Full(S) /\ root \in S
  BY DEF WellMade
<1>2. /\ IsRef(r) /\ r.root = root /\ r.addr = <<>> /\ r.type = root.type
      /\ r.field = None /\ r.err = None
  BY DEF StartOf, IsRef
<1>3. IsSeq(<<>>) /\ Len(<<>>) = 0
  BY DEF IsSeq
<1>4. h[0] = root
  OBVIOUS
<1> HIDE DEF r, h
<1>5. Leads(S, root, <<>>, h)
  BY <1>1, <1>3, <1>4 DEF Leads, Reach
<1>6. Stands(S, r, h)
  BY <1>2, <1>3, <1>4, <1>5 DEF Stands
<1>7. Underway(r, root.type)
  BY <1>2, <1>6 DEF Underway
<1> QED
  BY <1>7 DEF r

LEMMA UnderwayFrom ==
  ASSUME NEW r, NEW t, Denotes(r, t)
  PROVE  Underway(r, t)
  BY DEF Denotes, Underway, Points

\* A path leads to something, or is stopped.
LEMMA ResolveGood ==
  ASSUME NEW mutable \in BOOLEAN, NEW root, WellMade(root), NEW path,
         path.fields \in Seq(DOMAIN Index), path.fields # <<>>
  PROVE  Followed(Resolve(mutable, root, path), root.type)
<1> DEFINE segs == path.fields
           n == Len(segs)
           st == StartOf(root)
<1>1. n \in Nat /\ n >= 1 /\ \A i \in 1..n : segs[i] \in DOMAIN Index
  OBVIOUS
<1>2. Underway(st, root.type)
  BY StartUnderway
<1>3. CASE root.type # path.type
  <2>1. Resolve(mutable, root, path) = Throw(st, "type mismatch")
    BY <1>3 DEF Resolve, StartOf
  <2>2. Rooted(st, root.type)
    BY <1>2, StandsRooted DEF Underway
  <2> HIDE DEF st
  <2> QED
    BY <2>1, <2>2, Thrown, NoneAssumption DEF Followed
<1>4. CASE root.type = path.type
  <2>1. PICK h : Walk(mutable, st, segs, n, h)
    BY <1>1, WalkExists
  <2>2. Resolve(mutable, root, path) = h[n]
    BY <1>1, <1>4, <2>1, ResolveIs
  <2> DEFINE t == root.type
             I == {i \in 0..n : i # 0 => Followed(h[i], t)}
  <2> HIDE DEF st, n, segs, t
  <2>3. 0 \in I
    BY <1>1
  <2>4. ASSUME NEW i \in 1..n, i - 1 \in I PROVE i \in I
    <3>1. h[i] = Follow(mutable, h[i - 1], segs[i]) /\ i \in 0..n
      BY <2>1 DEF Walk
    <3>2. CASE i = 1
      <4>1. h[i - 1] = st
        BY <2>1, <3>2 DEF Walk
      <4>2. Followed(h[i], t)
        BY <1>1, <1>2, <3>1, <4>1, FollowGood DEF t
      <4> QED
        BY <3>1, <4>2
    <3>3. CASE i # 1
      <4>1. Followed(h[i - 1], t)
        BY <2>4, <3>3
      <4>2. CASE Ended(h[i - 1], t)
        <5>1. h[i] = h[i - 1]
          BY <3>1, <4>2 DEF Ended, Follow
        <5> QED
          BY <3>1, <4>1, <5>1
      <4>3. CASE Denotes(h[i - 1], t)
        <5>1. Followed(h[i], t)
          BY <1>1, <3>1, <4>3, UnderwayFrom, FollowGood
        <5> QED
          BY <3>1, <5>1
      <4> QED
        BY <4>1, <4>2, <4>3 DEF Followed
    <3> QED
      BY <3>2, <3>3
  <2> HIDE DEF I
  <2>5. \A i \in 0..n : i \in I
    BY <1>1, <2>3, <2>4, InductTo
  <2>6. Followed(h[n], t)
    <3>1. n \in 0..n /\ n # 0
      BY <1>1
    <3> QED
      BY <2>5, <3>1 DEF I
  <2> QED
    BY <2>2, <2>6 DEF n, t, segs
<1> QED
  BY <1>3, <1>4

-----------------------------------------------------------------------------
(***************************************************************************)
(* What is done at the end of a path.                                      *)
(***************************************************************************)

LEMMA PointsMore ==
  ASSUME NEW S, NEW r, NEW h, Points(S, r, h), NEW T, Full(T), S \subseteq T
  PROVE  Points(T, r, h)
  BY LeadsMore DEF Points, Stands

\* What the reference denotes has the kind its field says.
LEMMA FieldFills ==
  ASSUME NEW S, NEW r, NEW h, Points(S, r, h)
  PROVE  IsFd(FieldOf(r)) /\ Fills(S, FieldOf(r), Msg(r).val[r.field])
<1>1. MadeOf(S, Msg(r)) /\ Msg(r).type = r.type /\ r.type \in Types
  BY StandsAt DEF Points
<1> QED
  BY <1>1, SchemaFd DEF Points, MadeOf, FieldOf

\* A value put where the reference denotes is what it denotes then.
LEMMA PutGood ==
  ASSUME NEW S, NEW r, NEW h, Points(S, r, h), IsPlace(r), NEW v \in Elements(S, FieldOf(r))
  PROVE  /\ Rooted(Put(r, v), r.root.type)
         /\ Get(Put(r, v)) = v
         /\ Put(r, v).err = r.err
<1> DEFINE m == WithPart(Msg(r), Here(r), v)
           q == Put(r, v)
<1>1. /\ StepOK(Msg(r), Here(r)) /\ FieldOf(r) = Field(Msg(r), Here(r).field)
  BY PointsStep
<1>2. Stands(S, r, h) /\ MadeOf(S, Msg(r)) /\ Full(S) /\ Msg(r) \in S /\ Msg(r).type = r.type
  BY StandsAt DEF Points
<1>3. MadeOf(S, m)
  BY <1>1, <1>2, WithPartMade
<1>4. m.type = r.type /\ Part(m, Here(r)) = v
  <2>1. Changed(Msg(r), Here(r).field, m.val[Here(r).field], m) /\ Part(m, Here(r)) = v
    BY <1>1, <1>2, WithPartLaws
  <2> QED
    BY <1>2, <2>1 DEF Changed
<1>5. q = [r EXCEPT !.root = PutAt(r.root, r.addr, m)]
  BY DEF Put
<1> HIDE DEF m, q
<1>6. /\ Rooted(q, r.root.type)
      /\ q = [root |-> q.root, addr |-> r.addr, type |-> r.type, field |-> r.field,
              sel |-> r.sel, err |-> r.err]
      /\ \E T, g : /\ Stands(T, q, g) /\ S \subseteq T /\ m \in T
                   /\ g[Len(r.addr)] = m
  BY <1>2, <1>3, <1>4, <1>5, PutMessage
<1>7. Here(q) = Here(r) /\ q.addr = r.addr /\ q.err = r.err
  BY <1>6 DEF Here
<1>8. Msg(q) = m
  BY <1>6, <1>7, StandsAt
<1>9. Get(q) = v
  BY <1>4, <1>7, <1>8 DEF Get
<1> QED
  BY <1>6, <1>7, <1>9 DEF q

\* So for the value of a whole field, and the reference goes on denoting it.
LEMMA PutWholeGood ==
  ASSUME NEW S, NEW r, NEW h, Points(S, r, h), NEW x, Fills(S, FieldOf(r), x)
  PROVE  LET q == PutWhole(r, x) IN
         /\ Rooted(q, r.root.type)
         /\ Msg(q).val[r.field] = x
         /\ q = [root |-> q.root, addr |-> r.addr, type |-> r.type, field |-> r.field,
                 sel |-> r.sel, err |-> r.err]
         /\ r.sel = None => \E T, g : Points(T, q, g)
<1> DEFINE m == [Msg(r) EXCEPT !.val[r.field] = x]
           q == PutWhole(r, x)
<1>1. Stands(S, r, h) /\ MadeOf(S, Msg(r)) /\ Msg(r).type = r.type
      /\ r.field \in DOMAIN Schema[Msg(r).type] /\ FieldOf(r) = Schema[Msg(r).type][r.field]
  BY StandsAt DEF Points, FieldOf
<1>2. Changed(Msg(r), r.field, x, m)
  BY <1>1, MadeShaped, FieldChanged
<1>3. q = [r EXCEPT !.root = PutAt(r.root, r.addr, m)]
  BY DEF PutWhole
<1> HIDE DEF m, q
<1>4. MadeOf(S, m) /\ m.type = r.type /\ m.val[r.field] = x
  BY <1>1, <1>2, ChangedMade DEF Changed
<1>5. /\ Rooted(q, r.root.type)
      /\ q = [root |-> q.root, addr |-> r.addr, type |-> r.type, field |-> r.field,
              sel |-> r.sel, err |-> r.err]
      /\ \E T, g : /\ Stands(T, q, g) /\ S \subseteq T /\ m \in T
                   /\ g[Len(r.addr)] = m
  BY <1>1, <1>3, <1>4, PutMessage
<1>6. PICK T, g : Stands(T, q, g) /\ g[Len(r.addr)] = m
  BY <1>5
<1>7. q.addr = r.addr /\ q.sel = r.sel /\ q.field = r.field /\ q.type = r.type
  BY <1>5
<1>8. Msg(q) = m
  BY <1>6, <1>7, StandsAt
<1>9. r.sel = None => Points(T, q, g)
  BY <1>6, <1>7 DEF Points
<1> QED
  BY <1>4, <1>5, <1>8, <1>9 DEF q

\* Reference r denotes a whole array.
Whole(q, t) == Denotes(q, t) /\ FieldOf(q).label = "array" /\ q.sel = None

\* add_...: the array has one element more.
LEMMA AddGood ==
  ASSUME NEW S, NEW r, NEW h, Points(S, r, h), r.err = None, FieldOf(r).label = "array",
         r.sel = None, NEW v \in Elements(S, FieldOf(r))
  PROVE  /\ Whole(Add(r, v), r.root.type)
         /\ FieldOf(Add(r, v)) = FieldOf(r)
         /\ Msg(Add(r, v)).val[r.field] = Append(Msg(r).val[r.field], v)
<1> DEFINE s == Msg(r).val[r.field]  x == Append(s, v)  q == PutWhole(r, x)
           A == Elements(S, FieldOf(r))
<1>1. s \in Seq(A)
  BY FieldFills DEF Fills
<1>2. x \in Seq(A)
  <2> HIDE DEF A, s
  <2> QED
    BY <1>1 DEF A
<1>3. Fills(S, FieldOf(r), x)
  BY <1>2 DEF Fills
<1> HIDE DEF x
<1>4. /\ Rooted(q, r.root.type)
      /\ Msg(q).val[r.field] = x
      /\ q = [root |-> q.root, addr |-> r.addr, type |-> r.type, field |-> r.field,
              sel |-> r.sel, err |-> r.err]
      /\ \E T, g : Points(T, q, g)
  BY <1>3, PutWholeGood
<1>5. Add(r, v) = q
  BY DEF Add, x
<1> HIDE DEF q
<1>6. FieldOf(q) = FieldOf(r) /\ q.sel = None /\ q.err = None
  BY <1>4 DEF FieldOf
<1>7. Whole(q, r.root.type)
  BY <1>4, <1>6 DEF Whole, Denotes, Rooted
<1> QED
  BY <1>4, <1>5, <1>6, <1>7 DEF x

LEMMA ClearGood ==
  ASSUME NEW S, NEW r, NEW h, Points(S, r, h)
  PROVE  Rooted(Clear(r), r.root.type)
<1>1. Fills(S, FieldOf(r), Zero(FieldOf(r)))
  BY FieldFills, ZeroFills
<1>2. Rooted(PutWhole(r, Zero(FieldOf(r))), r.root.type)
  BY <1>1, PutWholeGood
<1>3. Rooted(Throw(r, "array element"), r.root.type)
  BY StandsRooted, Thrown, NoneAssumption DEF Points, Ended
<1> QED
  BY <1>2, <1>3 DEF Clear

\* Element i (counted from 0) of s, moved up k places.
Moved(s, i, k) ==
    [j \in DOMAIN s |-> IF i + 1 <= j /\ j <= i + k THEN s[j + 1]
                        ELSE IF j = i + k + 1 THEN s[i + 1] ELSE s[j]]

LEMMA MovedOne ==
  ASSUME NEW A, NEW s \in Seq(A), NEW i \in 0..(Len(s) - 1), NEW k \in 1..(Len(s) - 1 - i)
  PROVE  Moved(s, i, k) = Swapped(Moved(s, i, k - 1), i + k)
<1> DEFINE u == Moved(s, i, k - 1)  w == Swapped(u, i + k)  n == Len(s)
<1>1. n \in Nat /\ DOMAIN s = 1..n /\ i \in Int /\ k \in Int /\ 0 <= i /\ 1 <= k /\ k <= n - 1 - i
  OBVIOUS
<1>2. i + k \in 1..n /\ i + k + 1 \in 1..n /\ i + 1 \in 1..n
  BY <1>1
<1>3. u = [j \in 1..n |-> IF i + 1 <= j /\ j <= i + (k - 1) THEN s[j + 1]
                        ELSE IF j = i + (k - 1) + 1 THEN s[i + 1] ELSE s[j]]
  BY <1>1 DEF Moved
<1> HIDE DEF n
<1>4. u[i + k] = s[i + 1] /\ u[i + k + 1] = s[i + k + 1]
  <2> HIDE DEF u
  <2> QED
    BY <1>1, <1>2, <1>3
<1> HIDE DEF u
<1>5. w = [u EXCEPT ![i + k] = u[i + k + 1], ![i + k + 1] = u[i + k]]
  BY DEF Swapped
<1>6. w = [j \in 1..n |-> IF j = i + k + 1 THEN u[i + k]
                         ELSE IF j = i + k THEN u[i + k + 1] ELSE u[j]]
  <2>1. [u EXCEPT ![i + k] = u[i + k + 1], ![i + k + 1] = u[i + k]]
          = [[u EXCEPT ![i + k] = u[i + k + 1]] EXCEPT ![i + k + 1] = u[i + k]]
    OBVIOUS
  <2> QED
    BY <1>1, <1>2, <1>3, <1>5, <2>1
<1> HIDE DEF w
<1>7. ASSUME NEW j \in 1..n
      PROVE  w[j] = IF i + 1 <= j /\ j <= i + k THEN s[j + 1]
                    ELSE IF j = i + k + 1 THEN s[i + 1] ELSE s[j]
  <2>1. CASE j = i + k + 1
    BY <1>1, <1>4, <1>6, <2>1
  <2>2. CASE j = i + k
    BY <1>1, <1>4, <1>6, <2>2
  <2>3. CASE j # i + k /\ j # i + k + 1
    <3>1. w[j] = u[j]
      BY <1>6, <2>3
    <3>2. j \in Int /\ (j <= i + k <=> j <= i + (k - 1)) /\ j # i + (k - 1) + 1
      BY <1>1, <2>3
    <3> QED
      BY <1>3, <2>3, <3>1, <3>2
  <2> QED
    BY <2>1, <2>2, <2>3
<1> QED
  BY <1>1, <1>6, <1>7 DEF Moved, w, u

\* s without its element i (counted from 0).
Dropped(s, i) == [j \in 1..(Len(s) - 1) |-> IF j <= i THEN s[j] ELSE s[j + 1]]

LEMMA MovedUp ==
  ASSUME NEW A, NEW s \in Seq(A), NEW i \in 0..(Len(s) - 1)
  PROVE  /\ SubSeq(Moved(s, i, Len(s) - 1 - i), 1, Len(s) - 1) = Dropped(s, i)
         /\ Dropped(s, i) \in Seq(A) /\ Len(Dropped(s, i)) = Len(s) - 1
         /\ Moved(s, i, 0) = s
<1> DEFINE n == Len(s)  u == Moved(s, i, n - 1 - i)  d == Dropped(s, i)
<1>1. n \in Nat /\ n - 1 \in Nat /\ DOMAIN s = 1..n /\ i \in Int /\ 0 <= i /\ i <= n - 1
      /\ s = [j \in 1..n |-> s[j]] /\ \A j \in 1..n : s[j] \in A
  OBVIOUS
<1> HIDE DEF n
<1>2. u = [j \in 1..n |-> IF i + 1 <= j /\ j <= n - 1 THEN s[j + 1]
                         ELSE IF j = n THEN s[i + 1] ELSE s[j]]
  <2>1. i + (n - 1 - i) = n - 1 /\ i + (n - 1 - i) + 1 = n
    BY <1>1
  <2> QED
    BY <1>1, <2>1 DEF Moved
<1>3. d = [j \in 1..(n - 1) |-> IF j <= i THEN s[j] ELSE s[j + 1]]
  BY DEF Dropped, n
<1> HIDE DEF u, d
<1>4. SubSeq(u, 1, n - 1) = [j \in 1..(n - 1) |-> u[j]]
  <2>1. SubSeq(u, 1, n - 1) = [j \in 1..(1 + (n - 1) - 1) |-> u[1 + j - 1]]
    BY <1>1
  <2>2. 1 + (n - 1) - 1 = n - 1 /\ \A j \in 1..(n - 1) : 1 + j - 1 = j
    BY <1>1
  <2> QED
    BY <1>1, <2>1, <2>2
<1>5. ASSUME NEW j \in 1..(n - 1) PROVE u[j] = d[j] /\ d[j] \in A
  <2>1. j \in 1..n /\ j + 1 \in 1..n /\ j # n /\ j <= n - 1 /\ (i + 1 <= j <=> ~(j <= i))
    BY <1>1
  <2>2. u[j] = IF i + 1 <= j THEN s[j + 1] ELSE s[j]
    BY <1>2, <2>1
  <2>3. d[j] = IF j <= i THEN s[j] ELSE s[j + 1]
    BY <1>3
  <2> QED
    BY <1>1, <2>1, <2>2, <2>3
<1>6. d = [j \in 1..(n - 1) |-> d[j]]
  BY <1>3
<1>7. SubSeq(u, 1, n - 1) = d
  BY <1>4, <1>5, <1>6
<1>8. d \in Seq(A) /\ Len(d) = n - 1
  BY <1>1, <1>5, <1>6
<1>9. Moved(s, i, 0) = s
  <2>1. \A j \in 1..n : ~(i + 1 <= j /\ j <= i + 0) /\ (j = i + 0 + 1 => s[i + 1] = s[j])
    BY <1>1
  <2>2. Moved(s, i, 0) = [j \in 1..n |-> s[j]]
    BY <1>1, <2>1 DEF Moved
  <2> QED
    BY <1>1, <2>2
<1> QED
  BY <1>7, <1>8, <1>9 DEF n, u, d

\* del(): the loop of swaps takes out one element and moves up those behind it.
LEMMA DelIs ==
  ASSUME NEW S, NEW r, NEW h, Points(S, r, h), IsArrayElement(r)
  PROVE  /\ Del(r) = PutWhole(r, Dropped(Msg(r).val[r.field], r.sel))
         /\ Fills(S, FieldOf(r), Dropped(Msg(r).val[r.field], r.sel))
<1> DEFINE arr == Msg(r).val[r.field]
           n == Len(arr)
           N == n - 1 - r.sel
           A == Elements(S, FieldOf(r))
           Is(e) == e = [i \in 0..N |-> IF i = 0 THEN arr ELSE Swapped(e[i - 1], r.sel + i)]
           f == CHOOSE e : Is(e)
           t == [i \in 0..N |-> Moved(arr, r.sel, i)]
<1>1. arr \in Seq(A)
  BY FieldFills DEF Fills, IsArrayElement
<1>2. r.sel \in 0..(n - 1)
  BY StandsAt DEF Points, IsArrayElement
<1>3. Del(r) = PutWhole(r, SubSeq(f[N], 1, n - 1))
  BY DEF Del
<1> HIDE DEF A, arr
<1>4. N \in Nat /\ N \in 0..N
  BY <1>1, <1>2
<1>5. Is(t)
  <2>1. \A i \in 0..N : i = 0 \/ (i # 0 /\ i \in 1..N /\ i - 1 \in 0..N)
    BY <1>4
  <2>2. Moved(arr, r.sel, 0) = arr
    BY <1>1, <1>2, MovedUp
  <2>3. ASSUME NEW i \in 0..N
        PROVE  Moved(arr, r.sel, i) = IF i = 0 THEN arr ELSE Swapped(t[i - 1], r.sel + i)
    <3>1. CASE i = 0
      BY <2>2, <3>1
    <3>2. CASE i # 0
      <4>1. i \in 1..N /\ i - 1 \in 0..N
        BY <2>1, <3>2
      <4>2. Moved(arr, r.sel, i) = Swapped(Moved(arr, r.sel, i - 1), r.sel + i)
        BY <1>1, <1>2, <4>1, MovedOne
      <4>3. t[i - 1] = Moved(arr, r.sel, i - 1)
        <5> HIDE DEF N
        <5> QED
          BY <4>1
      <4> HIDE DEF t
      <4> QED
        BY <3>2, <4>2, <4>3
    <3> QED
      BY <3>1, <3>2
  <2> QED
    BY <2>3, Zenon
<1>6. Is(f)
  BY <1>5
<1> HIDE DEF f
<1> DEFINE k == [i \in 0..N |-> Moved(arr, r.sel, i)]
<1> HIDE DEF N
<1>7. f[0] = k[0]
  BY <1>1, <1>2, <1>4, <1>6, MovedUp
<1>8. ASSUME NEW i \in 1..N, f[i - 1] = k[i - 1] PROVE f[i] = k[i]
  <2>1. i \in 0..N /\ i # 0 /\ i - 1 \in 0..N
    BY <1>4
  <2>2. f[i] = Swapped(f[i - 1], r.sel + i)
    BY <1>6, <2>1
  <2>3. k[i] = Swapped(k[i - 1], r.sel + i)
    <3>1. k[i] = Moved(arr, r.sel, i) /\ k[i - 1] = Moved(arr, r.sel, i - 1)
      BY <2>1
    <3> HIDE DEF k
    <3> QED
      BY <1>1, <1>2, <3>1, MovedOne DEF N
  <2> QED
    BY <1>8, <2>2, <2>3
<1> HIDE DEF Is
<1>9. f[N] = k[N]
  <2> HIDE DEF k
  <2> QED
    BY <1>4, <1>7, <1>8, Agree
<1>10. k[N] = Moved(arr, r.sel, N)
  BY <1>4
<1>11. SubSeq(Moved(arr, r.sel, N), 1, n - 1) = Dropped(arr, r.sel) /\ Dropped(arr, r.sel) \in Seq(A)
  BY <1>1, <1>2, MovedUp DEF N
<1>12. Fills(S, FieldOf(r), Dropped(arr, r.sel))
  BY <1>11 DEF Fills, IsArrayElement, A
<1> QED
  BY <1>3, <1>9, <1>10, <1>11, <1>12 DEF arr

-----------------------------------------------------------------------------
(***************************************************************************)
(* MergeFrom.                                                              *)
(***************************************************************************)

LEMMA MergedFills ==
  ASSUME NEW S, NEW fd, IsFd(fd), NEW mine, Fills(S, fd, mine), NEW theirs, Fills(S, fd, theirs),
         NEW sub, (fd.label = "one" /\ fd.kind = "msg" /\ mine # <<>> /\ theirs # <<>>)
                     => sub \in Elements(S, fd)
  PROVE  Fills(S, fd, Merged(fd, mine, theirs, sub))
<1> DEFINE x == Merged(fd, mine, theirs, sub)  A == Elements(S, fd)
<1>1. CASE fd.label = "array"
  <2>1. mine \in Seq(A) /\ theirs \in Seq(A)
    BY <1>1 DEF Fills
  <2> HIDE DEF A
  <2>2. mine \o theirs \in Seq(A)
    BY <2>1
  <2>3. x = mine \o theirs
    BY <1>1 DEF Merged
  <2> HIDE DEF x
  <2> QED
    BY <1>1, <2>2, <2>3 DEF Fills, A, x
<1>2. CASE fd.label = "map"
  <2>1. x = Over(theirs, mine)
    BY <1>2 DEF Merged
  <2>2. /\ \A k \in DOMAIN mine : mine[k] \in A
        /\ \A k \in DOMAIN theirs : theirs[k] \in A
    BY <1>2 DEF Fills
  <2> HIDE DEF A, x
  <2>3. x = [k \in DOMAIN x |-> x[k]] /\ \A k \in DOMAIN x : x[k] \in A
    BY <2>1, <2>2 DEF Over
  <2> QED
    BY <1>2, <2>3 DEF Fills, A, x
<1>3. CASE fd.label = "one" /\ theirs = Zero(fd)
  <2>1. x = mine
    BY <1>3 DEF Merged
  <2> QED
    BY <2>1
<1>4. CASE fd.label = "one" /\ theirs # Zero(fd) /\ ~(fd.kind = "msg" /\ mine # <<>>)
  <2>1. x = theirs
    BY <1>4 DEF Merged
  <2> QED
    BY <2>1
<1>5. CASE fd.label = "one" /\ theirs # Zero(fd) /\ fd.kind = "msg" /\ mine # <<>>
  <2>1. x = <<sub>> /\ theirs # <<>>
    BY <1>5 DEF Merged, Zero
  <2> QED
    BY <1>5, <2>1 DEF Fills
<1> QED
  BY <1>1, <1>2, <1>3, <1>4, <1>5 DEF IsFd

\* m is a with, in every field, what merging b into it makes of the field.
MergeIs(a, b, Subs, m) ==
    /\ m = [type |-> a.type, val |-> m.val]
    /\ m.val = [f \in DOMAIN a.val |-> m.val[f]]
    /\ \A f \in DOMAIN a.val :
          m.val[f] = Merged(Schema[a.type][f], a.val[f], b.val[f], Subs[f])

LEMMA MergeMade ==
  ASSUME NEW S, NEW a, MadeOf(S, a), NEW b, MadeOf(S, b), a.type = b.type, NEW Subs,
         NEW m, MergeIs(a, b, Subs, m),
         \A f \in DOMAIN a.val :
            (/\ Schema[a.type][f].label = "one" /\ Schema[a.type][f].kind = "msg"
             /\ a.val[f] # <<>> /\ b.val[f] # <<>>)
            => Subs[f] \in Elements(S, Schema[a.type][f])
  PROVE  MadeOf(S, m)
<1>1. /\ a.type \in Types /\ DOMAIN a.val = DOMAIN Schema[a.type]
      /\ DOMAIN m.val = DOMAIN a.val /\ m.type = a.type
  BY DEF MadeOf, MergeIs
<1>2. ASSUME NEW f \in DOMAIN m.val PROVE Fills(S, Schema[m.type][f], m.val[f])
  <2>1. f \in DOMAIN Schema[a.type] /\ f \in DOMAIN a.val
    BY <1>1
  <2>2. IsFd(Schema[a.type][f])
    BY <1>1, <2>1, SchemaFd
  <2>3. Fills(S, Schema[a.type][f], a.val[f]) /\ Fills(S, Schema[a.type][f], b.val[f])
    BY <1>1, <2>1 DEF MadeOf
  <2>4. m.val[f] = Merged(Schema[a.type][f], a.val[f], b.val[f], Subs[f])
    BY <2>1 DEF MergeIs
  <2> QED
    BY <1>1, <2>1, <2>2, <2>3, <2>4, MergedFills
<1> QED
  BY <1>1, <1>2 DEF MadeOf, MergeIs

\* Within a message, a message of the other replaces the one there.
Inner(a, b) == MergeWith(LAMBDA c, d : d, a, b)

\* What becomes of the singular messages both have, field by field.
InnerSubs(a, b) == [f \in DOMAIN a.val |-> b.val[f][1]]
OuterSubs(a, b) == [f \in DOMAIN a.val |-> Inner(a.val[f][1], b.val[f][1])]

LEMMA InnerIs ==
  ASSUME NEW S, NEW a, MadeOf(S, a), NEW b
  PROVE  MergeIs(a, b, InnerSubs(a, b), Inner(a, b))
<1> DEFINE v == [f \in DOMAIN a.val |-> Merged(Schema[a.type][f], a.val[f], b.val[f], b.val[f][1])]
<1>1. Inner(a, b) = [a EXCEPT !.val = v]
  BY DEF Inner, MergeWith, Field
<1>2. a = [type |-> a.type, val |-> a.val]
  BY DEF MadeOf
<1>3. v = [f \in DOMAIN a.val |-> v[f]]
  OBVIOUS
<1>4. ASSUME NEW f \in DOMAIN a.val
      PROVE  v[f] = Merged(Schema[a.type][f], a.val[f], b.val[f], InnerSubs(a, b)[f])
  BY DEF InnerSubs
<1> HIDE DEF v
<1>5. Inner(a, b) = [type |-> a.type, val |-> v]
  BY <1>1, <1>2
<1> DEFINE m == Inner(a, b)
<1>6. m.type = a.type /\ m.val = v /\ m = [type |-> a.type, val |-> m.val]
  BY <1>5
<1> HIDE DEF m
<1> SUFFICES MergeIs(a, b, InnerSubs(a, b), m)
  BY DEF m
<1> QED
  BY <1>3, <1>4, <1>6 DEF MergeIs

LEMMA OuterIs ==
  ASSUME NEW S, NEW a, MadeOf(S, a), NEW b
  PROVE  MergeIs(a, b, OuterSubs(a, b), MergeFrom(a, b))
<1> DEFINE v == [f \in DOMAIN a.val |->
                   Merged(Schema[a.type][f], a.val[f], b.val[f], Inner(a.val[f][1], b.val[f][1]))]
<1>1. MergeFrom(a, b) = [a EXCEPT !.val = v]
  BY DEF MergeFrom, Inner, MergeWith, Field
<1>2. a = [type |-> a.type, val |-> a.val]
  BY DEF MadeOf
<1>3. v = [f \in DOMAIN a.val |-> v[f]]
  OBVIOUS
<1>4. ASSUME NEW f \in DOMAIN a.val
      PROVE  v[f] = Merged(Schema[a.type][f], a.val[f], b.val[f], OuterSubs(a, b)[f])
  BY DEF OuterSubs
<1> HIDE DEF v
<1>5. MergeFrom(a, b) = [type |-> a.type, val |-> v]
  BY <1>1, <1>2
<1> DEFINE m == MergeFrom(a, b)
<1>6. m.type = a.type /\ m.val = v /\ m = [type |-> a.type, val |-> m.val]
  BY <1>5
<1> HIDE DEF m
<1> SUFFICES MergeIs(a, b, OuterSubs(a, b), m)
  BY DEF m
<1> QED
  BY <1>3, <1>4, <1>6 DEF MergeIs

LEMMA MergeType ==
  ASSUME NEW a, NEW b, NEW Subs, NEW m, MergeIs(a, b, Subs, m)
  PROVE  m.type = a.type
  BY DEF MergeIs

\* A singular message that is there.
LEMMA Present ==
  ASSUME NEW S, NEW m, MadeOf(S, m), NEW f \in DOMAIN m.val,
         Schema[m.type][f].label = "one", Schema[m.type][f].kind = "msg", m.val[f] # <<>>
  PROVE  m.val[f][1] \in S /\ m.val[f][1].type = Schema[m.type][f].of
<1> DEFINE fd == Schema[m.type][f]  v == m.val[f]
<1>1. Fills(S, fd, v)
  BY DEF MadeOf
<1>2. fd.label = "one" /\ fd.kind = "msg" /\ v # <<>>
  OBVIOUS
<1> HIDE DEF fd, v
<1>3. PICK x \in Elements(S, fd) : v = <<x>>
  BY <1>1, <1>2 DEF Fills
<1>4. v[1] = x /\ x \in S /\ x.type = fd.of
  BY <1>2, <1>3 DEF Elements
<1> QED
  BY <1>4 DEF fd, v

\* Of two messages of the same type in a full set, MergeFrom makes a well made one.
LEMMA MergeFromMade ==
  ASSUME NEW S, Full(S), NEW a \in S, NEW b \in S, a.type = b.type
  PROVE  /\ MergeFrom(a, b).type = a.type
         /\ \E T : Full(T) /\ S \subseteq T /\ MergeFrom(a, b) \in T
<1> DEFINE pairs == {p \in S \X S : p[1].type = p[2].type}
           T == S \cup {Inner(p[1], p[2]) : p \in pairs}
<1>1. ASSUME NEW x \in S, NEW y \in S, x.type = y.type
      PROVE  MadeOf(S, Inner(x, y)) /\ Inner(x, y).type = x.type /\ Inner(x, y) \in T
  <2>1. MadeOf(S, x) /\ MadeOf(S, y)
    BY DEF Full, Closed
  <2>2. MergeIs(x, y, InnerSubs(x, y), Inner(x, y))
    BY <2>1, InnerIs
  <2>3. ASSUME NEW f \in DOMAIN x.val,
               Schema[x.type][f].label = "one" /\ Schema[x.type][f].kind = "msg"
               /\ x.val[f] # <<>> /\ y.val[f] # <<>>
        PROVE  InnerSubs(x, y)[f] \in Elements(S, Schema[x.type][f])
    <3>1. f \in DOMAIN y.val /\ InnerSubs(x, y)[f] = y.val[f][1]
      BY <1>1, <2>1 DEF InnerSubs, MadeOf
    <3>2. y.val[f][1] \in S /\ y.val[f][1].type = Schema[x.type][f].of
      BY <1>1, <2>1, <2>3, <3>1, Present
    <3> QED
      BY <2>3, <3>1, <3>2 DEF Elements
  <2>4. MadeOf(S, Inner(x, y))
    BY <1>1, <2>1, <2>2, <2>3, MergeMade
  <2>5. Inner(x, y).type = x.type
    BY <2>2, MergeType
  <2>6. <<x, y>> \in pairs
    BY <1>1
  <2> HIDE DEF pairs
  <2>7. Inner(x, y) \in T
    BY <2>6
  <2> QED
    BY <2>4, <2>5, <2>7
<1>2. Full(T)
  <2>1. ASSUME NEW z \in T PROVE MadeOf(T, z)
    <3>1. MadeOf(S, z)
      <4>1. CASE z \in S
        BY <4>1 DEF Full, Closed
      <4>2. CASE z \notin S
        <5>1. PICK p \in pairs : z = Inner(p[1], p[2])
          BY <4>2
        <5> QED
          BY <1>1, <5>1
      <4> QED
        BY <4>1, <4>2
    <3> HIDE DEF T
    <3>2. S \subseteq T
      BY DEF T
    <3> QED
      BY <3>1, <3>2, MadeOfMore
  <2> HIDE DEF pairs
  <2> QED
    BY <2>1 DEF Full, Closed
<1>3. S \subseteq T
  OBVIOUS
<1> HIDE DEF T, pairs
<1>4. MadeOf(S, a) /\ MadeOf(S, b) /\ MadeOf(T, a) /\ MadeOf(T, b)
  BY <1>2, <1>3 DEF Full, Closed
<1>5. MergeIs(a, b, OuterSubs(a, b), MergeFrom(a, b))
  BY <1>4, OuterIs
<1>6. ASSUME NEW f \in DOMAIN a.val,
             Schema[a.type][f].label = "one" /\ Schema[a.type][f].kind = "msg"
             /\ a.val[f] # <<>> /\ b.val[f] # <<>>
      PROVE  OuterSubs(a, b)[f] \in Elements(T, Schema[a.type][f])
  <2>1. f \in DOMAIN b.val /\ OuterSubs(a, b)[f] = Inner(a.val[f][1], b.val[f][1])
    BY <1>4 DEF OuterSubs, MadeOf
  <2>2. /\ a.val[f][1] \in S /\ a.val[f][1].type = Schema[a.type][f].of
        /\ b.val[f][1] \in S /\ b.val[f][1].type = Schema[a.type][f].of
    BY <1>4, <1>6, <2>1, Present
  <2>3. /\ Inner(a.val[f][1], b.val[f][1]) \in T
        /\ Inner(a.val[f][1], b.val[f][1]).type = Schema[a.type][f].of
    BY <1>1, <2>2
  <2> QED
    BY <1>6, <2>1, <2>3 DEF Elements
<1>7. MadeOf(T, MergeFrom(a, b))
  BY <1>4, <1>5, <1>6, MergeMade
<1>8. Full(T \cup {MergeFrom(a, b)})
  BY <1>2, <1>7, FullAdd
<1>9. MergeFrom(a, b).type = a.type
  BY <1>5, MergeType
<1> QED
  BY <1>3, <1>8, <1>9

\* merge() at the end of a path.
LEMMA MergeGood ==
  ASSUME NEW S, NEW r, NEW h, Points(S, r, h), NEW other, WellMade(other),
         FieldOf(r).kind = "msg" => other.type = FieldOf(r).of
  PROVE  Rooted(Merge(r, other), r.root.type)
<1>1. /\ Rooted(Throw(r, "not a message"), r.root.type)
      /\ Rooted(Throw(r, "abort"), r.root.type)
  BY StandsRooted, Thrown, NoneAssumption DEF Points, Ended
<1>2. CASE CppType(r) = "msg" /\ ~IsArray(r)
  <2>1. FieldOf(r).kind = "msg" /\ FieldOf(r).label = "one" /\ IsPlace(r)
    BY <1>2 DEF CppType, IsArray, IsMap, IsPlace
  <2>2. PICK S2 : Full(S2) /\ other \in S2
    BY DEF WellMade
  <2> DEFINE T == S \cup S2
  <2>3. Full(T) /\ S \subseteq T /\ other \in T
    BY <2>2, FullUnion, StandsAt DEF Points
  <2> HIDE DEF T
  <2>4. Points(T, r, h)
    BY <2>3, PointsMore
  <2>5. Get(r) \in Elements(T, FieldOf(r))
    BY <2>1, <2>4, PointsStep
  <2>6. Get(r) \in T /\ Get(r).type = other.type /\ other.type = FieldOf(r).of
    BY <2>1, <2>5 DEF Elements
  <2>7. MergeFrom(Get(r), other).type = FieldOf(r).of
    BY <2>3, <2>6, MergeFromMade
  <2>8. PICK U : Full(U) /\ T \subseteq U /\ MergeFrom(Get(r), other) \in U
    BY <2>3, <2>6, MergeFromMade
  <2>9. Points(U, r, h) /\ MergeFrom(Get(r), other) \in Elements(U, FieldOf(r))
    BY <2>1, <2>4, <2>7, <2>8, PointsMore DEF Elements
  <2>10. Rooted(Put(r, MergeFrom(Get(r), other)), r.root.type)
    BY <2>1, <2>9, PutGood
  <2> QED
    BY <1>2, <2>10 DEF Merge
<1> QED
  BY <1>1, <1>2 DEF Merge

-----------------------------------------------------------------------------
(***************************************************************************)
(* One segment of a path: what stops a reference at message m, and where   *)
(* it goes otherwise.  Only what it creates on the way tells the mutable   *)
(* reference from the other, and that a key to read must be there.         *)
(***************************************************************************)
Ref(root, addr, type, field, sel, err) ==
    [root |-> root, addr |-> addr, type |-> type, field |-> field, sel |-> sel, err |-> err]

\* The reference r with another root.
Onto(r, root) == Ref(root, r.addr, r.type, r.field, r.sel, r.err)

AtMap(r)   == r.field # None /\ r.sel = None /\ IsMap(r)
AtArray(r) == r.field # None /\ r.sel = None /\ IsArray(r) /\ ~IsMap(r)
AtPlace(r) == r.field # None /\ ~AtMap(r) /\ ~AtArray(r)

KeyOf(r, seg) == Parse[FieldOf(r).key][seg]

NoPlace(fd) ==
    IF fd.kind # "msg" /\ fd.label # "map"
    THEN IF fd.label = "array" THEN "abort" ELSE "not nested"
    ELSE IF fd.kind # "msg" THEN "map value" ELSE None

Fault(mutable, m, r, seg) ==
    CASE r.field = None -> IF seg \in DOMAIN Schema[r.type] THEN None ELSE "no field"
      [] AtMap(r) -> IF KeyOf(r, seg) = None THEN "bad key"
                     ELSE IF ~mutable /\ KeyOf(r, seg) \notin DOMAIN m.val[r.field] THEN "no key"
                     ELSE None
      [] AtArray(r) -> IF Index[seg] = None THEN "bad index"
                       ELSE IF Index[seg] >= Len(m.val[r.field]) \/ Index[seg] < 0 THEN "out of range"
                       ELSE None
      [] AtPlace(r) -> IF NoPlace(FieldOf(r)) # None THEN NoPlace(FieldOf(r))
                       ELSE IF seg \in DOMAIN Schema[FieldOf(r).of] THEN None ELSE "no field"

Onward(r, seg, root) ==
    CASE r.field = None -> Ref(root, r.addr, r.type, seg, None, None)
      [] AtMap(r)       -> Ref(root, r.addr, r.type, r.field, KeyOf(r, seg), None)
      [] AtArray(r)     -> Ref(root, r.addr, r.type, r.field, Index[seg], None)
      [] AtPlace(r)     -> Ref(root, Append(r.addr, Here(r)), FieldOf(r).of, seg, None, None)

LEMMA RefParts ==
  ASSUME NEW root, NEW addr, NEW type, NEW field, NEW sel, NEW err,
         NEW q, q = Ref(root, addr, type, field, sel, err)
  PROVE  /\ IsRef(q)
         /\ q.root = root /\ q.addr = addr /\ q.type = type
         /\ q.field = field /\ q.sel = sel /\ q.err = err
  BY DEF Ref, IsRef

LEMMA FindFieldIs ==
  ASSUME NEW r, IsRef(r), NEW seg, r.err = None
  PROVE  FindField(r, seg) =
           IF seg \in DOMAIN Schema[r.type]
           THEN Ref(r.root, r.addr, r.type, seg, None, None)
           ELSE Ref(r.root, r.addr, r.type, r.field, r.sel, "no field")
<1> DEFINE p == [r EXCEPT !.field = seg, !.sel = None]
<1>1. p = Ref(r.root, r.addr, r.type, seg, None, None)
  <2>1. p = [root |-> r.root, addr |-> r.addr, type |-> r.type, field |-> seg,
             sel |-> None, err |-> r.err]
    BY RefField
  <2> HIDE DEF p
  <2> QED
    BY <2>1 DEF Ref
<1> HIDE DEF p
<1>2. \A e : Throw(r, e) = Ref(r.root, r.addr, r.type, r.field, r.sel, e)
  BY DEF Throw, IsRef, Ref
<1> QED
  BY <1>1, <1>2 DEF FindField, p

LEMMA FindKeyIs ==
  ASSUME NEW r, IsRef(r), NEW seg, r.err = None, NEW mutable
  PROVE  FindKey(mutable, r, seg) =
           IF KeyOf(r, seg) = None
           THEN Ref(r.root, r.addr, r.type, r.field, r.sel, "bad key")
           ELSE IF ~mutable /\ KeyOf(r, seg) \notin DOMAIN Msg(r).val[r.field]
           THEN Ref(r.root, r.addr, r.type, r.field, r.sel, "no key")
           ELSE Ref(r.root, r.addr, r.type, r.field, KeyOf(r, seg), None)
<1>1. \A x : [r EXCEPT !.sel = x] = Ref(r.root, r.addr, r.type, r.field, x, None)
  BY RefChanges DEF Ref
<1>2. \A e : Throw(r, e) = Ref(r.root, r.addr, r.type, r.field, r.sel, e)
  BY DEF Throw, IsRef, Ref
<1> QED
  BY <1>1, <1>2 DEF FindKey, KeyOf

LEMMA FindIndexIs ==
  ASSUME NEW r, IsRef(r), NEW seg, r.err = None
  PROVE  FindIndex(r, seg) =
           IF Index[seg] = None
           THEN Ref(r.root, r.addr, r.type, r.field, r.sel, "bad index")
           ELSE IF Index[seg] >= Len(Msg(r).val[r.field]) \/ Index[seg] < 0
           THEN Ref(r.root, r.addr, r.type, r.field, r.sel, "out of range")
           ELSE Ref(r.root, r.addr, r.type, r.field, Index[seg], None)
<1>1. \A x : [r EXCEPT !.sel = x] = Ref(r.root, r.addr, r.type, r.field, x, None)
  BY RefChanges DEF Ref
<1>2. \A e : Throw(r, e) = Ref(r.root, r.addr, r.type, r.field, r.sel, e)
  BY DEF Throw, IsRef, Ref
<1> QED
  BY <1>1, <1>2 DEF FindIndex

\* The root once the reference has gone into what it denotes, or failed to.
RootInside(mutable, r) ==
    IF mutable /\ (FieldOf(r).kind = "msg" \/ FieldOf(r).label = "map") THEN Ensure(r) ELSE r.root

LEMMA EnterIs ==
  ASSUME NEW r, IsRef(r), r.err = None, NEW mutable \in BOOLEAN
  PROVE  Enter(mutable, r) =
           IF NoPlace(FieldOf(r)) # None
           THEN Ref(RootInside(mutable, r), r.addr, r.type, r.field, r.sel, NoPlace(FieldOf(r)))
           ELSE Ref(RootInside(mutable, r), Append(r.addr, Here(r)), FieldOf(r).of, None, None, None)
<1> DEFINE fd == FieldOf(r)
           x == IF mutable THEN Ensure(r) ELSE r.root
           p == [r EXCEPT !.root = x]
<1>1. p = Ref(x, r.addr, r.type, r.field, r.sel, None)
  <2> HIDE DEF x
  <2> QED
    BY RefChanges DEF Ref
<1>2. \A e : Throw(r, e) = Ref(r.root, r.addr, r.type, r.field, r.sel, e)
  BY DEF Throw, IsRef, Ref
<1>3. Throw(p, "map value") = Ref(x, r.addr, r.type, r.field, r.sel, "map value")
  <2> HIDE DEF x, p
  <2>1. \A e : Throw(p, e) = Ref(x, r.addr, r.type, r.field, r.sel, e)
    BY <1>1 DEF Throw, Ref
  <2> QED
    BY <2>1
<1>4. /\ FieldOf(p) = fd /\ Here(p) = Here(r)
      /\ p.root = x /\ p.addr = r.addr /\ p.err = None
  <2> HIDE DEF x, p
  <2> QED
    BY <1>1 DEF FieldOf, Here, Ref
<1>5. Enter(mutable, r) =
        IF fd.kind # "msg" /\ fd.label # "map"
        THEN Throw(r, IF fd.label = "array" THEN "abort" ELSE "not nested")
        ELSE Inside(p)
  BY DEF Enter
<1>6. Inside(p) = IF fd.kind # "msg" THEN Throw(p, "map value")
                  ELSE Ref(x, Append(r.addr, Here(r)), fd.of, None, None, None)
  <2> HIDE DEF x, p, fd
  <2> QED
    BY <1>4 DEF Inside, Ref
<1> HIDE DEF p, fd
<1>7. None \notin {"abort", "not nested", "map value"}
  BY NoneAssumption
<1>8. CASE fd.kind # "msg" /\ fd.label # "map"
  <2>1. NoPlace(fd) = IF fd.label = "array" THEN "abort" ELSE "not nested"
    BY <1>8 DEF NoPlace
  <2>2. RootInside(mutable, r) = r.root
    BY <1>8 DEF RootInside, fd
  <2>3. Enter(mutable, r) = Ref(r.root, r.addr, r.type, r.field, r.sel, NoPlace(fd))
    BY <1>2, <1>5, <1>8, <2>1
  <2> QED
    BY <1>7, <2>1, <2>2, <2>3 DEF fd
<1>9. CASE fd.kind = "msg" \/ fd.label = "map"
  <2>1. Enter(mutable, r) = IF fd.kind # "msg" THEN Ref(x, r.addr, r.type, r.field, r.sel, "map value")
                  ELSE Ref(x, Append(r.addr, Here(r)), fd.of, None, None, None)
    BY <1>3, <1>5, <1>6, <1>9
  <2>2. NoPlace(fd) = IF fd.kind # "msg" THEN "map value" ELSE None
    BY <1>9 DEF NoPlace
  <2> DEFINE root == RootInside(mutable, r)
  <2>3. x = root
    BY <1>9 DEF RootInside, fd
  <2>4. Enter(mutable, r) = IF NoPlace(fd) # None
                            THEN Ref(x, r.addr, r.type, r.field, r.sel, NoPlace(fd))
                            ELSE Ref(x, Append(r.addr, Here(r)), fd.of, None, None, None)
    <3> HIDE DEF x
    <3> QED
      BY <1>7, <2>1, <2>2
  <2> HIDE DEF x, root
  <2>5. Enter(mutable, r) = IF NoPlace(fd) # None
                            THEN Ref(root, r.addr, r.type, r.field, r.sel, NoPlace(fd))
                            ELSE Ref(root, Append(r.addr, Here(r)), fd.of, None, None, None)
    BY <2>3, <2>4
  <2> QED
    BY <2>5 DEF fd, root
<1> QED
  BY <1>8, <1>9

\* What is left as the root by one segment.
RootAfter(mutable, r) ==
    IF AtPlace(r) THEN RootInside(mutable, r) ELSE r.root

\* Reference r goes to q by the segment, or is stopped.
Goes(mutable, r, seg, q) ==
    /\ IsRef(q)
    /\ q.err = Fault(mutable, Msg(r), r, seg)
    /\ q.err = None => q = Onward(r, seg, q.root)
    /\ q.root = RootAfter(mutable, r)

LEMMA GoesNowhere ==
  ASSUME NEW mutable, NEW r, NEW seg, NEW q, NEW addr, NEW type, NEW field, NEW sel,
         NEW e, e = Fault(mutable, Msg(r), r, seg), e # None,
         NEW root, root = RootAfter(mutable, r),
         q = Ref(root, addr, type, field, sel, e)
  PROVE  Goes(mutable, r, seg, q)
<1>1. IsRef(q) /\ q.root = root /\ q.err = e
  BY RefParts
<1> QED
  BY <1>1 DEF Goes

LEMMA GoesOn ==
  ASSUME NEW mutable, NEW r, NEW seg, NEW q, NEW addr, NEW type, NEW field, NEW sel,
         Fault(mutable, Msg(r), r, seg) = None,
         NEW root, root = RootAfter(mutable, r),
         q = Ref(root, addr, type, field, sel, None),
         q = Onward(r, seg, root)
  PROVE  Goes(mutable, r, seg, q)
<1>1. IsRef(q) /\ q.root = root /\ q.err = None
  BY DEF Ref, IsRef
<1> QED
  BY <1>1 DEF Goes

\* Where the reference goes by one segment.
LEMMA FollowIs ==
  ASSUME NEW r, IsRef(r), r.err = None, NEW mutable \in BOOLEAN, NEW seg
  PROVE  Goes(mutable, r, seg, Follow(mutable, r, seg))
<1>0. None \notin {"no field", "bad key", "no key", "bad index", "out of range",
                 "not nested", "map value", "abort"}
  BY NoneAssumption
<1> SUFFICES ASSUME NEW q, q = Follow(mutable, r, seg) PROVE Goes(mutable, r, seg, q)
  OBVIOUS
<1> DEFINE F == Fault(mutable, Msg(r), r, seg)
<1>1. CASE r.field = None
  <2>1. q = FindField(r, seg)
    BY <1>1 DEF Follow
  <2>2. RootAfter(mutable, r) = r.root
    BY <1>1 DEF AtPlace, RootAfter
  <2>3. F = IF seg \in DOMAIN Schema[r.type] THEN None ELSE "no field"
    BY <1>1 DEF Fault, AtPlace, AtMap, AtArray
  <2>4. Onward(r, seg, r.root) = Ref(r.root, r.addr, r.type, seg, None, None)
    BY <1>1 DEF Onward, AtPlace, AtMap, AtArray
  <2>5. CASE seg \in DOMAIN Schema[r.type]
    <3>1. q = Ref(r.root, r.addr, r.type, seg, None, None)
      BY <2>1, <2>5, FindFieldIs
    <3> QED
      BY <2>2, <2>3, <2>4, <2>5, <3>1, GoesOn
  <2>6. CASE seg \notin DOMAIN Schema[r.type]
    <3>1. q = Ref(r.root, r.addr, r.type, r.field, r.sel, "no field")
      BY <2>1, <2>6, FindFieldIs
    <3> QED
      BY <1>0, <2>2, <2>3, <2>6, <3>1, GoesNowhere
  <2> QED
    BY <2>5, <2>6
<1>2. CASE AtMap(r)
  <2> DEFINE key == KeyOf(r, seg)
             gone == ~mutable /\ key \notin DOMAIN Msg(r).val[r.field]
  <2>1. q = FindKey(mutable, r, seg)
    BY <1>2 DEF Follow, AtMap
  <2>2. RootAfter(mutable, r) = r.root
    BY <1>2 DEF AtPlace, RootAfter
  <2>3. F = IF key = None THEN "bad key" ELSE IF gone THEN "no key" ELSE None
    BY <1>2 DEF Fault, AtPlace, AtMap, AtArray
  <2>4. Onward(r, seg, r.root) = Ref(r.root, r.addr, r.type, r.field, key, None)
    BY <1>2 DEF Onward, AtPlace, AtMap, AtArray
  <2>5. q = IF key = None THEN Ref(r.root, r.addr, r.type, r.field, r.sel, "bad key")
            ELSE IF gone THEN Ref(r.root, r.addr, r.type, r.field, r.sel, "no key")
            ELSE Ref(r.root, r.addr, r.type, r.field, key, None)
    BY <2>1, FindKeyIs
  <2> HIDE DEF key, gone, F
  <2>6. CASE key = None
    <3>1. F = "bad key" /\ q = Ref(r.root, r.addr, r.type, r.field, r.sel, "bad key")
      BY <2>3, <2>5, <2>6
    <3> QED
      BY <1>0, <2>2, <3>1, GoesNowhere DEF F
  <2>7. CASE key # None /\ gone
    <3>1. F = "no key" /\ q = Ref(r.root, r.addr, r.type, r.field, r.sel, "no key")
      BY <2>3, <2>5, <2>7
    <3> QED
      BY <1>0, <2>2, <3>1, GoesNowhere DEF F
  <2>8. CASE key # None /\ ~gone
    <3>1. F = None /\ q = Ref(r.root, r.addr, r.type, r.field, key, None)
      BY <2>3, <2>5, <2>8
    <3> QED
      BY <2>2, <2>4, <3>1, GoesOn DEF F
  <2> QED
    BY <2>6, <2>7, <2>8
<1>3. CASE AtArray(r)
  <2> DEFINE i == Index[seg]
             out == i >= Len(Msg(r).val[r.field]) \/ i < 0
  <2>1. q = FindIndex(r, seg)
    BY <1>3 DEF Follow, AtArray
  <2>2. RootAfter(mutable, r) = r.root
    BY <1>3 DEF AtPlace, RootAfter
  <2>3. F = IF i = None THEN "bad index" ELSE IF out THEN "out of range" ELSE None
    BY <1>3 DEF Fault, AtPlace, AtMap, AtArray
  <2>4. Onward(r, seg, r.root) = Ref(r.root, r.addr, r.type, r.field, i, None)
    BY <1>3 DEF Onward, AtPlace, AtMap, AtArray
  <2>5. q = IF i = None THEN Ref(r.root, r.addr, r.type, r.field, r.sel, "bad index")
            ELSE IF out THEN Ref(r.root, r.addr, r.type, r.field, r.sel, "out of range")
            ELSE Ref(r.root, r.addr, r.type, r.field, i, None)
    BY <2>1, FindIndexIs
  <2> HIDE DEF i, out, F
  <2>6. CASE i = None
    <3>1. F = "bad index" /\ q = Ref(r.root, r.addr, r.type, r.field, r.sel, "bad index")
      BY <2>3, <2>5, <2>6
    <3> QED
      BY <1>0, <2>2, <3>1, GoesNowhere DEF F
  <2>7. CASE i # None /\ out
    <3>1. F = "out of range" /\ q = Ref(r.root, r.addr, r.type, r.field, r.sel, "out of range")
      BY <2>3, <2>5, <2>7
    <3> QED
      BY <1>0, <2>2, <3>1, GoesNowhere DEF F
  <2>8. CASE i # None /\ ~out
    <3>1. F = None /\ q = Ref(r.root, r.addr, r.type, r.field, i, None)
      BY <2>3, <2>5, <2>8
    <3> QED
      BY <2>2, <2>4, <3>1, GoesOn DEF F
  <2> QED
    BY <2>6, <2>7, <2>8
<1>4. CASE AtPlace(r)
  <2> DEFINE fd == FieldOf(r)
             root == RootInside(mutable, r)
             why == NoPlace(fd)
             to == Append(r.addr, Here(r))
  <2>1. q = FindField(Enter(mutable, r), seg)
    BY <1>4 DEF Follow, AtPlace, AtMap, AtArray
  <2>2. RootAfter(mutable, r) = root
    BY <1>4 DEF RootAfter
  <2>3. F = IF why # None THEN why ELSE IF seg \in DOMAIN Schema[fd.of] THEN None ELSE "no field"
    BY <1>4 DEF Fault, AtPlace, AtMap, AtArray
  <2>4. Onward(r, seg, root) = Ref(root, to, fd.of, seg, None, None)
    BY <1>4 DEF Onward, AtPlace, AtMap, AtArray
  <2>5. Enter(mutable, r) =
              IF why # None THEN Ref(root, r.addr, r.type, r.field, r.sel, why)
              ELSE Ref(root, to, fd.of, None, None, None)
    BY EnterIs
  <2> HIDE DEF fd, root, why, to, F
  <2>6. CASE why # None
    <3> DEFINE e == Ref(root, r.addr, r.type, r.field, r.sel, why)
    <3>1. Enter(mutable, r) = e /\ F = why
      BY <2>3, <2>5, <2>6
    <3>2. e.err = why
      BY RefParts
    <3> HIDE DEF e
    <3>3. q = e
      BY <2>1, <2>6, <3>1, <3>2 DEF FindField
    <3> QED
      BY <2>2, <2>6, <3>1, <3>3, GoesNowhere DEF F, e
  <2>7. CASE why = None
    <3> DEFINE e == Ref(root, to, fd.of, None, None, None)
    <3>1. Enter(mutable, r) = e
      BY <2>5, <2>7
    <3>2. /\ IsRef(e) /\ e.err = None /\ e.root = root /\ e.addr = to
          /\ e.type = fd.of /\ e.field = None /\ e.sel = None
      BY RefParts
    <3> HIDE DEF e
    <3>3. q = IF seg \in DOMAIN Schema[fd.of] THEN Ref(root, to, fd.of, seg, None, None)
              ELSE Ref(root, to, fd.of, None, None, "no field")
      BY <2>1, <3>1, <3>2, FindFieldIs
    <3>4. CASE seg \in DOMAIN Schema[fd.of]
      BY <2>2, <2>3, <2>4, <2>7, <3>3, <3>4, GoesOn DEF F
    <3>5. CASE seg \notin DOMAIN Schema[fd.of]
      BY <1>0, <2>2, <2>3, <2>7, <3>3, <3>5, GoesNowhere DEF F
    <3> QED
      BY <3>4, <3>5
  <2> QED
    BY <2>6, <2>7
<1> QED
  BY <1>1, <1>2, <1>3, <1>4 DEF AtPlace

LEMMA FollowStopped ==
  ASSUME NEW r, r.err # None, NEW mutable, NEW seg
  PROVE  Follow(mutable, r, seg) = r
  BY DEF Follow

-----------------------------------------------------------------------------
(***************************************************************************)
(* Putting messages at an address.                                         *)
(***************************************************************************)

LEMMA ChangedOnce ==
  ASSUME NEW m, NEW f, NEW x, NEW u, Changed(m, f, x, u), NEW w, Changed(m, f, x, w)
  PROVE  u = w
<1>1. u.val = w.val
  <2>1. \A g \in DOMAIN m.val : u.val[g] = w.val[g]
    BY DEF Changed
  <2>2. u.val = [g \in DOMAIN m.val |-> u.val[g]] /\ w.val = [g \in DOMAIN m.val |-> w.val[g]]
    BY DEF Changed
  <2> DEFINE a == u.val  b == w.val  D == DOMAIN m.val
  <2> HIDE DEF a, b, D
  <2>3. (\A g \in D : a[g] = b[g]) /\ a = [g \in D |-> a[g]] /\ b = [g \in D |-> b[g]]
    BY <2>1, <2>2 DEF a, b, D
  <2>4. a = b
    BY <2>3
  <2> QED
    BY <2>4 DEF a, b
<1>2. /\ u = [type |-> u.type, val |-> u.val] /\ u.type = m.type
      /\ w = [type |-> w.type, val |-> w.val] /\ w.type = m.type
  BY DEF Changed
<1> QED
  BY <1>1, <1>2

LEMMA ChangedTwice ==
  ASSUME NEW m, NEW f, NEW x, NEW y, NEW u, Changed(m, f, x, u), NEW w, Changed(u, f, y, w)
  PROVE  Changed(m, f, y, w)
<1>1. DOMAIN u.val = DOMAIN m.val
  BY DEF Changed
<1> QED
  BY <1>1 DEF Changed

LEMMA ChangedShaped ==
  ASSUME NEW m, Shaped(m), NEW f, NEW x, NEW w, Changed(m, f, x, w)
  PROVE  Shaped(w)
<1>1. DOMAIN m.val = DOMAIN Schema[m.type]
  BY DEF Shaped
<1> QED
  BY <1>1 DEF Changed, Shaped

\* What is put in a place replaces what was put there before.
LEMMA WithPartTwice ==
  ASSUME NEW S, Full(S), NEW m \in S, NEW s, StepOK(m, s), NEW x, NEW y
  PROVE  WithPart(WithPart(m, s, x), s, y) = WithPart(m, s, y)
<1> DEFINE w == WithPart(m, s, x)  u == WithPart(w, s, y)  t == WithPart(m, s, y)
           f == s.field  fd == Field(m, f)  v == m.val[f]
<1>1. MadeOf(S, m) /\ Shaped(m)
  BY MadeShaped DEF Full, Closed
<1>2. Changed(m, f, w.val[f], w) /\ Placed(fd, v, s.sel, x, w.val[f])
  BY <1>1, WithPartIs
<1>3. Changed(m, f, t.val[f], t) /\ Placed(fd, v, s.sel, y, t.val[f])
  BY <1>1, WithPartIs
<1>4. Shaped(w) /\ StepOK(w, s)
  BY <1>1, <1>2, ChangedShaped, WithPartLaws
<1>5. Changed(w, f, u.val[f], u) /\ Placed(Field(w, f), w.val[f], s.sel, y, u.val[f])
  BY <1>4, WithPartIs
<1>6. Field(w, f) = fd
  BY <1>2 DEF Changed, Field
<1>7. IsFd(fd) /\ Fills(S, fd, v)
  BY <1>1, SchemaFd DEF MadeOf, StepOK, Field
<1> HIDE DEF w, u, t, v, fd
<1>8. u.val[f] = t.val[f]
  <2> DEFINE a == w.val[f]  b == u.val[f]  c == t.val[f]
  <2>1. Placed(fd, v, s.sel, x, a) /\ Placed(fd, a, s.sel, y, b) /\ Placed(fd, v, s.sel, y, c)
    BY <1>2, <1>3, <1>5, <1>6
  <2> HIDE DEF a, b, c
  <2>2. CASE fd.label = "array"
    <3>1. v \in Seq(Elements(S, fd))
      BY <1>7, <2>2 DEF Fills
    <3>2. a = [v EXCEPT ![s.sel + 1] = x] /\ b = [a EXCEPT ![s.sel + 1] = y]
          /\ c = [v EXCEPT ![s.sel + 1] = y]
      BY <2>1, <2>2 DEF Placed
    <3> QED
      BY <3>1, <3>2 DEF b, c
  <2>3. CASE fd.label = "map"
    <3>1. a = Over([k \in {s.sel} |-> x], v) /\ b = Over([k \in {s.sel} |-> y], a)
          /\ c = Over([k \in {s.sel} |-> y], v)
      BY <2>1, <2>3 DEF Placed
    <3>2. DOMAIN a = DOMAIN v \cup {s.sel} /\ \A k \in DOMAIN v \ {s.sel} : a[k] = v[k]
      BY <3>1 DEF Over
    <3>3. b = c
      BY <3>1, <3>2 DEF Over
    <3> QED
      BY <3>3 DEF b, c
  <2>4. CASE fd.label = "one"
    BY <2>1, <2>4 DEF Placed, b, c
  <2> QED
    BY <1>7, <2>2, <2>3, <2>4 DEF IsFd
<1>9. Changed(m, f, u.val[f], u)
  BY <1>2, <1>5, ChangedTwice
<1>10. u = t
  BY <1>3, <1>8, <1>9, ChangedOnce
<1> QED
  BY <1>10 DEF u, t, w

\* What an address leads to and through once m has been put at its end.
LEMMA PutTrail ==
  ASSUME NEW S, NEW root, NEW addr, NEW h, Leads(S, root, addr, h), NEW m
  PROVE  \E g : /\ PutAt(root, addr, m) = g[0]
                /\ Rebuilds(h, addr, Len(addr), m, g)
                /\ Reach(g[0], addr, Len(addr), g)
                /\ \A i \in 1..Len(addr) :
                      /\ g[i - 1] = WithPart(h[i - 1], addr[i], g[i])
                      /\ StepOK(h[i - 1], addr[i]) /\ h[i - 1] \in S
<1> DEFINE n == Len(addr)
<1>1. n \in Nat /\ \A i \in 0..n : h[i] \in S
  BY LeadsIn
<1>2. PICK g : Rebuilds(h, addr, n, m, g)
  BY <1>1, RebuildsExists
<1>3. PICK A : addr \in Seq(A)
  BY DEF Leads, IsSeq
<1>4. PutAt(root, addr, m) = g[0]
  BY <1>2, <1>3, PutAtIs DEF Leads
<1>5. ASSUME NEW i \in 1..n
      PROVE  /\ g[i - 1] = WithPart(h[i - 1], addr[i], g[i])
             /\ StepOK(h[i - 1], addr[i]) /\ h[i - 1] \in S
  <2>1. i - 1 \in 0..(n - 1) /\ i - 1 \in 0..n /\ (i - 1) + 1 = i
    BY <1>1
  <2> HIDE DEF n
  <2> QED
    BY <1>1, <1>2, <2>1 DEF Rebuilds, Leads, n
<1>6. \A i \in 1..n : g[i] = Part(g[i - 1], addr[i])
  BY <1>5, WithPartLaws DEF Leads
<1>7. Reach(g[0], addr, n, g)
  BY <1>6 DEF Reach
<1> QED
  BY <1>2, <1>4, <1>5, <1>7

LEMMA AtPut ==
  ASSUME NEW S, NEW root, NEW addr, NEW h, Leads(S, root, addr, h), NEW m
  PROVE  At(PutAt(root, addr, m), addr) = m
<1>1. PICK g : /\ PutAt(root, addr, m) = g[0]
               /\ Rebuilds(h, addr, Len(addr), m, g)
               /\ Reach(g[0], addr, Len(addr), g)
  BY PutTrail
<1>2. Len(addr) \in Nat
  BY LeadsIn
<1> QED
  BY <1>1, <1>2, AtIs DEF Rebuilds

LEMMA PutPut ==
  ASSUME NEW S, NEW root, NEW addr, NEW h, Leads(S, root, addr, h), NEW m, NEW m2
  PROVE  PutAt(PutAt(root, addr, m), addr, m2) = PutAt(root, addr, m2)
<1> DEFINE n == Len(addr)
<1>1. PICK g : /\ PutAt(root, addr, m) = g[0]
               /\ Rebuilds(h, addr, n, m, g)
               /\ Reach(g[0], addr, n, g)
               /\ \A i \in 1..n :
                     /\ g[i - 1] = WithPart(h[i - 1], addr[i], g[i])
                     /\ StepOK(h[i - 1], addr[i]) /\ h[i - 1] \in S
  BY PutTrail
<1>2. n \in Nat
  BY LeadsIn
<1>3. PICK e : Rebuilds(g, addr, n, m2, e)
  BY <1>2, RebuildsExists
<1>4. PICK A : addr \in Seq(A)
  BY DEF Leads, IsSeq
<1>5. PutAt(g[0], addr, m2) = e[0]
  BY <1>1, <1>3, <1>4, PutAtIs
<1>6. Rebuilds(h, addr, n, m2, e)
  <2>1. ASSUME NEW i \in 0..(n - 1) PROVE e[i] = WithPart(h[i], addr[i + 1], e[i + 1])
    <3> DEFINE j == i + 1
    <3>1. j \in 1..n /\ j - 1 = i
      BY <1>2
    <3>2. e[i] = WithPart(g[i], addr[i + 1], e[i + 1])
      BY <1>3 DEF Rebuilds
    <3> HIDE DEF j, n
    <3>3. g[i] = WithPart(h[i], addr[j], g[j]) /\ StepOK(h[i], addr[j]) /\ h[i] \in S
      BY <1>1, <3>1
    <3>4. WithPart(g[i], addr[j], e[j]) = WithPart(h[i], addr[j], e[j])
      BY <3>3, WithPartTwice DEF Leads
    <3> QED
      BY <3>2, <3>4 DEF j
  <2> QED
    BY <1>3, <2>1 DEF Rebuilds
<1>7. PutAt(root, addr, m2) = e[0]
  BY <1>4, <1>6, PutAtIs DEF Leads
<1> QED
  BY <1>1, <1>5, <1>7

\* Putting something one step further.
LEMMA PutAppend ==
  ASSUME NEW S, NEW root, NEW addr, NEW h, Leads(S, root, addr, h), NEW s, NEW m
  PROVE  /\ PutAt(root, Append(addr, s), m) = PutAt(root, addr, WithPart(At(root, addr), s, m))
         /\ At(root, Append(addr, s)) = Part(At(root, addr), s)
<1> DEFINE n == Len(addr)  q == Append(addr, s)
<1>1. PICK A0 : addr \in Seq(A0)
  BY DEF Leads, IsSeq
<1> DEFINE A == A0 \cup {s}
<1>2. addr \in Seq(A) /\ s \in A
  <2>1. \A i \in 1..Len(addr) : addr[i] \in A
    BY <1>1
  <2> QED
    BY <1>1, <2>1
<1> HIDE DEF A
<1>3. /\ n \in Nat /\ n + 1 \in Nat /\ Len(q) = n + 1 /\ q[n + 1] = s
      /\ \A i \in 1..n : q[i] = addr[i]
      /\ q \in Seq(A)
  BY <1>2
<1>4. PICK e : Reach(root, q, n + 1, e)
  BY <1>3, ReachExists
<1>5. PICK g : Rebuilds(e, q, n + 1, m, g)
  BY <1>3, RebuildsExists
<1>6. PutAt(root, q, m) = g[0]
  BY <1>3, <1>4, <1>5, PutAtIs
<1>7. Reach(root, addr, n, e)
  <2>1. \A i \in 1..n : i \in 1..(n + 1)
    BY <1>3
  <2> QED
    BY <1>3, <1>4, <2>1 DEF Reach
<1>8. At(root, addr) = e[n]
  BY <1>3, <1>7, AtIs
<1> DEFINE w == WithPart(At(root, addr), s, m)
<1>9. Rebuilds(e, addr, n, w, g)
  <2>1. g[n + 1] = m /\ \A i \in 0..n : g[i] = WithPart(e[i], q[i + 1], g[i + 1])
    <3>1. (n + 1) - 1 = n
      BY <1>3
    <3> QED
      BY <1>5, <3>1 DEF Rebuilds
  <2>2. g[n] = w
    <3>1. n \in 0..n
      BY <1>3
    <3> HIDE DEF n, q
    <3> QED
      BY <1>3, <1>8, <2>1, <3>1
  <2>3. ASSUME NEW i \in 0..(n - 1) PROVE g[i] = WithPart(e[i], addr[i + 1], g[i + 1])
    <3>1. i \in 0..n /\ i + 1 \in 1..n
      BY <1>3
    <3> HIDE DEF n, q
    <3> QED
      BY <1>3, <2>1, <3>1
  <2> HIDE DEF w
  <2> QED
    BY <2>2, <2>3 DEF Rebuilds
<1>10. PutAt(root, addr, w) = g[0]
  <2> HIDE DEF w
  <2> QED
    BY <1>2, <1>7, <1>9, PutAtIs
<1> QED
  BY <1>2, <1>6, <1>10, AtAppend

\* Nothing is on the way to the message itself.
LEMMA AtStart ==
  ASSUME NEW root, NEW m
  PROVE  At(root, <<>>) = root /\ PutAt(root, <<>>, m) = m
<1> DEFINE none == <<>>
<1>1. none \in Seq({}) /\ Len(none) = 0
  OBVIOUS
<1> DEFINE h == [i \in {0} |-> root]  g == [i \in {0} |-> m]
<1>2. h[0] = root /\ g[0] = m
  OBVIOUS
<1> HIDE DEF h, g, none
<1>3. Reach(root, none, Len(none), h)
  BY <1>1, <1>2 DEF Reach
<1>4. Rebuilds(h, none, Len(none), m, g)
  BY <1>1, <1>2 DEF Rebuilds
<1>5. At(root, none) = root
  BY <1>1, <1>2, <1>3, AtIs
<1>6. PutAt(root, none, m) = m
  <2>1. PutAt(root, none, m) = g[0]
    BY <1>1, <1>3, <1>4, PutAtIs
  <2> QED
    BY <1>2, <2>1
<1> QED
  BY <1>5, <1>6 DEF none

-----------------------------------------------------------------------------
(***************************************************************************)
(* The reference after the first i segments of path p.                     *)
(***************************************************************************)
On(mutable, root, p, i) ==
    Resolve(mutable, root, [type |-> root.type, fields |-> SubSeq(p, 1, i)])

LEMMA OnNext ==
  ASSUME NEW mutable, NEW root, NEW p \in Seq(DOMAIN Index)
  PROVE  /\ On(mutable, root, p, 0) = StartOf(root)
         /\ \A i \in 1..Len(p) :
               On(mutable, root, p, i) = Follow(mutable, On(mutable, root, p, i - 1), p[i])
         /\ On(mutable, root, p, Len(p))
              = Resolve(mutable, root, [type |-> root.type, fields |-> p])
<1> DEFINE n == Len(p)
<1>1. n \in Nat
  OBVIOUS
<1>2. PICK h : Walk(mutable, StartOf(root), p, n, h)
  BY <1>1, WalkExists
<1>3. ASSUME NEW i \in 0..n PROVE On(mutable, root, p, i) = h[i]
  <2> DEFINE segs == SubSeq(p, 1, i)  path == [type |-> root.type, fields |-> segs]
  <2>1. Len(segs) = i /\ i \in Nat /\ \A j \in 1..i : segs[j] = p[j] /\ j \in 1..n
    OBVIOUS
  <2> HIDE DEF segs, n
  <2>2. path.fields = segs /\ path.type = root.type
    OBVIOUS
  <2>3. Walk(mutable, StartOf(root), segs, i, h)
    BY <1>2, <2>1 DEF Walk
  <2> HIDE DEF path
  <2>4. Resolve(mutable, root, path) = h[i]
    BY <2>1, <2>2, <2>3, ResolveIs
  <2> QED
    BY <2>4 DEF On, path, segs
<1>4. SubSeq(p, 1, n) = p
  OBVIOUS
<1>5. On(mutable, root, p, n) = Resolve(mutable, root, [type |-> root.type, fields |-> p])
  BY <1>4 DEF On
<1>6. On(mutable, root, p, 0) = StartOf(root)
  BY <1>1, <1>2, <1>3 DEF Walk
<1>7. ASSUME NEW i \in 1..n
      PROVE  On(mutable, root, p, i) = Follow(mutable, On(mutable, root, p, i - 1), p[i])
  <2>1. i \in 0..n /\ i - 1 \in 0..n
    BY <1>1
  <2> HIDE DEF n
  <2> QED
    BY <1>2, <1>3, <2>1 DEF Walk
<1> QED
  BY <1>5, <1>6, <1>7

\* A shared beginning leads to the same place.
LEMMA OnShared ==
  ASSUME NEW mutable, NEW root, NEW p, NEW q, NEW i, SubSeq(p, 1, i) = SubSeq(q, 1, i)
  PROVE  On(mutable, root, p, i) = On(mutable, root, q, i)
  BY DEF On

-----------------------------------------------------------------------------
(***************************************************************************)
(* A reference that has thrown nothing, at the message the path starts     *)
(* from, or denoting something.                                            *)
(***************************************************************************)
Sees(S, r) ==
    r.err = None /\ \E h : Stands(S, r, h) /\ (r.field = None \/ Points(S, r, h))

\* Reference q was made from r by one segment.
Advanced(r, q) ==
    /\ ~AtPlace(r) => q.addr = r.addr /\ Msg(q) = Msg(r)
    /\ AtPlace(r) => /\ IsPlace(r) /\ StepOK(Msg(r), Here(r)) /\ FieldOf(r).kind = "msg"
                     /\ FieldOf(r) = Field(Msg(r), Here(r).field)
                     /\ q.addr = Append(r.addr, Here(r))
                     /\ q.type = FieldOf(r).of /\ q.sel = None
                     /\ Msg(q) = Part(Msg(r), Here(r))

LEMMA PlaceIs ==
  ASSUME NEW r, AtPlace(r)
  PROVE  IsPlace(r)
  BY DEF AtPlace, AtArray, IsPlace, IsArray, IsMap

LEMMA SeesOn ==
  ASSUME NEW S, NEW r, Sees(S, r), NEW seg \in DOMAIN Index,
         Fault(TRUE, Msg(r), r, seg) = None,
         NEW q, q = Onward(r, seg, r.root)
  PROVE  /\ Advanced(r, q)
         /\ q.err = None /\ q.root = r.root /\ \E h : Points(S, q, h)
<1>0. None \notin {"no field", "bad key", "no key", "bad index", "out of range",
                 "not nested", "map value", "abort"}
  BY NoneAssumption
<1>1. PICK h : Stands(S, r, h) /\ (r.field = None \/ Points(S, r, h))
  BY DEF Sees
<1>2. /\ Msg(r) = h[Len(r.addr)] /\ Msg(r) \in S /\ MadeOf(S, Msg(r)) /\ Msg(r).type = r.type
      /\ r.type \in Types /\ Len(r.addr) \in Nat /\ Full(S)
  BY <1>1, StandsAt
<1>3. CASE r.field = None
  <2>1. ~AtPlace(r) /\ ~AtMap(r) /\ ~AtArray(r)
    BY <1>3 DEF AtPlace, AtMap, AtArray
  <2>2. seg \in DOMAIN Schema[r.type]
    BY <1>0, <1>3, <2>1 DEF Fault
  <2>3. q = Ref(r.root, r.addr, r.type, seg, None, None)
    BY <1>3, <2>1 DEF Onward
  <2>4. IsRef(q) /\ q.root = r.root /\ q.addr = r.addr /\ q.type = r.type /\ q.field = seg
        /\ q.sel = None /\ q.err = None
    BY <2>3, RefParts
  <2>5. Stands(S, q, h)
    BY <1>1, <2>4, StandsSame
  <2>6. Points(S, q, h)
    BY <2>2, <2>4, <2>5 DEF Points
  <2> QED
    BY <2>1, <2>4, <2>6 DEF Advanced, Msg
<1>4. CASE AtMap(r)
  <2>1. ~AtPlace(r) /\ ~AtArray(r) /\ r.field # None
    BY <1>4 DEF AtPlace, AtMap, AtArray
  <2>3. q = Ref(r.root, r.addr, r.type, r.field, KeyOf(r, seg), None)
    BY <1>4, <2>1 DEF Onward
  <2>4. IsRef(q) /\ q.root = r.root /\ q.addr = r.addr /\ q.type = r.type /\ q.field = r.field
        /\ q.sel = KeyOf(r, seg) /\ q.err = None
    BY <2>3, RefParts
  <2>5. Stands(S, q, h)
    BY <1>1, <2>4, StandsSame
  <2>6. FieldOf(q) = FieldOf(r) /\ FieldOf(r).label = "map" /\ Points(S, r, h)
    BY <1>1, <1>4, <2>1, <2>4 DEF FieldOf, AtMap, IsMap
  <2>7. Points(S, q, h)
    BY <2>4, <2>5, <2>6 DEF Points
  <2> QED
    BY <2>1, <2>4, <2>7 DEF Advanced, Msg
<1>5. CASE AtArray(r)
  <2> DEFINE v == Msg(r).val[r.field]  i == Index[seg]
  <2>1. ~AtPlace(r) /\ ~AtMap(r) /\ r.field # None
    BY <1>5 DEF AtPlace, AtMap, AtArray
  <2>2. Points(S, r, h) /\ r.field \in DOMAIN Schema[r.type]
    BY <1>1, <2>1 DEF Points
  <2>3. q = Ref(r.root, r.addr, r.type, r.field, i, None)
    BY <1>5, <2>1 DEF Onward
  <2>4. IsRef(q) /\ q.root = r.root /\ q.addr = r.addr /\ q.type = r.type /\ q.field = r.field
        /\ q.sel = i /\ q.err = None
    BY <2>3, RefParts
  <2>5. Stands(S, q, h)
    BY <1>1, <2>4, StandsSame
  <2>6. i # None /\ ~(i >= Len(v) \/ i < 0)
    <3>1. Fault(TRUE, Msg(r), r, seg) =
            IF i = None THEN "bad index"
            ELSE IF i >= Len(v) \/ i < 0 THEN "out of range" ELSE None
      BY <1>5, <2>1 DEF Fault
    <3> HIDE DEF v, i
    <3> QED
      BY <1>0, <3>1
  <2>7. FieldOf(r).label = "array"
    <3>1. IsFd(FieldOf(r))
      BY <1>2, <2>2, SchemaFd DEF FieldOf
    <3> QED
      BY <1>5, <3>1 DEF AtArray, IsArray, IsMap, IsFd
  <2>8. Len(v) \in Nat
    <3>1. Fills(S, FieldOf(r), v)
      BY <1>2, <2>2 DEF MadeOf, FieldOf
    <3> HIDE DEF v
    <3>2. v \in Seq(Elements(S, FieldOf(r)))
      BY <2>7, <3>1 DEF Fills
    <3> QED
      BY <3>2
  <2>9. i \in 0..(Len(v) - 1)
    <3>1. i \in Int
      BY <2>6, IndexAssumption
    <3> HIDE DEF v, i
    <3> QED
      BY <2>6, <2>8, <3>1
  <2>10. FieldOf(q) = FieldOf(r)
    BY <2>4 DEF FieldOf
  <2>11. Points(S, q, h)
    BY <1>2, <2>2, <2>4, <2>5, <2>9, <2>10 DEF Points
  <2> QED
    BY <2>1, <2>4, <2>11 DEF Advanced, Msg
<1>6. CASE AtPlace(r)
  <2> DEFINE fd == FieldOf(r)  s == Here(r)
  <2>1. ~AtMap(r) /\ ~AtArray(r) /\ r.field # None /\ IsPlace(r)
    BY <1>6, PlaceIs DEF AtPlace
  <2>2. Points(S, r, h)
    BY <1>1, <2>1
  <2>3. q = Ref(r.root, Append(r.addr, s), fd.of, seg, None, None)
    BY <1>6, <2>1 DEF Onward
  <2>4. IsRef(q) /\ q.root = r.root /\ q.addr = Append(r.addr, s) /\ q.type = fd.of
        /\ q.field = seg /\ q.sel = None /\ q.err = None
    <3> DEFINE to == Append(r.addr, s)  of == fd.of
    <3> HIDE DEF fd, s, to, of
    <3>1. q = Ref(r.root, to, of, seg, None, None)
      BY <2>3 DEF to, of
    <3>2. IsRef(q) /\ q.root = r.root /\ q.addr = to /\ q.type = of
          /\ q.field = seg /\ q.sel = None /\ q.err = None
      BY <3>1, RefParts
    <3> QED
      BY <3>2 DEF to, of
  <2>5. StepOK(Msg(r), s) /\ fd = Field(Msg(r), s.field)
    BY <2>1, <2>2, PointsStep
  <2>6. NoPlace(fd) = None /\ seg \in DOMAIN Schema[fd.of]
    <3>1. Fault(TRUE, Msg(r), r, seg) =
            IF NoPlace(fd) # None THEN NoPlace(fd)
            ELSE IF seg \in DOMAIN Schema[fd.of] THEN None ELSE "no field"
      BY <1>6, <2>1 DEF Fault
    <3> HIDE DEF fd
    <3> QED
      BY <1>0, <3>1
  <2>7. fd.kind = "msg"
    BY <1>0, <2>6 DEF NoPlace
  <2>8. PICK e : Stands(S, Inside(r), e)
    BY <1>1, <1>2, <2>5, <2>7, InsideGood
  <2>9. Inside(r).root = r.root /\ Inside(r).addr = q.addr /\ Inside(r).type = q.type
    BY <2>4, <2>7 DEF Inside
  <2>10. Stands(S, q, e)
    BY <2>4, <2>8, <2>9, StandsSame
  <2>11. Points(S, q, e)
    BY <2>4, <2>6, <2>10 DEF Points
  <2>12. Msg(q) = Part(Msg(r), s)
    BY <1>1, <2>4, PutAppend DEF Stands, Msg
  <2> QED
    BY <1>6, <2>1, <2>4, <2>5, <2>7, <2>11, <2>12 DEF Advanced
<1> QED
  BY <1>3, <1>4, <1>5, <1>6 DEF AtPlace

\* What another root leaves as it is.
LEMMA OntoSame ==
  ASSUME NEW r, NEW root
  PROVE  /\ IsRef(Onto(r, root)) /\ Onto(r, root).root = root
         /\ Onto(r, root).addr = r.addr /\ Onto(r, root).type = r.type
         /\ Onto(r, root).field = r.field /\ Onto(r, root).sel = r.sel
         /\ Onto(r, root).err = r.err
         /\ FieldOf(Onto(r, root)) = FieldOf(r) /\ Here(Onto(r, root)) = Here(r)
         /\ AtMap(Onto(r, root)) <=> AtMap(r)
         /\ AtArray(Onto(r, root)) <=> AtArray(r)
         /\ AtPlace(Onto(r, root)) <=> AtPlace(r)
         /\ \A b : Onto(Onto(r, root), b) = Onto(r, b)
<1> SUFFICES ASSUME NEW q, q = Onto(r, root)
             PROVE  /\ IsRef(q) /\ q.root = root /\ q.addr = r.addr /\ q.type = r.type
                    /\ q.field = r.field /\ q.sel = r.sel /\ q.err = r.err
                    /\ FieldOf(q) = FieldOf(r) /\ Here(q) = Here(r)
                    /\ AtMap(q) <=> AtMap(r)
                    /\ AtArray(q) <=> AtArray(r)
                    /\ AtPlace(q) <=> AtPlace(r)
                    /\ \A b : Onto(q, b) = Onto(r, b)
  OBVIOUS
<1>1. /\ IsRef(q) /\ q.root = root /\ q.addr = r.addr /\ q.type = r.type
      /\ q.field = r.field /\ q.sel = r.sel /\ q.err = r.err
  BY RefParts DEF Onto
<1>2. FieldOf(q) = FieldOf(r) /\ Here(q) = Here(r)
  BY <1>1 DEF FieldOf, Here
<1>3. AtMap(q) <=> AtMap(r)
  BY <1>1, <1>2 DEF AtMap, IsMap
<1>4. AtArray(q) <=> AtArray(r)
  BY <1>1, <1>2 DEF AtArray, IsMap, IsArray
<1>5. AtPlace(q) <=> AtPlace(r)
  BY <1>1, <1>3, <1>4 DEF AtPlace
<1>6. \A b : Onto(q, b) = Onto(r, b)
  BY <1>1 DEF Onto
<1> QED
  BY <1>1, <1>2, <1>3, <1>4, <1>5, <1>6

LEMMA FaultOnto ==
  ASSUME NEW r, NEW root, NEW seg, NEW mutable, NEW m
  PROVE  Fault(mutable, m, Onto(r, root), seg) = Fault(mutable, m, r, seg)
<1> SUFFICES ASSUME NEW q, q = Onto(r, root)
             PROVE  Fault(mutable, m, q, seg) = Fault(mutable, m, r, seg)
  OBVIOUS
<1>1. /\ q.addr = r.addr /\ q.type = r.type /\ q.field = r.field /\ q.sel = r.sel
      /\ FieldOf(q) = FieldOf(r) /\ Here(q) = Here(r)
      /\ AtMap(q) <=> AtMap(r)
      /\ AtArray(q) <=> AtArray(r)
      /\ AtPlace(q) <=> AtPlace(r)
  BY OntoSame
<1>2. KeyOf(q, seg) = KeyOf(r, seg)
  BY <1>1 DEF KeyOf
<1>3. Fault(mutable, m, q, seg) = Fault(mutable, m, r, seg)
  <2>1. CASE r.field = None
    BY <1>1, <2>1 DEF Fault, AtMap, AtArray, AtPlace
  <2>2. CASE AtMap(r)
    <3>1. ~AtArray(r) /\ ~AtPlace(r) /\ r.field # None
      BY <2>2 DEF AtMap, AtArray, AtPlace
    <3> QED
      BY <1>1, <1>2, <2>2, <3>1 DEF Fault
  <2>3. CASE AtArray(r)
    <3>1. ~AtMap(r) /\ ~AtPlace(r) /\ r.field # None
      BY <2>3 DEF AtMap, AtArray, AtPlace
    <3> QED
      BY <1>1, <2>3, <3>1 DEF Fault
  <2>4. CASE AtPlace(r)
    <3>1. ~AtMap(r) /\ ~AtArray(r) /\ r.field # None
      BY <2>4 DEF AtPlace
    <3> QED
      BY <1>1, <2>4, <3>1 DEF Fault
  <2> QED
    BY <2>1, <2>2, <2>3, <2>4 DEF AtPlace
<1> QED
  BY <1>3

LEMMA OntoOnward ==
  ASSUME NEW r, NEW root, NEW seg, NEW b
  PROVE  Onward(Onto(r, root), seg, b) = Onward(r, seg, b)
<1> SUFFICES ASSUME NEW q, q = Onto(r, root)
             PROVE  Onward(q, seg, b) = Onward(r, seg, b)
  OBVIOUS
<1>1. /\ q.addr = r.addr /\ q.type = r.type /\ q.field = r.field /\ q.sel = r.sel
      /\ FieldOf(q) = FieldOf(r) /\ Here(q) = Here(r)
      /\ AtMap(q) <=> AtMap(r)
      /\ AtArray(q) <=> AtArray(r)
      /\ AtPlace(q) <=> AtPlace(r)
  BY OntoSame
<1>2. KeyOf(q, seg) = KeyOf(r, seg)
  BY <1>1 DEF KeyOf
<1>3. Onward(q, seg, b) = Onward(r, seg, b)
  <2>1. CASE r.field = None
    BY <1>1, <2>1 DEF Onward, AtMap, AtArray, AtPlace
  <2>2. CASE AtMap(r)
    <3>1. ~AtArray(r) /\ ~AtPlace(r) /\ r.field # None
      BY <2>2 DEF AtMap, AtArray, AtPlace
    <3> QED
      BY <1>1, <1>2, <2>2, <3>1 DEF Onward
  <2>3. CASE AtArray(r)
    <3>1. ~AtMap(r) /\ ~AtPlace(r) /\ r.field # None
      BY <2>3 DEF AtMap, AtArray, AtPlace
    <3> QED
      BY <1>1, <2>3, <3>1 DEF Onward
  <2>4. CASE AtPlace(r)
    <3>1. ~AtMap(r) /\ ~AtArray(r) /\ r.field # None
      BY <2>4 DEF AtPlace
    <3> QED
      BY <1>1, <2>4, <3>1 DEF Onward
  <2> QED
    BY <2>1, <2>2, <2>3, <2>4 DEF AtPlace
<1> QED
  BY <1>3

\* One segment further, for what is left of a reference when its root is set aside.
LEMMA OnwardOnto ==
  ASSUME NEW r, NEW seg, NEW a, NEW b
  PROVE  Onto(Onward(r, seg, a), b) = Onward(r, seg, b)
<1>1. \A addr, type, field, sel, err :
        Onto(Ref(a, addr, type, field, sel, err), b) = Ref(b, addr, type, field, sel, err)
  BY DEF Onto, Ref
<1>2. CASE r.field = None
  <2>1. ~AtMap(r) /\ ~AtArray(r) /\ ~AtPlace(r)
    BY <1>2 DEF AtMap, AtArray, AtPlace
  <2>2. \A x : Onward(r, seg, x) = Ref(x, r.addr, r.type, seg, None, None)
    BY <1>2, <2>1 DEF Onward
  <2> QED
    BY <1>1, <2>2
<1>3. CASE AtMap(r)
  <2>1. ~AtArray(r) /\ ~AtPlace(r) /\ r.field # None
    BY <1>3 DEF AtMap, AtArray, AtPlace
  <2>2. \A x : Onward(r, seg, x) = Ref(x, r.addr, r.type, r.field, KeyOf(r, seg), None)
    BY <1>3, <2>1 DEF Onward
  <2> QED
    BY <1>1, <2>2
<1>4. CASE AtArray(r)
  <2>1. ~AtMap(r) /\ ~AtPlace(r) /\ r.field # None
    BY <1>4 DEF AtMap, AtArray, AtPlace
  <2>2. \A x : Onward(r, seg, x) = Ref(x, r.addr, r.type, r.field, Index[seg], None)
    BY <1>4, <2>1 DEF Onward
  <2> QED
    BY <1>1, <2>2
<1>5. CASE AtPlace(r)
  <2>1. ~AtMap(r) /\ ~AtArray(r) /\ r.field # None
    BY <1>5 DEF AtPlace
  <2>2. \A x : Onward(r, seg, x) = Ref(x, Append(r.addr, Here(r)), FieldOf(r).of, seg, None, None)
    BY <1>5, <2>1 DEF Onward
  <2> QED
    BY <1>1, <2>2
<1> QED
  BY <1>2, <1>3, <1>4, <1>5 DEF AtPlace

\* What the mutable reference runs into, the other runs into as well.
LEMMA FaultMore ==
  ASSUME NEW m, NEW r, NEW seg
  PROVE  /\ Fault(FALSE, m, r, seg) = None => Fault(TRUE, m, r, seg) = None
         /\ Fault(FALSE, m, r, seg) # Fault(TRUE, m, r, seg) =>
               /\ Fault(FALSE, m, r, seg) = "no key" /\ Fault(TRUE, m, r, seg) = None
               /\ AtMap(r) /\ KeyOf(r, seg) # None
               /\ KeyOf(r, seg) \notin DOMAIN m.val[r.field]
<1>0. None # "no key"
  BY NoneAssumption
<1>1. CASE r.field = None
  BY <1>1 DEF Fault, AtMap, AtArray, AtPlace
<1>2. CASE AtMap(r)
  <2>1. ~AtArray(r) /\ ~AtPlace(r) /\ r.field # None
    BY <1>2 DEF AtMap, AtArray, AtPlace
  <2> DEFINE key == KeyOf(r, seg)  gone == key \notin DOMAIN m.val[r.field]
  <2>2. /\ Fault(FALSE, m, r, seg) = IF key = None THEN "bad key" ELSE IF gone THEN "no key" ELSE None
        /\ Fault(TRUE, m, r, seg) = IF key = None THEN "bad key" ELSE None
    BY <1>2, <2>1 DEF Fault
  <2>3. key = None \/ (key # None /\ gone) \/ (key # None /\ ~gone)
    OBVIOUS
  <2> HIDE DEF key, gone
  <2> QED
    BY <1>0, <1>2, <2>2, <2>3 DEF key, gone
<1>3. CASE AtArray(r)
  <2>1. ~AtMap(r) /\ ~AtPlace(r) /\ r.field # None
    BY <1>3 DEF AtMap, AtArray, AtPlace
  <2> QED
    BY <1>3, <2>1 DEF Fault
<1>4. CASE AtPlace(r)
  <2>1. ~AtMap(r) /\ ~AtArray(r) /\ r.field # None
    BY <1>4 DEF AtPlace
  <2> QED
    BY <1>4, <2>1 DEF Fault
<1> QED
  BY <1>1, <1>2, <1>3, <1>4 DEF AtPlace

-----------------------------------------------------------------------------
(***************************************************************************)
(* The mutable reference on a message a.  Seen on a as it was, it goes     *)
(* where the other would go if no key were missing; and all it leaves      *)
(* behind in a is what it is at.                                           *)
(***************************************************************************)
Tracks(S, a, m) ==
    /\ IsRef(m) /\ m.err = None
    /\ Sees(S, Onto(m, a))
    /\ m.root = PutAt(a, m.addr, At(a, m.addr))

LEMMA TracksAt ==
  ASSUME NEW S, NEW a, NEW m, Tracks(S, a, m)
  PROVE  /\ \E h : Leads(S, a, m.addr, h)
         /\ Msg(m) = At(a, m.addr) /\ Msg(Onto(m, a)) = At(a, m.addr)
         /\ \A x : PutAt(m.root, m.addr, x) = PutAt(a, m.addr, x)
<1> DEFINE l == Onto(m, a)
<1>1. l.root = a /\ l.addr = m.addr
  BY OntoSame
<1>2. PICK h : Stands(S, l, h)
  BY DEF Tracks, Sees
<1>3. Leads(S, a, m.addr, h)
  BY <1>1, <1>2 DEF Stands
<1>4. m.root = PutAt(a, m.addr, At(a, m.addr))
  BY DEF Tracks
<1>5. At(m.root, m.addr) = At(a, m.addr)
  BY <1>3, <1>4, AtPut
<1>6. \A x : PutAt(m.root, m.addr, x) = PutAt(a, m.addr, x)
  BY <1>3, <1>4, PutPut
<1> QED
  BY <1>1, <1>3, <1>5, <1>6 DEF Msg

LEMMA TracksOn ==
  ASSUME NEW S, NEW a, NEW m, Tracks(S, a, m), NEW seg \in DOMAIN Index,
         NEW q, q = Follow(TRUE, m, seg), q.err = None
  PROVE  /\ Tracks(S, a, q)
         /\ Fault(TRUE, Msg(Onto(m, a)), Onto(m, a), seg) = None
         /\ Onto(q, a) = Onward(Onto(m, a), seg, a)
         /\ Advanced(Onto(m, a), Onto(q, a))
         /\ \E h : Points(S, Onto(q, a), h)
<1> DEFINE s == Here(m)  M == At(a, m.addr)
<1> SUFFICES ASSUME NEW l, l = Onto(m, a), NEW k, k = Onto(q, a)
             PROVE  /\ Tracks(S, a, q) /\ Fault(TRUE, Msg(l), l, seg) = None
                    /\ k = Onward(l, seg, a) /\ Advanced(l, k)
                    /\ \E h : Points(S, k, h)
  OBVIOUS
<1>1. IsRef(m) /\ m.err = None /\ Sees(S, l) /\ m.root = PutAt(a, m.addr, M)
  BY DEF Tracks, M
<1>2. Goes(TRUE, m, seg, q)
  BY <1>1, FollowIs
<1>3. PICK h0 : Leads(S, a, m.addr, h0)
  BY TracksAt
<1>4. Msg(m) = M /\ Msg(l) = M /\ \A x : PutAt(m.root, m.addr, x) = PutAt(a, m.addr, x)
  BY TracksAt DEF M
<1>5. /\ l.root = a /\ l.addr = m.addr /\ (AtPlace(l) <=> AtPlace(m))
      /\ FieldOf(l) = FieldOf(m) /\ Here(l) = s
  BY OntoSame DEF s
<1>6. q = Onward(m, seg, q.root) /\ Fault(TRUE, M, m, seg) = None /\ q.root = RootAfter(TRUE, m)
      /\ IsRef(q)
  BY <1>2, <1>4 DEF Goes
<1> HIDE DEF s, M
<1>7. Fault(TRUE, Msg(l), l, seg) = None
  <2>1. \A x : Fault(TRUE, x, Onto(m, a), seg) = Fault(TRUE, x, m, seg)
    BY FaultOnto
  <2> QED
    BY <1>4, <1>6, <2>1
<1>8. k = Onward(l, seg, a)
  <2>1. k = Onward(m, seg, a)
    <3>1. Onto(Onward(m, seg, q.root), a) = Onward(m, seg, a)
      BY OnwardOnto
    <3> QED
      BY <1>6, <3>1
  <2>2. Onward(Onto(m, a), seg, a) = Onward(m, seg, a)
    BY OntoOnward
  <2> QED
    BY <2>1, <2>2
<1>9. Advanced(l, k) /\ k.err = None /\ k.root = a /\ \E h : Points(S, k, h)
  <2>1. k = Onward(l, seg, l.root)
    BY <1>5, <1>8
  <2> QED
    BY <1>1, <1>5, <1>7, <2>1, SeesOn
<1>10. k.addr = q.addr
  <2>1. Onto(q, a).addr = q.addr
    BY OntoSame
  <2> QED
    BY <2>1
<1>11. Sees(S, k)
  BY <1>9 DEF Sees, Points
<1>12. q.root = PutAt(a, q.addr, At(a, q.addr))
  <2>1. CASE ~AtPlace(m)
    <3>1. q.root = m.root
      BY <1>6, <2>1 DEF RootAfter
    <3>2. q.addr = m.addr
      BY <1>5, <1>9, <1>10, <2>1 DEF Advanced
    <3> QED
      BY <1>1, <3>1, <3>2 DEF M
  <2>2. CASE AtPlace(m)
    <3>1. FieldOf(m).kind = "msg" /\ q.addr = Append(m.addr, s)
      BY <1>5, <1>9, <1>10, <2>2 DEF Advanced
    <3>2. q.root = Ensure(m)
      BY <1>6, <2>2, <3>1 DEF RootAfter, RootInside
    <3>3. Ensure(m) = PutAt(a, m.addr, WithPart(M, s, Part(M, s)))
      BY <1>4 DEF Ensure, s
    <3>4. /\ \A x : PutAt(a, Append(m.addr, s), x) = PutAt(a, m.addr, WithPart(M, s, x))
          /\ At(a, Append(m.addr, s)) = Part(M, s)
      BY <1>3, PutAppend DEF M
    <3>5. PutAt(a, Append(m.addr, s), Part(M, s)) = PutAt(a, m.addr, WithPart(M, s, Part(M, s)))
      BY <3>4
    <3>6. PutAt(a, q.addr, At(a, q.addr)) = PutAt(a, Append(m.addr, s), Part(M, s))
      BY <3>1, <3>4
    <3> QED
      BY <3>2, <3>3, <3>5, <3>6
  <2> QED
    BY <2>1, <2>2
<1>13. Tracks(S, a, q)
  BY <1>6, <1>11, <1>12 DEF Tracks
<1> QED
  BY <1>7, <1>8, <1>9, <1>13

LEMMA StartSees ==
  ASSUME NEW S, Full(S), NEW a \in S
  PROVE  /\ Sees(S, StartOf(a)) /\ Tracks(S, a, StartOf(a))
         /\ Onto(StartOf(a), a) = StartOf(a)
         /\ StartOf(a) = Ref(a, <<>>, a.type, None, None, None)
<1> DEFINE st == StartOf(a)  none == <<>>  h == [i \in {0} |-> a]
<1>1. st = Ref(a, none, a.type, None, None, None)
  BY DEF StartOf, Ref
<1>2. /\ IsRef(st) /\ st.root = a /\ st.addr = none /\ st.type = a.type
      /\ st.field = None /\ st.sel = None /\ st.err = None
  <2> DEFINE t == a.type
  <2> HIDE DEF st, none, t
  <2>1. st = Ref(a, none, t, None, None, None)
    BY <1>1 DEF t
  <2>2. /\ IsRef(st) /\ st.root = a /\ st.addr = none /\ st.type = t
        /\ st.field = None /\ st.sel = None /\ st.err = None
    BY <2>1 DEF Ref, IsRef
  <2> QED
    BY <2>2 DEF t
<1>3. Onto(st, a) = st
  <2> HIDE DEF st, none
  <2> QED
    BY <1>1, <1>2 DEF Onto
<1>4. none \in Seq({}) /\ Len(none) = 0 /\ h[0] = a
  OBVIOUS
<1> HIDE DEF st, none, h
<1>5. Leads(S, a, none, h)
  BY <1>4 DEF Leads, IsSeq, Reach
<1>6. Stands(S, st, h)
  BY <1>2, <1>4, <1>5 DEF Stands
<1>7. Sees(S, st)
  BY <1>2, <1>6 DEF Sees
<1>8. At(a, none) = a /\ PutAt(a, none, a) = a
  BY AtStart DEF none
<1>9. Tracks(S, a, st)
  BY <1>2, <1>3, <1>7, <1>8 DEF Tracks
<1> QED
  BY <1>1, <1>3, <1>7, <1>9 DEF st, none

\* The reading reference never changes the message, and one segment is as described.
LEMMA ConstStep ==
  ASSUME NEW a, NEW p \in Seq(DOMAIN Index)
  PROVE  /\ \A i \in 0..Len(p) :
               IsRef(On(FALSE, a, p, i)) /\ On(FALSE, a, p, i).root = a
         /\ \A i \in 1..Len(p) :
               LET c == On(FALSE, a, p, i - 1)  q == On(FALSE, a, p, i) IN
               /\ c.err # None => q = c
               /\ c.err = None => /\ q.err = Fault(FALSE, Msg(c), c, p[i])
                                  /\ q.err = None => q = Onward(c, p[i], a)
<1> DEFINE n == Len(p)
           C(i) == On(FALSE, a, p, i)
           I == {i \in 0..n : IsRef(C(i)) /\ C(i).root = a}
<1>1. n \in Nat
  OBVIOUS
<1>2. C(0) = StartOf(a) /\ \A i \in 1..n : C(i) = Follow(FALSE, C(i - 1), p[i])
  BY OnNext
<1>3. 0 \in I
  <2>1. IsRef(StartOf(a)) /\ StartOf(a).root = a
    BY DEF StartOf, IsRef
  <2>2. IsRef(C(0)) /\ C(0).root = a
    BY <1>2, <2>1
  <2> HIDE DEF C, n
  <2> QED
    BY <1>1, <2>2
<1>4. ASSUME NEW i \in 1..n, IsRef(C(i - 1)), C(i - 1).root = a
      PROVE  /\ IsRef(C(i)) /\ C(i).root = a
             /\ C(i - 1).err # None => C(i) = C(i - 1)
             /\ C(i - 1).err = None => /\ C(i).err = Fault(FALSE, Msg(C(i - 1)), C(i - 1), p[i])
                                       /\ C(i).err = None => C(i) = Onward(C(i - 1), p[i], a)
  <2> DEFINE c == C(i - 1)  q == C(i)
  <2>1. q = Follow(FALSE, c, p[i])
    BY <1>2
  <2> HIDE DEF c, q
  <2>2. CASE c.err # None
    <3>1. q = c
      BY <2>1, <2>2, FollowStopped
    <3> QED
      BY <1>4, <2>2, <3>1 DEF c, q
  <2>3. CASE c.err = None
    <3>1. Goes(FALSE, c, p[i], q)
      BY <1>4, <2>1, <2>3, FollowIs DEF c
    <3>2. q.root = c.root
      BY <3>1 DEF Goes, RootAfter, RootInside
    <3>3. IsRef(q) /\ q.err = Fault(FALSE, Msg(c), c, p[i]) /\ (q.err = None => q = Onward(c, p[i], q.root))
      BY <3>1 DEF Goes
    <3> QED
      BY <1>4, <2>3, <3>2, <3>3 DEF c, q
  <2> QED
    BY <2>2, <2>3
<1> HIDE DEF C
<1>5. \A i \in 1..n : i - 1 \in I => i \in I
  <2>1. \A i \in 1..n : i \in 0..n
    BY <1>1
  <2> HIDE DEF n
  <2> QED
    BY <1>4, <2>1
<1>6. \A i \in 0..n : i \in I
  <2> HIDE DEF I, n
  <2> QED
    BY <1>1, <1>3, <1>5, InductTo
<1>7. \A i \in 0..n : IsRef(C(i)) /\ C(i).root = a
  BY <1>6
<1>8. \A i \in 1..n : i - 1 \in 0..n
  BY <1>1
<1> HIDE DEF n, I
<1>9. ASSUME NEW i \in 1..n
      PROVE  /\ C(i - 1).err # None => C(i) = C(i - 1)
             /\ C(i - 1).err = None => /\ C(i).err = Fault(FALSE, Msg(C(i - 1)), C(i - 1), p[i])
                                       /\ C(i).err = None => C(i) = Onward(C(i - 1), p[i], a)
  BY <1>4, <1>7, <1>8
<1> QED
  BY <1>7, <1>9 DEF C, n

\* What has been thrown stays thrown.
LEMMA ThrownBefore ==
  ASSUME NEW mutable, NEW a, NEW p \in Seq(DOMAIN Index), NEW i \in 1..Len(p),
         On(mutable, a, p, i).err = None
  PROVE  On(mutable, a, p, i - 1).err = None
<1>1. \A j \in 1..Len(p) :
         On(mutable, a, p, j) = Follow(mutable, On(mutable, a, p, j - 1), p[j])
  BY OnNext
<1>2. On(mutable, a, p, i) = Follow(mutable, On(mutable, a, p, i - 1), p[i])
  BY <1>1
<1> QED
  BY <1>2, FollowStopped

(***************************************************************************)
(* The mutable reference after i segments, seen on the message as it was.  *)
(***************************************************************************)
View(a, p, i) == Onto(On(TRUE, a, p, i), a)

LEMMA MutableTracks ==
  ASSUME NEW S, Full(S), NEW a \in S, NEW p \in Seq(DOMAIN Index), NEW i \in 0..Len(p),
         On(TRUE, a, p, i).err = None
  PROVE  Tracks(S, a, On(TRUE, a, p, i))
<1> DEFINE n == Len(p)
           M(j) == On(TRUE, a, p, j)
           I == {j \in 0..n : M(j).err = None => Tracks(S, a, M(j))}
<1>1. n \in Nat
  OBVIOUS
<1>2. M(0) = StartOf(a) /\ \A j \in 1..n : M(j) = Follow(TRUE, M(j - 1), p[j])
  BY OnNext
<1>3. 0 \in I
  <2>1. Tracks(S, a, M(0))
    BY <1>2, StartSees
  <2> HIDE DEF M, n
  <2> QED
    BY <1>1, <2>1
<1>4. ASSUME NEW j \in 1..n, j - 1 \in I, M(j).err = None PROVE Tracks(S, a, M(j))
  <2>1. M(j - 1).err = None
    BY <1>4, ThrownBefore
  <2>2. p[j] \in DOMAIN Index
    OBVIOUS
  <2> HIDE DEF M
  <2> QED
    BY <1>2, <1>4, <2>1, <2>2, TracksOn
<1> HIDE DEF M
<1>5. \A j \in 1..n : j - 1 \in I => j \in I
  BY <1>1, <1>4
<1>6. i \in I
  <2> HIDE DEF I, n
  <2>1. \A j \in 0..n : j \in I
    BY <1>1, <1>3, <1>5, InductTo
  <2> QED
    BY <2>1 DEF n
<1> QED
  BY <1>6 DEF M

\* The path's segment i led on.
Stepped(S, a, p, i) ==
    LET l == View(a, p, i - 1)  k == View(a, p, i) IN
    /\ On(TRUE, a, p, i - 1).err = None
    /\ Sees(S, l) /\ l.err = None /\ l.root = a /\ IsRef(l)
    /\ Fault(TRUE, Msg(l), l, p[i]) = None
    /\ k = Onward(l, p[i], a) /\ Advanced(l, k) /\ k.root = a /\ k.err = None
    /\ \E h : Points(S, k, h)

LEMMA ViewStep ==
  ASSUME NEW S, Full(S), NEW a \in S, NEW p \in Seq(DOMAIN Index), NEW i \in 1..Len(p),
         On(TRUE, a, p, i).err = None
  PROVE  Stepped(S, a, p, i)
<1> DEFINE m == On(TRUE, a, p, i - 1)  q == On(TRUE, a, p, i)
<1>1. q = Follow(TRUE, m, p[i]) /\ i - 1 \in 0..Len(p) /\ p[i] \in DOMAIN Index
  <2>1. \A j \in 1..Len(p) : On(TRUE, a, p, j) = Follow(TRUE, On(TRUE, a, p, j - 1), p[j])
    BY OnNext
  <2>2. q = Follow(TRUE, m, p[i])
    BY <2>1
  <2>3. p[i] \in DOMAIN Index
    OBVIOUS
  <2>4. i - 1 \in 0..Len(p)
    <3>1. Len(p) \in Nat
      OBVIOUS
    <3> HIDE DEF m, q
    <3> QED
      BY <3>1
  <2> HIDE DEF m, q
  <2> QED
    BY <2>2, <2>3, <2>4
<1>2. m.err = None
  BY ThrownBefore
<1>3. Tracks(S, a, m)
  BY <1>1, <1>2, MutableTracks
<1> HIDE DEF m, q
<1>4. q.err = None
  BY DEF q
<1> DEFINE seg == p[i]
<1> HIDE DEF seg
<1>8. seg \in DOMAIN Index /\ q = Follow(TRUE, m, seg)
  BY <1>1 DEF seg
<1>5. /\ Fault(TRUE, Msg(Onto(m, a)), Onto(m, a), p[i]) = None
      /\ Onto(q, a) = Onward(Onto(m, a), p[i], a)
      /\ Advanced(Onto(m, a), Onto(q, a))
      /\ \E h : Points(S, Onto(q, a), h)
  <2>1. /\ Fault(TRUE, Msg(Onto(m, a)), Onto(m, a), seg) = None
        /\ Onto(q, a) = Onward(Onto(m, a), seg, a)
        /\ Advanced(Onto(m, a), Onto(q, a))
        /\ \E h : Points(S, Onto(q, a), h)
    BY <1>3, <1>4, <1>8, TracksOn
  <2> QED
    BY <2>1 DEF seg
<1>6. Sees(S, Onto(m, a))
  BY <1>3 DEF Tracks
<1>7. Onto(m, a).err = None /\ Onto(m, a).root = a /\ Onto(q, a).root = a /\ Onto(q, a).err = None
      /\ IsRef(Onto(m, a))
  BY <1>2, <1>4, OntoSame
<1> QED
  BY <1>2, <1>5, <1>6, <1>7 DEF Stepped, View, m, q

\* What the next segment does to the mutable reference, told by what it was at in a.
LEMMA MutableStep ==
  ASSUME NEW S, Full(S), NEW a \in S, NEW p \in Seq(DOMAIN Index), NEW i \in 1..Len(p)
  PROVE  LET m == On(TRUE, a, p, i - 1)  q == On(TRUE, a, p, i)  l == View(a, p, i - 1) IN
         /\ i - 1 \in 0..Len(p)
         /\ m.err # None => q = m
         /\ m.err = None => q.err = Fault(TRUE, Msg(l), l, p[i])
<1> DEFINE m == On(TRUE, a, p, i - 1)  q == On(TRUE, a, p, i)  l == View(a, p, i - 1)
           seg == p[i]
<1>1. q = Follow(TRUE, m, seg)
  <2>1. \A j \in 1..Len(p) : On(TRUE, a, p, j) = Follow(TRUE, On(TRUE, a, p, j - 1), p[j])
    BY OnNext
  <2> QED
    BY <2>1
<1>2. i - 1 \in 0..Len(p)
  <2>1. Len(p) \in Nat
    OBVIOUS
  <2> HIDE DEF m, q, l, seg
  <2> QED
    BY <2>1
<1>3. m.err = None => Tracks(S, a, m)
  BY <1>2, MutableTracks
<1>4. l = Onto(m, a)
  BY DEF View
<1> HIDE DEF m, q, l, seg
<1>5. m.err # None => q = m
  BY <1>1, FollowStopped
<1>6. ASSUME m.err = None PROVE q.err = Fault(TRUE, Msg(l), l, seg)
  <2>1. IsRef(m) /\ Msg(m) = Msg(l)
    <3>1. IsRef(m)
      BY <1>3, <1>6 DEF Tracks
    <3>2. Msg(m) = At(a, m.addr) /\ Msg(Onto(m, a)) = At(a, m.addr)
      BY <1>3, <1>6, TracksAt
    <3> QED
      BY <1>4, <3>1, <3>2
  <2>2. Goes(TRUE, m, seg, q)
    BY <1>1, <1>6, <2>1, FollowIs
  <2>3. q.err = Fault(TRUE, Msg(m), m, seg)
    BY <2>2 DEF Goes
  <2>4. \A M : Fault(TRUE, M, Onto(m, a), seg) = Fault(TRUE, M, m, seg)
    BY FaultOnto
  <2> QED
    BY <1>4, <2>1, <2>3, <2>4
<1> QED
  BY <1>2, <1>5, <1>6 DEF m, q, l, seg

\* Place that is not there: an entry a map does not have, or one in an empty message.
NewPlace(r) ==
    \/ /\ r.field # None /\ IsMap(r) /\ r.sel # None
       /\ r.sel \notin DOMAIN Msg(r).val[r.field]
    \/ r.sel = None /\ Msg(r) = Create(r.type)

LEMMA NewPlaceOn ==
  ASSUME NEW S, NEW l, NEW k, NEW seg \in DOMAIN Index, NEW a, Sees(S, l), NewPlace(l),
         Fault(TRUE, Msg(l), l, seg) = None, k = Onward(l, seg, a), Advanced(l, k)
  PROVE  NewPlace(k)
<1>0. None \notin {"no field", "bad key", "no key", "bad index", "out of range",
                 "not nested", "map value", "abort"}
  BY NoneAssumption
<1>1. PICK h : Stands(S, l, h) /\ (l.field = None \/ Points(S, l, h))
  BY DEF Sees
<1>2. /\ Msg(l) \in S /\ MadeOf(S, Msg(l)) /\ Msg(l).type = l.type /\ l.type \in Types
  BY <1>1, StandsAt
<1>3. l.field # None => l.field \in DOMAIN Schema[l.type]
  BY <1>1 DEF Points
<1>4. ASSUME Msg(l) = Create(l.type), l.field # None
      PROVE  Msg(l).val[l.field] = Zero(FieldOf(l)) /\ IsFd(FieldOf(l))
  BY <1>2, <1>3, <1>4, SchemaFd DEF Create, FieldOf
<1>5. CASE l.field = None
  <2>1. ~AtPlace(l) /\ ~AtMap(l) /\ ~AtArray(l)
    BY <1>5 DEF AtPlace, AtMap, AtArray
  <2>2. k = Ref(a, l.addr, l.type, seg, None, None)
    BY <1>5, <2>1 DEF Onward
  <2>3. k.sel = None /\ k.type = l.type
    BY <2>2, RefParts
  <2>4. Msg(k) = Msg(l)
    BY <2>1 DEF Advanced
  <2>5. Msg(l) = Create(l.type)
    BY <1>5 DEF NewPlace
  <2> QED
    BY <2>3, <2>4, <2>5 DEF NewPlace
<1>6. CASE AtMap(l)
  <2>1. ~AtPlace(l) /\ ~AtArray(l) /\ l.field # None /\ l.sel = None /\ IsMap(l)
    BY <1>6 DEF AtPlace, AtMap, AtArray
  <2>2. k = Ref(a, l.addr, l.type, l.field, KeyOf(l, seg), None)
    BY <1>6, <2>1 DEF Onward
  <2>3. k.sel = KeyOf(l, seg) /\ k.type = l.type /\ k.field = l.field
    BY <2>2, RefParts
  <2>4. Msg(k) = Msg(l)
    BY <2>1 DEF Advanced
  <2>5. Msg(l) = Create(l.type)
    BY <2>1 DEF NewPlace
  <2>6. KeyOf(l, seg) # None
    BY <1>0, <1>6, <2>1 DEF Fault
  <2>7. Msg(l).val[l.field] = <<>>
    BY <1>4, <2>1, <2>5 DEF Zero, IsMap
  <2>8. KeyOf(l, seg) \notin DOMAIN Msg(l).val[l.field]
    BY <2>7
  <2>9. IsMap(k)
    BY <2>1, <2>3 DEF IsMap, FieldOf
  <2> QED
    BY <2>1, <2>3, <2>4, <2>6, <2>8, <2>9 DEF NewPlace
<1>7. CASE AtArray(l)
  <2>1. ~AtPlace(l) /\ ~AtMap(l) /\ l.field # None /\ l.sel = None /\ IsArray(l) /\ ~IsMap(l)
    BY <1>7 DEF AtMap, AtArray, AtPlace
  <2>2. Msg(l) = Create(l.type)
    BY <2>1 DEF NewPlace
  <2>3. Msg(l).val[l.field] = <<>>
    BY <1>4, <2>1, <2>2 DEF Zero, IsArray
  <2>4. Fault(TRUE, Msg(l), l, seg) =
          IF Index[seg] = None THEN "bad index"
          ELSE IF Index[seg] >= Len(Msg(l).val[l.field]) \/ Index[seg] < 0 THEN "out of range"
          ELSE None
    BY <1>7, <2>1 DEF Fault
  <2>5. ~(Index[seg] >= Len(Msg(l).val[l.field]) \/ Index[seg] < 0) /\ Index[seg] # None
    BY <1>0, <2>4
  <2>6. Len(Msg(l).val[l.field]) = 0
    BY <2>3
  <2>7. Index[seg] \in Int
    BY <2>5, IndexAssumption
  <2> QED
    BY <2>5, <2>6, <2>7
<1>8. CASE AtPlace(l)
  <2>1. ~AtMap(l) /\ ~AtArray(l) /\ l.field # None
    BY <1>8 DEF AtPlace
  <2>2. /\ FieldOf(l).kind = "msg" /\ k.type = FieldOf(l).of /\ k.sel = None
        /\ Msg(k) = Part(Msg(l), Here(l)) /\ FieldOf(l) = Field(Msg(l), l.field)
    BY <1>8 DEF Advanced, Here
  <2>3. ElementZero(FieldOf(l)) = Create(FieldOf(l).of)
    BY <2>2 DEF ElementZero
  <2>4. Part(Msg(l), Here(l)) = ElementZero(FieldOf(l))
    <3> DEFINE v == Msg(l).val[l.field]  s == Here(l)
    <3>1. s.field = l.field /\ s.sel = l.sel
      BY DEF Here
    <3>2. CASE IsMap(l) /\ l.sel # None /\ l.sel \notin DOMAIN v
      BY <2>2, <3>1, <3>2 DEF Part, IsMap
    <3>3. CASE l.sel = None /\ Msg(l) = Create(l.type)
      <4>1. v = Zero(FieldOf(l)) /\ IsFd(FieldOf(l))
        BY <1>4, <2>1, <3>3
      <4>2. FieldOf(l).label = "one"
        BY <2>1, <3>3, <4>1 DEF AtMap, AtArray, IsArray, IsMap, IsFd
      <4>3. v = <<>>
        BY <2>2, <4>1, <4>2 DEF Zero
      <4> QED
        BY <2>2, <3>1, <4>2, <4>3 DEF Part
    <3> QED
      BY <3>2, <3>3 DEF NewPlace
  <2> QED
    BY <2>2, <2>3, <2>4 DEF NewPlace
<1> QED
  BY <1>5, <1>6, <1>7, <1>8 DEF AtPlace

(***************************************************************************)
(* The two references side by side.  They go the same way until one is     *)
(* stopped; a key that is missing stops only the one that reads, and the   *)
(* other is in places that are not there from then on.                     *)
(***************************************************************************)
Beside(a, p, i) ==
    LET c == On(FALSE, a, p, i)  m == On(TRUE, a, p, i) IN
    /\ c.err = None => m.err = None /\ View(a, p, i) = c
    /\ (c.err # None /\ m.err # None) => m.err = c.err \/ c.err = "no key"
    /\ (c.err # None /\ m.err = None) => c.err = "no key" /\ NewPlace(View(a, p, i))

LEMMA BesideNext ==
  ASSUME NEW S, Full(S), NEW a \in S, NEW p \in Seq(DOMAIN Index), NEW i \in 1..Len(p),
         Beside(a, p, i - 1)
  PROVE  Beside(a, p, i)
<1> DEFINE c == On(FALSE, a, p, i - 1)  c1 == On(FALSE, a, p, i)
           m == On(TRUE, a, p, i - 1)   m1 == On(TRUE, a, p, i)
           l == View(a, p, i - 1)       k == View(a, p, i)
           seg == p[i]
<1>0. None # "no key"
  BY NoneAssumption
<1>1. /\ c.err # None => c1 = c
      /\ c.err = None => c1.err = Fault(FALSE, Msg(c), c, seg)
      /\ c.err = None /\ c1.err = None => c1 = Onward(c, seg, a)
  BY ConstStep
<1>2. /\ m.err # None => m1 = m
      /\ m.err = None => m1.err = Fault(TRUE, Msg(l), l, seg)
  BY MutableStep
<1>3. m1.err = None => /\ m.err = None /\ Sees(S, l)
                       /\ Fault(TRUE, Msg(l), l, seg) = None
                       /\ k = Onward(l, seg, a) /\ Advanced(l, k) /\ \E h : Points(S, k, h)
  <2> SUFFICES ASSUME m1.err = None
               PROVE  /\ m.err = None /\ Sees(S, l)
                      /\ Fault(TRUE, Msg(l), l, seg) = None
                      /\ k = Onward(l, seg, a) /\ Advanced(l, k) /\ \E h : Points(S, k, h)
    OBVIOUS
  <2>1. Stepped(S, a, p, i)
    BY ViewStep
  <2> QED
    BY <2>1 DEF Stepped
<1>4. /\ c.err = None => m.err = None /\ l = c
      /\ (c.err # None /\ m.err # None) => m.err = c.err \/ c.err = "no key"
      /\ (c.err # None /\ m.err = None) => c.err = "no key" /\ NewPlace(l)
  BY DEF Beside
<1> HIDE DEF c, c1, m, m1, l, k, seg
<1>5. /\ Fault(FALSE, Msg(l), l, seg) = None => Fault(TRUE, Msg(l), l, seg) = None
      /\ Fault(FALSE, Msg(l), l, seg) # Fault(TRUE, Msg(l), l, seg) =>
           /\ Fault(FALSE, Msg(l), l, seg) = "no key"
           /\ AtMap(l) /\ KeyOf(l, seg) # None
           /\ KeyOf(l, seg) \notin DOMAIN Msg(l).val[l.field]
  BY FaultMore
<1>6. ASSUME c1.err = None PROVE m1.err = None /\ k = c1
  BY <1>1, <1>2, <1>3, <1>4, <1>5, <1>6
<1>7. ASSUME c1.err # None, m1.err # None PROVE m1.err = c1.err \/ c1.err = "no key"
  <2>1. CASE c.err = None
    BY <1>1, <1>2, <1>4, <1>5, <2>1
  <2>2. CASE c.err # None /\ m.err = None
    BY <1>1, <1>4, <2>2
  <2>3. CASE c.err # None /\ m.err # None
    BY <1>1, <1>2, <1>4, <2>3
  <2> QED
    BY <2>1, <2>2, <2>3
<1>8. ASSUME c1.err # None, m1.err = None PROVE c1.err = "no key" /\ NewPlace(k)
  <2>0. seg \in DOMAIN Index
    BY DEF seg
  <2>1. CASE c.err = None
    <3>1. /\ c1.err = "no key" /\ AtMap(l) /\ KeyOf(l, seg) # None
          /\ KeyOf(l, seg) \notin DOMAIN Msg(l).val[l.field]
      BY <1>1, <1>3, <1>4, <1>5, <1>8, <2>1
    <3>2. ~AtPlace(l) /\ ~AtArray(l) /\ l.field # None /\ IsMap(l)
      BY <3>1 DEF AtPlace, AtMap, AtArray
    <3>3. k = Ref(a, l.addr, l.type, l.field, KeyOf(l, seg), None)
      BY <1>3, <1>8, <3>1, <3>2 DEF Onward
    <3>4. k.sel = KeyOf(l, seg) /\ k.type = l.type /\ k.field = l.field
      BY <3>3, RefParts
    <3>5. Msg(k) = Msg(l)
      BY <1>3, <1>8, <3>2 DEF Advanced
    <3>6. IsMap(k)
      BY <3>2, <3>4 DEF IsMap, FieldOf
    <3> QED
      BY <3>1, <3>2, <3>4, <3>5, <3>6 DEF NewPlace
  <2>2. CASE c.err # None
    BY <1>1, <1>3, <1>4, <1>8, <2>0, <2>2, NewPlaceOn
  <2> QED
    BY <2>1, <2>2
<1> QED
  BY <1>6, <1>7, <1>8 DEF Beside, c1, m1, k

LEMMA SideBySide ==
  ASSUME NEW S, Full(S), NEW a \in S, NEW p \in Seq(DOMAIN Index)
  PROVE  \A i \in 0..Len(p) : Beside(a, p, i)
<1> DEFINE n == Len(p)  I == {i \in 0..n : Beside(a, p, i)}
<1>1. n \in Nat
  OBVIOUS
<1>2. Beside(a, p, 0)
  <2>1. On(FALSE, a, p, 0) = StartOf(a) /\ On(TRUE, a, p, 0) = StartOf(a)
    BY OnNext
  <2>2. StartOf(a).err = None
    BY DEF StartOf
  <2>3. View(a, p, 0) = StartOf(a)
    BY <2>1, StartSees DEF View
  <2> QED
    BY <2>1, <2>2, <2>3 DEF Beside
<1>3. \A i \in 1..n : Beside(a, p, i - 1) => Beside(a, p, i)
  BY BesideNext
<1> HIDE DEF n
<1>4. 0 \in I /\ \A i \in 1..n : i - 1 \in I => i \in I
  BY <1>1, <1>2, <1>3
<1>5. \A i \in 0..n : i \in I
  <2> HIDE DEF I
  <2> QED
    BY <1>1, <1>4, InductTo
<1> QED
  BY <1>5 DEF n

-----------------------------------------------------------------------------
(***************************************************************************)
(* What is put in one place of a message leaves the other places alone.    *)
(***************************************************************************)
SamePlace(m, s, t) ==
    t.field = s.field /\ (Field(m, s.field).label = "one" \/ t.sel = s.sel)

LEMMA PartSame ==
  ASSUME NEW m, NEW s, StepOK(m, s), NEW t, SamePlace(m, s, t)
  PROVE  Part(m, t) = Part(m, s)
<1>1. t.field = s.field /\ (Field(m, s.field).label = "one" \/ t.sel = s.sel)
  BY DEF SamePlace
<1> QED
  BY <1>1 DEF Part

LEMMA PartElsewhere ==
  ASSUME NEW S, Full(S), NEW m \in S, NEW s, StepOK(m, s), NEW t, StepOK(m, t),
         ~SamePlace(m, s, t), NEW x
  PROVE  Part(WithPart(m, s, x), t) = Part(m, t)
<1> DEFINE w == WithPart(m, s, x)  f == s.field  g == t.field
           fd == Field(m, f)  v == m.val[f]  u == w.val[f]
<1>1. MadeOf(S, m) /\ Shaped(m)
  BY MadeShaped DEF Full, Closed
<1>2. Changed(m, f, u, w) /\ Placed(fd, v, s.sel, x, u)
  BY <1>1, WithPartIs
<1>3. IsFd(fd) /\ Fills(S, fd, v)
  BY <1>1, SchemaFd DEF MadeOf, StepOK, Field
<1>4. Field(w, g) = Field(m, g) /\ g \in DOMAIN m.val
  BY <1>1, <1>2 DEF Changed, Field, StepOK, Shaped
<1>5. CASE g # f
  <2>1. w.val[g] = m.val[g]
    BY <1>2, <1>4, <1>5 DEF Changed
  <2> HIDE DEF w, u, v
  <2> QED
    BY <1>4, <2>1 DEF Part, w
<1>6. CASE g = f /\ fd.label # "one" /\ t.sel # s.sel
  <2>1. Field(w, g) = fd /\ w.val[g] = u /\ m.val[g] = v /\ Field(m, g) = fd
    BY <1>4, <1>6
  <2>2. CASE fd.label = "array"
    <3>1. v \in Seq(Elements(S, fd)) /\ s.sel \in 0..(Len(v) - 1) /\ t.sel \in 0..(Len(v) - 1)
      BY <1>3, <1>6, <2>2 DEF Fills, StepOK
    <3>2. u = [v EXCEPT ![s.sel + 1] = x]
      BY <1>2, <2>2 DEF Placed
    <3> HIDE DEF w, u, v, fd
    <3>3. t.sel + 1 \in 1..Len(v) /\ t.sel + 1 # s.sel + 1
      <4>1. Len(v) \in Nat
        BY <3>1
      <4> QED
        BY <1>6, <3>1, <4>1
    <3>4. u[t.sel + 1] = v[t.sel + 1]
      BY <3>1, <3>2, <3>3
    <3> QED
      BY <2>1, <2>2, <3>4 DEF Part, w
  <2>3. CASE fd.label = "map"
    <3>1. u = Over([k \in {s.sel} |-> x], v)
      BY <1>2, <2>3 DEF Placed
    <3> HIDE DEF w, u, v, fd
    <3>2. (t.sel \in DOMAIN u <=> t.sel \in DOMAIN v) /\ (t.sel \in DOMAIN v => u[t.sel] = v[t.sel])
      BY <1>6, <3>1 DEF Over
    <3> QED
      BY <2>1, <2>3, <3>2 DEF Part, w
  <2> QED
    BY <1>3, <1>6, <2>2, <2>3 DEF IsFd
<1> QED
  BY <1>5, <1>6 DEF SamePlace
=============================================================================
