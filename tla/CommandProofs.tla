----------------------------- MODULE CommandProofs -----------------------------
(***************************************************************************)
(* What a command of Store changes in a message, and what it leaves alone: *)
(* the paths that read and those that write agree, an error loses nothing, *)
(* lengths count what is listed, PB.SET and PB.DEL are local.  For every   *)
(* schema, message, command and path.                                      *)
(***************************************************************************)
EXTENDS StoreProofs, FiniteSetTheorems

-----------------------------------------------------------------------------
(***************************************************************************)
(* Growth.  A message grows when every field does; what its growing pairs  *)
(* are made of grows with it.                                              *)
(***************************************************************************)
Grown(x, y) ==
    /\ y.type = x.type
    /\ \A f \in DOMAIN Schema[x.type] :
          /\ FieldGrows(Schema[x.type][f], x.val[f], y.val[f])
          /\ Schema[x.type][f].label = "array" => Len(x.val[f]) \in Nat /\ Len(y.val[f]) \in Nat

\* A step to a message that the reading reference can take.
Readable(x, s) ==
    /\ StepOK(x, s) /\ Field(x, s.field).kind = "msg"
    /\ Field(x, s.field).label = "map" => s.sel \in DOMAIN x.val[s.field]

Growing(R) ==
    \A x, y : <<x, y>> \in R =>
        Grown(x, y) /\ \A s : Readable(x, s) => <<Part(x, s), Part(y, s)>> \in R

\* The reference denotes nothing a map does not have.
Found(r) == (r.field # None /\ r.sel # None /\ IsMap(r)) => r.sel \in DOMAIN Msg(r).val[r.field]

LEMMA FieldGrowsSame ==
  ASSUME NEW S, NEW fd, IsFd(fd), NEW v, Fills(S, fd, v)
  PROVE  FieldGrows(fd, v, v) /\ (fd.label = "array" => Len(v) \in Nat)
<1>1. CASE fd.label = "array"
  <2>1. v \in Seq(Elements(S, fd))
    BY <1>1 DEF Fills
  <2>2. Len(v) \in Nat /\ IsPrefix(v, v)
    BY <2>1 DEF IsPrefix
  <2> QED
    BY <1>1, <2>2 DEF FieldGrows
<1>2. CASE fd.label = "map"
  BY <1>2 DEF FieldGrows
<1>3. CASE fd.label = "one"
  BY <1>3 DEF FieldGrows
<1> QED
  BY <1>1, <1>2, <1>3 DEF IsFd

LEMMA GrownSame ==
  ASSUME NEW S, NEW m, MadeOf(S, m)
  PROVE  Grown(m, m)
<1>1. ASSUME NEW f \in DOMAIN Schema[m.type]
      PROVE  IsFd(Schema[m.type][f]) /\ Fills(S, Schema[m.type][f], m.val[f])
  BY SchemaFd DEF MadeOf
<1> QED
  BY <1>1, FieldGrowsSame DEF Grown

\* One step of the two reading references.
LEMMA GrowsOn ==
  ASSUME NEW S, NEW a, NEW b, NEW R, Growing(R), NEW seg \in DOMAIN Index,
         NEW x, Sees(S, x), x.root = a, <<Msg(x), Msg(Onto(x, b))>> \in R, Found(x),
         Fault(FALSE, Msg(x), x, seg) = None, Advanced(x, Onward(x, seg, a))
  PROVE  /\ Fault(FALSE, Msg(Onto(x, b)), Onto(x, b), seg) = None
         /\ <<Msg(Onward(x, seg, a)), Msg(Onto(Onward(x, seg, a), b))>> \in R
         /\ Found(Onward(x, seg, a))
<1> SUFFICES ASSUME NEW y, y = Onto(x, b), NEW x1, x1 = Onward(x, seg, a)
             PROVE  /\ Fault(FALSE, Msg(y), y, seg) = None
                    /\ <<Msg(x1), Msg(Onto(x1, b))>> \in R
                    /\ Found(x1)
  OBVIOUS
<1>0. None \notin {"no field", "bad key", "no key", "bad index", "out of range",
                 "not nested", "map value", "abort"}
  BY NoneAssumption
<1>1. PICK h : Stands(S, x, h) /\ (x.field = None \/ Points(S, x, h))
  BY DEF Sees
<1>2. /\ Msg(x) = h[Len(x.addr)] /\ Msg(x) \in S /\ MadeOf(S, Msg(x)) /\ Msg(x).type = x.type
      /\ x.type \in Types /\ Full(S)
  BY <1>1, StandsAt
<1>3. Grown(Msg(x), Msg(y)) /\ \A s : Readable(Msg(x), s) => <<Part(Msg(x), s), Part(Msg(y), s)>> \in R
  BY DEF Growing
<1>4. /\ y.root = b /\ y.addr = x.addr
      /\ Onto(x1, b).root = b /\ Onto(x1, b).addr = x1.addr
  BY OntoSame
<1>5. Msg(y) = At(b, x.addr) /\ Msg(Onto(x1, b)) = At(b, x1.addr)
  BY <1>4 DEF Msg
<1> DEFINE X == Msg(x)  Y == Msg(y)
<1>6. Fault(FALSE, Y, y, seg) = Fault(FALSE, Y, x, seg)
  <2>1. \A M : Fault(FALSE, M, Onto(x, b), seg) = Fault(FALSE, M, x, seg)
    BY FaultOnto
  <2> HIDE DEF Y
  <2> QED
    BY <2>1
<1>7. CASE x.field = None
  <2>1. ~AtPlace(x) /\ ~AtMap(x) /\ ~AtArray(x)
    BY <1>7 DEF AtPlace, AtMap, AtArray
  <2>2. Fault(FALSE, Y, x, seg) = Fault(FALSE, X, x, seg)
    BY <1>7, <2>1 DEF Fault
  <2>3. x1 = Ref(a, x.addr, x.type, seg, None, None)
    BY <1>7, <2>1 DEF Onward
  <2>4. x1.sel = None /\ x1.addr = x.addr
    BY <2>3, RefParts
  <2>5. Msg(x1) = X
    BY <2>1 DEF Advanced
  <2>6. Msg(Onto(x1, b)) = Y
    BY <1>5, <2>4
  <2> QED
    BY <1>6, <2>2, <2>4, <2>5, <2>6 DEF Found
<1>8. ASSUME x.field # None
      PROVE  /\ x.field \in DOMAIN Schema[x.type] /\ IsFd(FieldOf(x))
             /\ FieldOf(x) = Schema[X.type][x.field]
             /\ FieldGrows(FieldOf(x), X.val[x.field], Y.val[x.field])
             /\ FieldOf(x).label = "array" => Len(X.val[x.field]) \in Nat /\ Len(Y.val[x.field]) \in Nat
  <2>1. x.field \in DOMAIN Schema[x.type]
    BY <1>1, <1>8 DEF Points
  <2> QED
    BY <1>2, <1>3, <2>1, SchemaFd DEF FieldOf, Grown
<1>9. CASE AtMap(x)
  <2>1. ~AtPlace(x) /\ ~AtArray(x) /\ x.field # None /\ x.sel = None /\ IsMap(x)
    BY <1>9 DEF AtPlace, AtMap, AtArray
  <2> DEFINE key == KeyOf(x, seg)
  <2>2. \A M : Fault(FALSE, M, x, seg) = IF key = None THEN "bad key"
                                         ELSE IF key \notin DOMAIN M.val[x.field] THEN "no key"
                                         ELSE None
    BY <1>9, <2>1 DEF Fault
  <2>3. DOMAIN X.val[x.field] \subseteq DOMAIN Y.val[x.field]
    <3>1. FieldOf(x).label = "map"
      BY <2>1 DEF IsMap
    <3> HIDE DEF X, Y
    <3> QED
      BY <1>8, <2>1, <3>1 DEF FieldGrows
  <2>4. key # None /\ key \in DOMAIN X.val[x.field]
    <3> HIDE DEF key
    <3> QED
      BY <1>0, <2>2
  <2>5. Fault(FALSE, Y, x, seg) = None
    <3> HIDE DEF key, X, Y
    <3> QED
      BY <2>2, <2>3, <2>4
  <2>6. x1 = Ref(a, x.addr, x.type, x.field, key, None)
    BY <1>9, <2>1 DEF Onward
  <2>7. x1.sel = key /\ x1.addr = x.addr /\ x1.field = x.field
    BY <2>6, RefParts
  <2>8. Msg(x1) = X
    BY <2>1 DEF Advanced
  <2>9. Msg(Onto(x1, b)) = Y
    BY <1>5, <2>7
  <2> QED
    BY <1>6, <2>4, <2>5, <2>7, <2>8, <2>9 DEF Found
<1>10. CASE AtArray(x)
  <2>1. ~AtPlace(x) /\ ~AtMap(x) /\ x.field # None /\ x.sel = None /\ IsArray(x) /\ ~IsMap(x)
    BY <1>10 DEF AtMap, AtArray, AtPlace
  <2> DEFINE i == Index[seg]
  <2>2. \A M : Fault(FALSE, M, x, seg) =
          IF i = None THEN "bad index"
          ELSE IF i >= Len(M.val[x.field]) \/ i < 0 THEN "out of range" ELSE None
    BY <1>10, <2>1 DEF Fault
  <2>3. FieldOf(x).label = "array"
    BY <1>8, <2>1 DEF IsArray, IsMap, IsFd
  <2>4. /\ Len(X.val[x.field]) \in Nat /\ Len(Y.val[x.field]) \in Nat
        /\ Len(X.val[x.field]) <= Len(Y.val[x.field])
    <3> HIDE DEF X, Y
    <3> QED
      BY <1>8, <2>1, <2>3 DEF FieldGrows, IsPrefix
  <2>5. i # None /\ ~(i >= Len(X.val[x.field]) \/ i < 0)
    <3> HIDE DEF i
    <3> QED
      BY <1>0, <2>2
  <2>6. i \in Int
    BY <2>5, IndexAssumption
  <2>7. Fault(FALSE, Y, x, seg) = None
    <3>1. ~(i >= Len(Y.val[x.field]) \/ i < 0)
      <4> HIDE DEF X, Y, i
      <4> QED
        BY <2>4, <2>5, <2>6
    <3> HIDE DEF i, X, Y
    <3> QED
      BY <2>2, <2>5, <3>1
  <2>8. x1 = Ref(a, x.addr, x.type, x.field, i, None)
    BY <1>10, <2>1 DEF Onward
  <2>9. x1.addr = x.addr /\ x1.field = x.field /\ x1.type = x.type
    BY <2>8, RefParts
  <2>10. Msg(x1) = X
    BY <2>1 DEF Advanced
  <2>11. Msg(Onto(x1, b)) = Y
    BY <1>5, <2>9
  <2>12. ~IsMap(x1)
    BY <2>1, <2>9 DEF IsMap, FieldOf
  <2> QED
    BY <1>6, <2>7, <2>10, <2>11, <2>12 DEF Found
<1>11. CASE AtPlace(x)
  <2> DEFINE s == Here(x)
  <2>1. ~AtMap(x) /\ ~AtArray(x) /\ x.field # None
    BY <1>11 DEF AtPlace
  <2>2. Fault(FALSE, Y, x, seg) = Fault(FALSE, X, x, seg)
    BY <1>11, <2>1 DEF Fault
  <2>3. /\ StepOK(X, s) /\ FieldOf(x).kind = "msg" /\ FieldOf(x) = Field(X, s.field)
        /\ x1.addr = Append(x.addr, s) /\ x1.sel = None /\ Msg(x1) = Part(X, s)
    BY <1>11 DEF Advanced
  <2>4. s.field = x.field /\ s.sel = x.sel
    BY DEF Here
  <2>5. Readable(X, s)
    <3>1. FieldOf(x).label = "map" => x.sel # None /\ IsMap(x)
      BY <2>1 DEF AtMap, IsMap
    <3> HIDE DEF X, s
    <3> QED
      BY <2>1, <2>3, <2>4, <3>1 DEF Readable, Found, X
  <2>6. Msg(Onto(x1, b)) = Part(Y, s)
    <3>1. PICK A0 : x.addr \in Seq(A0)
      BY <1>1 DEF Stands, Leads, IsSeq
    <3> DEFINE A == A0 \cup {s}
    <3>2. x.addr \in Seq(A) /\ s \in A
      <4>1. \A i \in 1..Len(x.addr) : x.addr[i] \in A0
        BY <3>1
      <4> HIDE DEF s
      <4> QED
        BY <3>1, <4>1
    <3> HIDE DEF A, s
    <3>3. At(b, Append(x.addr, s)) = Part(At(b, x.addr), s)
      BY <3>2, AtAppend
    <3> QED
      BY <1>5, <2>3, <3>3
  <2> QED
    BY <1>3, <1>6, <2>2, <2>3, <2>5, <2>6 DEF Found
<1> QED
  BY <1>7, <1>9, <1>10, <1>11 DEF AtPlace

\* Whatever leads somewhere in a leads there in b, where it finds what has grown.
Paired(R, a, b, p, i) ==
    LET x == On(FALSE, a, p, i) IN
    x.err = None => /\ On(FALSE, b, p, i) = Onto(x, b)
                    /\ <<Msg(x), Msg(Onto(x, b))>> \in R /\ Found(x)

LEMMA PairedNext ==
  ASSUME NEW S, Full(S), NEW a \in S, NEW b, NEW R, Growing(R),
         NEW p \in Seq(DOMAIN Index), NEW i \in 1..Len(p), Paired(R, a, b, p, i - 1)
  PROVE  Paired(R, a, b, p, i)
<1> DEFINE x == On(FALSE, a, p, i - 1)  x1 == On(FALSE, a, p, i)
           y == On(FALSE, b, p, i - 1)  y1 == On(FALSE, b, p, i)
           l == View(a, p, i - 1)       seg == p[i]
<1> SUFFICES ASSUME x1.err = None
             PROVE  y1 = Onto(x1, b) /\ <<Msg(x1), Msg(Onto(x1, b))>> \in R /\ Found(x1)
  BY DEF Paired
<1>1. /\ x.err # None => x1 = x
      /\ x.err = None => /\ x1.err = Fault(FALSE, Msg(x), x, seg)
                         /\ x1.err = None => x1 = Onward(x, seg, a)
  BY ConstStep
<1>2. /\ y.err # None => y1 = y
      /\ y.err = None => /\ y1.err = Fault(FALSE, Msg(y), y, seg)
                         /\ y1.err = None => y1 = Onward(y, seg, b)
  BY ConstStep
<1>3. x.err = None
  <2> HIDE DEF x, x1
  <2> QED
    BY <1>1
<1>4. y = Onto(x, b) /\ <<Msg(x), Msg(y)>> \in R /\ Found(x)
  BY <1>3 DEF Paired
<1>5. i - 1 \in 0..Len(p) /\ i \in 0..Len(p)
  <2>1. Len(p) \in Nat
    OBVIOUS
  <2> HIDE DEF x, x1, y, y1, l, seg
  <2> QED
    BY <2>1
<1>6. Beside(a, p, i - 1) /\ Beside(a, p, i)
  BY <1>5, SideBySide
<1>7. l = x /\ View(a, p, i) = x1 /\ On(TRUE, a, p, i).err = None
  BY <1>3, <1>6 DEF Beside
<1>8. Sees(S, l) /\ l.root = a /\ Advanced(l, View(a, p, i)) /\ View(a, p, i) = Onward(l, seg, a)
  <2>1. Stepped(S, a, p, i)
    BY <1>7, ViewStep
  <2> QED
    BY <2>1 DEF Stepped
<1>9. seg \in DOMAIN Index
  OBVIOUS
<1> HIDE DEF x, x1, y, y1, l, seg
<1>10. Fault(FALSE, Msg(x), x, seg) = None /\ x1 = Onward(x, seg, a)
       /\ Sees(S, x) /\ x.root = a /\ Advanced(x, x1)
  BY <1>1, <1>3, <1>7, <1>8
<1>11. /\ Fault(FALSE, Msg(y), y, seg) = None
       /\ <<Msg(x1), Msg(Onto(x1, b))>> \in R
       /\ Found(x1)
  <2>1. <<Msg(x), Msg(Onto(x, b))>> \in R /\ Found(x)
    BY <1>4
  <2>2. Sees(S, x) /\ x.root = a /\ Advanced(x, Onward(x, seg, a))
        /\ Fault(FALSE, Msg(x), x, seg) = None
    BY <1>10
  <2>3. /\ Fault(FALSE, Msg(Onto(x, b)), Onto(x, b), seg) = None
        /\ <<Msg(Onward(x, seg, a)), Msg(Onto(Onward(x, seg, a), b))>> \in R
        /\ Found(Onward(x, seg, a))
    BY <1>9, <2>1, <2>2, GrowsOn, ZenonT(60)
  <2> QED
    BY <1>4, <1>10, <2>3
<1>12. y.err = None
  BY <1>3, <1>4, OntoSame
<1>13. y1 = Onward(y, seg, b)
  BY <1>2, <1>11, <1>12
<1>14. y1 = Onward(x, seg, b)
  BY <1>4, <1>13, OntoOnward
<1>15. Onto(x1, b) = Onward(x, seg, b)
  BY <1>10, OnwardOnto
<1> QED
  BY <1>11, <1>14, <1>15

LEMMA GrowsAlong ==
  ASSUME NEW S, Full(S), NEW a \in S, NEW b, NEW R, Growing(R), <<a, b>> \in R,
         NEW p \in Seq(DOMAIN Index)
  PROVE  \A i \in 0..Len(p) : Paired(R, a, b, p, i)
<1> DEFINE n == Len(p)  I == {i \in 0..n : Paired(R, a, b, p, i)}
<1>1. n \in Nat
  OBVIOUS
<1>2. Paired(R, a, b, p, 0)
  <2>1. On(FALSE, a, p, 0) = StartOf(a) /\ On(FALSE, b, p, 0) = StartOf(b)
    BY OnNext
  <2> DEFINE st == StartOf(a)
  <2>2. st = Ref(a, <<>>, a.type, None, None, None)
    BY StartSees
  <2>3. StartOf(b) = Ref(b, <<>>, b.type, None, None, None)
    BY DEF StartOf, Ref
  <2>4. b.type = a.type
    BY DEF Growing, Grown
  <2> HIDE DEF st
  <2>5. st.addr = <<>> /\ st.type = a.type /\ st.field = None /\ st.sel = None /\ st.err = None
        /\ st.root = a
    BY <2>2 DEF Ref
  <2>6. Onto(st, b) = StartOf(b)
    BY <2>3, <2>4, <2>5 DEF Onto
  <2>7. Msg(st) = a
    BY <2>5, AtStart DEF Msg
  <2>8. Msg(Onto(st, b)) = b
    <3>1. Onto(st, b).root = b /\ Onto(st, b).addr = <<>>
      BY <2>5, OntoSame
    <3> QED
      BY <3>1, AtStart DEF Msg
  <2>9. Found(st)
    BY <2>5 DEF Found
  <2> QED
    BY <2>1, <2>6, <2>7, <2>8, <2>9 DEF Paired, st
<1>3. \A i \in 1..n : Paired(R, a, b, p, i - 1) => Paired(R, a, b, p, i)
  BY PairedNext
<1> HIDE DEF n
<1>4. 0 \in I /\ \A i \in 1..n : i - 1 \in I => i \in I
  BY <1>1, <1>2, <1>3
<1>5. \A i \in 0..n : i \in I
  <2> HIDE DEF I
  <2> QED
    BY <1>1, <1>4, InductTo
<1> QED
  BY <1>5 DEF n

LEMMA GrowsAll ==
  ASSUME NEW S, Full(S), NEW a \in S, NEW b, NEW R, Growing(R), <<a, b>> \in R
  PROVE  Grows(a, b)
<1>1. a.type = b.type
  BY DEF Growing, Grown
<1>2. ASSUME NEW p \in Paths, Reading(a, p).err = None
      PROVE  LET x == Reading(a, p)  y == Reading(b, p) IN
             /\ y = [x EXCEPT !.root = b]
             /\ FieldGrows(FieldOf(x), Msg(x).val[x.field], Msg(y).val[x.field])
  <2>1. p \in Seq(DOMAIN Index) /\ p # <<>>
    BY PathsAssumption
  <2> DEFINE n == Len(p)  x == On(FALSE, a, p, n)  y == On(FALSE, b, p, n)
  <2>2. \A m : Reading(m, p) = On(FALSE, m, p, n)
    BY <2>1, OnNext DEF Reading, ConstRef
  <2>3. n \in 1..Len(p) /\ n \in 0..Len(p)
    <3>1. n \in Nat /\ n # 0
      BY <2>1
    <3> HIDE DEF n, x, y
    <3> QED
      BY <3>1 DEF n
  <2>4. x.err = None
    BY <1>2, <2>2
  <2>5. y = Onto(x, b) /\ <<Msg(x), Msg(y)>> \in R
    <3>1. Paired(R, a, b, p, n)
      BY <2>1, <2>3, GrowsAlong
    <3> QED
      BY <2>4, <3>1 DEF Paired
  <2>6. IsRef(x)
    BY <2>1, <2>3, ConstStep
  <2>7. Beside(a, p, n)
    BY <2>1, <2>3, SideBySide
  <2>8. View(a, p, n) = x /\ On(TRUE, a, p, n).err = None
    BY <2>4, <2>7 DEF Beside
  <2>9. PICK h : Points(S, x, h)
    <3>1. \E h : Points(S, View(a, p, n), h)
      <4>1. Stepped(S, a, p, n)
        BY <2>1, <2>3, <2>8, ViewStep
      <4> QED
        BY <4>1 DEF Stepped
    <3> HIDE DEF x, y, n
    <3> QED
      BY <2>8, <3>1
  <2>14. Reading(a, p) = x /\ Reading(b, p) = y
    BY <2>2
  <2> HIDE DEF x, y, n
  <2>10. x.field \in DOMAIN Schema[x.type] /\ Msg(x).type = x.type
    BY <2>9, StandsAt DEF Points
  <2>11. Grown(Msg(x), Msg(y))
    BY <2>5 DEF Growing
  <2>12. FieldGrows(FieldOf(x), Msg(x).val[x.field], Msg(y).val[x.field])
    BY <2>10, <2>11 DEF Grown, FieldOf
  <2>13. y = [x EXCEPT !.root = b]
    BY <2>5, <2>6, RefChanges DEF Onto, Ref
  <2> QED
    BY <2>12, <2>13, <2>14
<1> QED
  BY <1>1, <1>2 DEF Grows

\* What grows at the end of an address grows the message it is in.
Extends(x, y) ==
    Grown(x, y) /\ \A s : Readable(x, s) => Part(y, s) = Part(x, s)

LEMMA GrowsPut ==
  ASSUME NEW S, NEW a, NEW addr, NEW h, Leads(S, a, addr, h),
         NEW X, Extends(h[Len(addr)], X)
  PROVE  Grows(a, PutAt(a, addr, X))
<1> DEFINE n == Len(addr)  b == PutAt(a, addr, X)
<1>1. /\ n \in Nat /\ Full(S) /\ a \in S /\ h[0] = a
      /\ \A i \in 0..n : h[i] \in S /\ MadeOf(S, h[i])
      /\ \A i \in 1..n : /\ h[i] = Part(h[i - 1], addr[i])
                         /\ Field(h[i - 1], addr[i].field).kind = "msg"
  BY LeadsIn DEF Leads, Reach
<1>2. PICK g : /\ b = g[0] /\ Rebuilds(h, addr, n, X, g)
               /\ \A i \in 1..n :
                     /\ g[i - 1] = WithPart(h[i - 1], addr[i], g[i])
                     /\ StepOK(h[i - 1], addr[i]) /\ h[i - 1] \in S
  BY PutTrail
<1> DEFINE R == {<<m, m>> : m \in S} \cup {<<h[i], g[i]>> : i \in 0..n}
<1>3. g[n] = X
  BY <1>2 DEF Rebuilds
<1> HIDE DEF n, b
<1>4. ASSUME NEW m \in S PROVE MadeOf(S, m)
  BY <1>1 DEF Full, Closed
<1>5. ASSUME NEW m \in S, NEW s, Readable(m, s) PROVE Part(m, s) \in S
  <2>1. Part(m, s) \in Elements(S, Field(m, s.field))
    BY <1>1, <1>5, PartIn DEF Readable
  <2> QED
    BY <1>5, <2>1 DEF Elements, Readable
<1>6. ASSUME NEW m \in S PROVE Grown(m, m) /\ \A s : Readable(m, s) => <<Part(m, s), Part(m, s)>> \in R
  BY <1>4, <1>5, <1>6, GrownSame
<1>7. ASSUME NEW i \in 0..n
      PROVE  Grown(h[i], g[i]) /\ \A s : Readable(h[i], s) => <<Part(h[i], s), Part(g[i], s)>> \in R
  <2>1. CASE i = n
    <3>1. Extends(h[i], g[i]) /\ h[i] \in S
      BY <1>1, <1>3, <2>1 DEF n
    <3>2. ASSUME NEW s, Readable(h[i], s) PROVE <<Part(h[i], s), Part(g[i], s)>> \in R
      <4>1. Part(g[i], s) = Part(h[i], s) /\ Part(h[i], s) \in S
        BY <1>5, <3>1, <3>2 DEF Extends
      <4> QED
        BY <4>1
    <3> QED
      BY <3>1, <3>2 DEF Extends
  <2>2. CASE i # n
    <3> DEFINE j == i + 1
    <3>1. j \in 1..n /\ j - 1 = i /\ j \in 0..n
      BY <1>1, <2>2
    <3> HIDE DEF j
    <3> DEFINE m == h[i]  s == addr[j]  w == g[i]  part == g[j]
               fd == Field(m, s.field)  v == m.val[s.field]  u == w.val[s.field]
    <3>2. /\ w = WithPart(m, s, part) /\ StepOK(m, s) /\ m \in S /\ fd.kind = "msg"
          /\ h[j] = Part(m, s)
      BY <1>1, <1>2, <3>1
    <3>3. <<h[j], part>> \in R
      BY <3>1
    <3>4. Part(w, s) = part
      BY <1>1, <3>2, WithPartLaws
    <3> HIDE DEF part
    <3>5. MadeOf(S, m) /\ Shaped(m)
      BY <1>4, <3>2, MadeShaped
    <3>6. Changed(m, s.field, u, w) /\ Placed(fd, v, s.sel, part, u)
      BY <3>2, <3>5, WithPartIs
    <3>7. IsFd(fd) /\ Fills(S, fd, v) /\ fd = Schema[m.type][s.field]
      BY <3>2, <3>5, SchemaFd DEF MadeOf, StepOK, Field
    <3> HIDE DEF m, s, w, fd, v, u
    <3>8. FieldGrows(fd, v, u) /\ (fd.label = "array" => Len(v) \in Nat /\ Len(u) \in Nat)
      <4>1. CASE fd.label = "array"
        <5>1. v \in Seq(Elements(S, fd)) /\ u = [v EXCEPT ![s.sel + 1] = part]
          BY <3>6, <3>7, <4>1 DEF Fills, Placed
        <5>2. Len(v) \in Nat /\ Len(u) = Len(v)
          BY <5>1
        <5> QED
          BY <3>2, <4>1, <5>2 DEF FieldGrows
      <4>2. CASE fd.label = "map"
        <5>1. u = Over([k \in {s.sel} |-> part], v)
          BY <3>6, <4>2 DEF Placed
        <5>2. DOMAIN v \subseteq DOMAIN u
          BY <5>1 DEF Over
        <5> QED
          BY <3>2, <4>2, <5>2 DEF FieldGrows
      <4>3. CASE fd.label = "one"
        <5>1. u = <<part>>
          BY <3>2, <3>6, <4>3 DEF Placed
        <5>2. u # <<>>
          BY <5>1
        <5> QED
          BY <3>2, <4>3, <5>2 DEF FieldGrows
      <4> QED
        BY <3>7, <4>1, <4>2, <4>3 DEF IsFd
    <3>9. Grown(m, w)
      <4>1. w.type = m.type
        BY <3>6 DEF Changed
      <4>2. ASSUME NEW f \in DOMAIN Schema[m.type]
            PROVE  /\ FieldGrows(Schema[m.type][f], m.val[f], w.val[f])
                   /\ Schema[m.type][f].label = "array"
                        => Len(m.val[f]) \in Nat /\ Len(w.val[f]) \in Nat
        <5>1. CASE f = s.field
          BY <3>7, <3>8, <5>1 DEF v, u
        <5>2. CASE f # s.field
          <6>1. w.val[f] = m.val[f]
            BY <3>5, <3>6, <5>2 DEF Changed, Shaped
          <6>2. Grown(m, m)
            BY <3>5, GrownSame
          <6> QED
            BY <6>1, <6>2 DEF Grown
        <5> QED
          BY <5>1, <5>2
      <4> QED
        BY <4>1, <4>2 DEF Grown
    <3>10. ASSUME NEW t, Readable(m, t) PROVE <<Part(m, t), Part(w, t)>> \in R
      <4>0. StepOK(m, t)
        BY <3>10 DEF Readable
      <4>1. CASE SamePlace(m, s, t)
        <5>1. Part(m, t) = h[j]
          BY <3>2, <4>1, PartSame
        <5>2. SamePlace(w, s, t)
          <6>1. w.type = m.type
            BY <3>6 DEF Changed
          <6> QED
            BY <4>1, <6>1 DEF SamePlace, Field
        <5>3. StepOK(w, s)
          BY <1>1, <3>2, WithPartLaws
        <5>4. Part(w, t) = part
          BY <3>4, <5>2, <5>3, PartSame
        <5> HIDE DEF R
        <5> QED
          BY <3>3, <5>1, <5>4
      <4>2. CASE ~SamePlace(m, s, t)
        <5>1. Part(w, t) = Part(m, t)
          BY <1>1, <3>2, <4>0, <4>2, PartElsewhere
        <5>2. Part(m, t) \in S
          BY <1>5, <3>2, <3>10
        <5> QED
          BY <5>1, <5>2
      <4> QED
        BY <4>1, <4>2
    <3> QED
      BY <3>9, <3>10 DEF m, w
  <2> QED
    BY <2>1, <2>2
<1>8. Growing(R)
  <2> SUFFICES ASSUME NEW x, NEW y, <<x, y>> \in R
               PROVE  Grown(x, y) /\ \A s : Readable(x, s) => <<Part(x, s), Part(y, s)>> \in R
    BY DEF Growing
  <2>1. (x \in S /\ y = x) \/ \E i \in 0..n : x = h[i] /\ y = g[i]
    OBVIOUS
  <2> HIDE DEF R
  <2> QED
    BY <1>6, <1>7, <2>1
<1>9. <<a, b>> \in R
  <2>1. 0 \in 0..n
    BY <1>1
  <2> QED
    BY <1>1, <1>2, <2>1
<1> HIDE DEF R
<1>10. Grows(a, b)
  BY <1>1, <1>8, <1>9, GrowsAll
<1> QED
  BY <1>10 DEF b

LEMMA ExtendsSame ==
  ASSUME NEW S, NEW m, MadeOf(S, m)
  PROVE  Extends(m, m)
  BY GrownSame DEF Extends

\* Putting what a place reads as into it.
LEMMA ExtendsSelf ==
  ASSUME NEW S, Full(S), NEW m \in S, NEW s, StepOK(m, s),
         Field(m, s.field).kind = "msg" \/ Field(m, s.field).label = "map"
  PROVE  Extends(m, WithPart(m, s, Part(m, s)))
<1> DEFINE part == Part(m, s)  w == WithPart(m, s, part)
           fd == Field(m, s.field)  v == m.val[s.field]  u == w.val[s.field]
<1>1. MadeOf(S, m) /\ Shaped(m)
  BY MadeShaped DEF Full, Closed
<1>2. Changed(m, s.field, u, w) /\ Placed(fd, v, s.sel, part, u)
  BY <1>1, WithPartIs
<1>3. IsFd(fd) /\ Fills(S, fd, v) /\ fd = Schema[m.type][s.field]
  BY <1>1, SchemaFd DEF MadeOf, StepOK, Field
<1>4. fd.label = "map" => part = IF s.sel \in DOMAIN v THEN v[s.sel] ELSE ElementZero(fd)
  BY DEF Part
<1>5. \A x : \A t : StepOK(m, t) /\ ~SamePlace(m, s, t) => Part(WithPart(m, s, x), t) = Part(m, t)
  BY PartElsewhere
<1>6. Part(w, s) = part /\ StepOK(w, s)
  BY WithPartLaws
<1>7. \A t : StepOK(m, t) /\ ~SamePlace(m, s, t) => Part(w, t) = Part(m, t)
  <2> HIDE DEF part
  <2> QED
    BY <1>5
<1>8. \A t : SamePlace(m, s, t) => Part(m, t) = part
  BY PartSame
<1> HIDE DEF part, w, v, fd, u
<1>9. FieldGrows(fd, v, u) /\ (fd.label = "array" => Len(v) \in Nat /\ Len(u) \in Nat)
  <2>1. CASE fd.label = "array"
    <3>1. v \in Seq(Elements(S, fd)) /\ u = [v EXCEPT ![s.sel + 1] = part] /\ fd.kind = "msg"
      BY <1>2, <1>3, <2>1 DEF Fills, Placed, fd
    <3>2. Len(v) \in Nat /\ Len(u) = Len(v)
      BY <3>1
    <3> QED
      BY <2>1, <3>1, <3>2 DEF FieldGrows
  <2>2. CASE fd.label = "map"
    <3>1. u = Over([k \in {s.sel} |-> part], v)
      BY <1>2, <2>2 DEF Placed
    <3>2. DOMAIN v \subseteq DOMAIN u /\ \A k \in DOMAIN v : v[k] = u[k]
      BY <1>4, <2>2, <3>1 DEF Over
    <3> QED
      BY <2>2, <3>2 DEF FieldGrows
  <2>3. CASE fd.label = "one"
    <3>1. u = <<part>> /\ fd.kind = "msg"
      BY <1>2, <2>3 DEF Placed, fd
    <3>2. u # <<>>
      BY <3>1
    <3> QED
      BY <2>3, <3>1, <3>2 DEF FieldGrows
  <2> QED
    BY <1>3, <2>1, <2>2, <2>3 DEF IsFd
<1>10. Grown(m, w)
  <2>1. w.type = m.type
    BY <1>2 DEF Changed
  <2>2. ASSUME NEW f \in DOMAIN Schema[m.type]
        PROVE  /\ FieldGrows(Schema[m.type][f], m.val[f], w.val[f])
               /\ Schema[m.type][f].label = "array"
                    => Len(m.val[f]) \in Nat /\ Len(w.val[f]) \in Nat
    <3>1. CASE f = s.field
      BY <1>3, <1>9, <3>1 DEF v, u
    <3>2. CASE f # s.field
      <4>1. w.val[f] = m.val[f]
        BY <1>1, <1>2, <3>2 DEF Changed, Shaped
      <4>2. Grown(m, m)
        BY <1>1, GrownSame
      <4> QED
        BY <4>1, <4>2 DEF Grown
    <3> QED
      BY <3>1, <3>2
  <2> QED
    BY <2>1, <2>2 DEF Grown
<1>11. ASSUME NEW t, Readable(m, t) PROVE Part(w, t) = Part(m, t)
  <2>1. CASE SamePlace(m, s, t)
    <3>1. SamePlace(w, s, t)
      BY <1>2, <2>1 DEF SamePlace, Field, Changed
    <3>2. Part(w, t) = Part(w, s)
      BY <1>6, <3>1, PartSame
    <3> QED
      BY <1>6, <1>8, <2>1, <3>2
  <2>2. CASE ~SamePlace(m, s, t)
    BY <1>7, <1>11, <2>2 DEF Readable
  <2> QED
    BY <2>1, <2>2
<1> QED
  BY <1>10, <1>11 DEF Extends, w, part

\* The mutable reference has only made the message grow, stopped or not.
LEMMA TracksGrows ==
  ASSUME NEW S, Full(S), NEW a, NEW m, Tracks(S, a, m)
  PROVE  Grows(a, m.root)
<1>1. PICK h : Leads(S, a, m.addr, h)
  BY TracksAt
<1>2. Len(m.addr) \in Nat /\ MadeOf(S, h[Len(m.addr)])
  BY <1>1, LeadsIn
<1>3. At(a, m.addr) = h[Len(m.addr)]
  BY <1>1, <1>2, AtIs DEF Leads
<1>4. Extends(h[Len(m.addr)], h[Len(m.addr)])
  BY <1>2, ExtendsSame
<1>5. Grows(a, PutAt(a, m.addr, h[Len(m.addr)]))
  BY <1>1, <1>4, GrowsPut
<1> QED
  BY <1>3, <1>5 DEF Tracks

LEMMA EnsureGrows ==
  ASSUME NEW S, Full(S), NEW a, NEW m, Tracks(S, a, m), m.field # None, AtPlace(m),
         FieldOf(m).kind = "msg" \/ FieldOf(m).label = "map"
  PROVE  Grows(a, Ensure(m))
<1> DEFINE l == Onto(m, a)  s == Here(m)  M == At(a, m.addr)
<1>1. PICK h : Leads(S, a, m.addr, h)
  BY TracksAt
<1>2. Msg(m) = M /\ Msg(l) = M /\ \A x : PutAt(m.root, m.addr, x) = PutAt(a, m.addr, x)
  BY TracksAt
<1>3. Sees(S, l) /\ l.field = m.field /\ Here(l) = s /\ AtPlace(l) /\ FieldOf(l) = FieldOf(m)
  BY OntoSame DEF Tracks
<1>4. Len(m.addr) \in Nat /\ h[Len(m.addr)] \in S
  BY <1>1, LeadsIn
<1>5. M = h[Len(m.addr)]
  BY <1>1, <1>4, AtIs DEF Leads
<1> HIDE DEF l, s, M
<1>6. PICK e : Points(S, l, e)
  BY <1>3 DEF Sees
<1>7. StepOK(M, s) /\ FieldOf(m) = Field(M, s.field)
  BY <1>2, <1>3, <1>6, PlaceIs, PointsStep
<1>8. Extends(M, WithPart(M, s, Part(M, s)))
  BY <1>4, <1>5, <1>7, ExtendsSelf
<1> DEFINE w == WithPart(M, s, Part(M, s))
<1>9. Ensure(m) = PutAt(a, m.addr, w)
  BY <1>2 DEF Ensure, s
<1> HIDE DEF w
<1>10. Extends(h[Len(m.addr)], w)
  BY <1>5, <1>8 DEF w
<1>11. Grows(a, PutAt(a, m.addr, w))
  BY <1>1, <1>10, GrowsPut
<1> QED
  BY <1>9, <1>11

LEMMA WalkGrows ==
  ASSUME NEW S, Full(S), NEW a \in S, NEW p \in Seq(DOMAIN Index)
  PROVE  \A i \in 0..Len(p) : IsRef(On(TRUE, a, p, i)) /\ Grows(a, On(TRUE, a, p, i).root)
<1> DEFINE n == Len(p)  M(i) == On(TRUE, a, p, i)
           I == {i \in 0..n : IsRef(M(i)) /\ Grows(a, M(i).root)}
<1>1. n \in Nat
  OBVIOUS
<1>2. M(0) = StartOf(a) /\ \A i \in 1..n : M(i) = Follow(TRUE, M(i - 1), p[i])
  BY OnNext
<1>3. \A i \in 0..n : M(i).err = None => Tracks(S, a, M(i))
  BY MutableTracks
<1>4. IsRef(M(0)) /\ Grows(a, M(0).root)
  <2>1. Tracks(S, a, M(0))
    BY <1>2, StartSees
  <2> HIDE DEF M
  <2> QED
    BY <2>1, TracksGrows DEF Tracks
<1>5. ASSUME NEW i \in 1..n, IsRef(M(i - 1)), Grows(a, M(i - 1).root)
      PROVE  IsRef(M(i)) /\ Grows(a, M(i).root)
  <2> DEFINE m == M(i - 1)  q == M(i)
  <2>1. q = Follow(TRUE, m, p[i]) /\ i - 1 \in 0..n
    <3>1. q = Follow(TRUE, m, p[i])
      BY <1>2
    <3> HIDE DEF M, n, m, q
    <3> QED
      BY <1>1, <3>1
  <2>2. m.err = None => Tracks(S, a, m)
    <3> HIDE DEF M
    <3> QED
      BY <1>3, <2>1
  <2> HIDE DEF m, q
  <2>3. CASE m.err # None
    BY <1>5, <2>1, <2>3, FollowStopped DEF m, q
  <2>4. CASE m.err = None
    <3>1. Goes(TRUE, m, p[i], q)
      BY <1>5, <2>1, <2>4, FollowIs DEF m
    <3>2. IsRef(q) /\ q.root = RootAfter(TRUE, m)
      BY <3>1 DEF Goes
    <3>3. CASE q.root = m.root
      BY <1>5, <3>2, <3>3 DEF m, q
    <3>4. CASE q.root # m.root
      <4>1. /\ AtPlace(m) /\ (FieldOf(m).kind = "msg" \/ FieldOf(m).label = "map")
            /\ q.root = Ensure(m) /\ m.field # None
        BY <3>2, <3>4 DEF RootAfter, RootInside, AtPlace
      <4>2. Grows(a, Ensure(m))
        BY <2>2, <2>4, <4>1, EnsureGrows
      <4> QED
        BY <3>2, <4>1, <4>2 DEF q
    <3> QED
      BY <3>3, <3>4
  <2> QED
    BY <2>3, <2>4 DEF q
<1> HIDE DEF M
<1>6. 0 \in I /\ \A i \in 1..n : i - 1 \in I => i \in I
  <2>1. \A i \in 1..n : i \in 0..n
    BY <1>1
  <2> HIDE DEF n
  <2> QED
    BY <1>1, <1>4, <1>5, <2>1
<1>7. \A i \in 0..n : i \in I
  <2> HIDE DEF I, n
  <2> QED
    BY <1>1, <1>6, InductTo
<1> HIDE DEF n
<1> QED
  BY <1>7 DEF M, n

-----------------------------------------------------------------------------
(***************************************************************************)
(* The two references agree.                                               *)
(***************************************************************************)

LEMMA AgreeAt ==
  ASSUME NEW S, Full(S), NEW a \in S, NEW p \in Seq(DOMAIN Index)
  PROVE  LET path == [type |-> a.type, fields |-> p]
             c    == ConstRef(a, path)
             m    == MutableRef(a, path)
         IN /\ c.err = None => /\ m = [c EXCEPT !.root = m.root]
                               /\ Msg(m) = Msg(c)
                               /\ Grows(c.root, m.root)
            /\ c.err # None => m.err = c.err \/ c.err = "no key"
<1> DEFINE n == Len(p)  c == On(FALSE, a, p, n)  m == On(TRUE, a, p, n)
<1>1. n \in Nat /\ n \in 0..n
  <2>1. n \in Nat
    OBVIOUS
  <2> HIDE DEF n
  <2> QED
    BY <2>1
<1>2. /\ ConstRef(a, [type |-> a.type, fields |-> p]) = c
      /\ MutableRef(a, [type |-> a.type, fields |-> p]) = m
  BY OnNext DEF ConstRef, MutableRef
<1>3. IsRef(c) /\ c.root = a
  BY <1>1, ConstStep
<1>4. IsRef(m) /\ Grows(a, m.root)
  BY <1>1, WalkGrows
<1>5. m.err = None => Tracks(S, a, m)
  BY <1>1, MutableTracks
<1>6. /\ c.err = None => m.err = None /\ Onto(m, a) = c
      /\ (c.err # None /\ m.err # None) => m.err = c.err \/ c.err = "no key"
      /\ (c.err # None /\ m.err = None) => c.err = "no key"
  BY <1>1, SideBySide DEF Beside, View
<1> HIDE DEF c, m, n
<1>7. ASSUME c.err = None PROVE m = [c EXCEPT !.root = m.root] /\ Msg(m) = Msg(c)
  <2>1. Msg(m) = Msg(c)
    BY <1>5, <1>6, <1>7, TracksAt
  <2>2. c = Ref(a, m.addr, m.type, m.field, m.sel, m.err)
    BY <1>6, <1>7 DEF Onto
  <2>3. c.addr = m.addr /\ c.type = m.type /\ c.field = m.field /\ c.sel = m.sel /\ c.err = m.err
    BY <2>2 DEF Ref
  <2>4. \A x : [c EXCEPT !.root = x] = Ref(x, c.addr, c.type, c.field, c.sel, c.err)
    BY <1>3 DEF IsRef, Ref
  <2>5. m = Ref(m.root, m.addr, m.type, m.field, m.sel, m.err)
    BY <1>4 DEF IsRef, Ref
  <2> QED
    BY <2>1, <2>3, <2>4, <2>5
<1>8. /\ c.err = None => m = [c EXCEPT !.root = m.root] /\ Msg(m) = Msg(c) /\ Grows(c.root, m.root)
      /\ c.err # None => m.err = c.err \/ c.err = "no key"
  BY <1>3, <1>4, <1>6, <1>7
<1> QED
  BY <1>2, <1>8

\* A path that reads also writes: both references end at the same place, and the one that
\* writes has on its way changed nothing that was there.
THEOREM PathsAgree == Spec => []ReadAndWriteAgree
<1>1. Made => ReadAndWriteAgree
  <2> SUFFICES ASSUME Made, NEW k \in Keys, NEW p \in Paths, Holds(db[k])
               PROVE  LET path == [type |-> db[k].msg.type, fields |-> p]
                          c    == ConstRef(db[k].msg, path)
                          m    == MutableRef(db[k].msg, path)
                      IN /\ c.err = None => /\ m = [c EXCEPT !.root = m.root]
                                            /\ Msg(m) = Msg(c)
                                            /\ Grows(c.root, m.root)
                         /\ c.err # None => m.err = c.err \/ c.err = "no key"
    BY DEF ReadAndWriteAgree
  <2>1. PICK S : Full(S) /\ db[k].msg \in S
    BY HoldsMessage DEF Made, IsMessage, WellMade
  <2>2. p \in Seq(DOMAIN Index)
    BY PathsAssumption
  <2> DEFINE a == db[k].msg
  <2> HIDE DEF a
  <2>3. a \in S
    BY <2>1 DEF a
  <2>4. LET path == [type |-> a.type, fields |-> p]
            c    == ConstRef(a, path)
            m    == MutableRef(a, path)
        IN /\ c.err = None => /\ m = [c EXCEPT !.root = m.root]
                              /\ Msg(m) = Msg(c)
                              /\ Grows(c.root, m.root)
           /\ c.err # None => m.err = c.err \/ c.err = "no key"
    BY <2>1, <2>2, <2>3, AgreeAt
  <2> QED
    BY <2>4 DEF a
<1> QED
  BY <1>1, SpecMade, PTL

-----------------------------------------------------------------------------
(***************************************************************************)
(* What a command does at the end of its path.  Reference l is where the   *)
(* path leads in message a; the command works on it in place and leaves a  *)
(* with X where l is, and e thrown or not.                                 *)
(***************************************************************************)
Work(a, l, X, e) == Ref(PutAt(a, l.addr, X), l.addr, l.type, l.field, l.sel, e)

\* Where a path leads in a, as far as a is made of messages of S.
Reached(S, a, l) ==
    Full(S) /\ Parsed \subseteq S /\ l.root = a /\ l.err = None /\ \E h : Points(S, l, h)

LEMMA WorkParts ==
  ASSUME NEW a, NEW l, NEW X, NEW e
  PROVE  /\ IsRef(Work(a, l, X, e)) /\ Work(a, l, X, e).root = PutAt(a, l.addr, X)
         /\ Work(a, l, X, e).addr = l.addr /\ Work(a, l, X, e).type = l.type
         /\ Work(a, l, X, e).field = l.field /\ Work(a, l, X, e).sel = l.sel
         /\ Work(a, l, X, e).err = e
         /\ FieldOf(Work(a, l, X, e)) = FieldOf(l) /\ Here(Work(a, l, X, e)) = Here(l)
         /\ IsMap(Work(a, l, X, e)) <=> IsMap(l)
         /\ IsArray(Work(a, l, X, e)) <=> IsArray(l)
         /\ IsArrayElement(Work(a, l, X, e)) <=> IsArrayElement(l)
<1> SUFFICES ASSUME NEW q, q = Work(a, l, X, e)
             PROVE  /\ IsRef(q) /\ q.root = PutAt(a, l.addr, X)
                    /\ q.addr = l.addr /\ q.type = l.type
                    /\ q.field = l.field /\ q.sel = l.sel /\ q.err = e
                    /\ FieldOf(q) = FieldOf(l) /\ Here(q) = Here(l)
                    /\ IsMap(q) <=> IsMap(l)
                    /\ IsArray(q) <=> IsArray(l)
                    /\ IsArrayElement(q) <=> IsArrayElement(l)
  OBVIOUS
<1> DEFINE x == PutAt(a, l.addr, X)
<1> HIDE DEF x
<1>1. q = Ref(x, l.addr, l.type, l.field, l.sel, e)
  BY DEF Work, x
<1>2. /\ IsRef(q) /\ q.root = x /\ q.addr = l.addr /\ q.type = l.type
      /\ q.field = l.field /\ q.sel = l.sel /\ q.err = e
  BY <1>1, RefParts
<1>3. FieldOf(q) = FieldOf(l) /\ Here(q) = Here(l)
  BY <1>2 DEF FieldOf, Here
<1> QED
  BY <1>2, <1>3 DEF IsMap, IsArray, IsArrayElement, x

LEMMA WorkThrow ==
  ASSUME NEW a, NEW l, NEW X, NEW e, NEW f
  PROVE  Throw(Work(a, l, X, e), f) = Work(a, l, X, f)
<1> DEFINE x == PutAt(a, l.addr, X)
<1> HIDE DEF x
<1>1. Work(a, l, X, e) = Ref(x, l.addr, l.type, l.field, l.sel, e)
      /\ Work(a, l, X, f) = Ref(x, l.addr, l.type, l.field, l.sel, f)
  BY DEF Work, x
<1>2. [Ref(x, l.addr, l.type, l.field, l.sel, e) EXCEPT !.err = f]
        = Ref(x, l.addr, l.type, l.field, l.sel, f)
  BY DEF Ref
<1> QED
  BY <1>1, <1>2 DEF Throw

LEMMA WorkRoot ==
  ASSUME NEW a, NEW l, NEW X, NEW e, NEW Y
  PROVE  [Work(a, l, X, e) EXCEPT !.root = PutAt(a, l.addr, Y)] = Work(a, l, Y, e)
<1> DEFINE x == PutAt(a, l.addr, X)  y == PutAt(a, l.addr, Y)
<1> HIDE DEF x, y
<1>1. Work(a, l, X, e) = Ref(x, l.addr, l.type, l.field, l.sel, e)
      /\ Work(a, l, Y, e) = Ref(y, l.addr, l.type, l.field, l.sel, e)
  BY DEF Work, x, y
<1>2. [Ref(x, l.addr, l.type, l.field, l.sel, e) EXCEPT !.root = y]
        = Ref(y, l.addr, l.type, l.field, l.sel, e)
  BY DEF Ref
<1> QED
  BY <1>1, <1>2 DEF y

LEMMA WorkMsg ==
  ASSUME NEW S, NEW a, NEW l, Reached(S, a, l), NEW X, NEW e
  PROVE  /\ Msg(Work(a, l, X, e)) = X
         /\ \A v : Put(Work(a, l, X, e), v) = Work(a, l, WithPart(X, Here(l), v), e)
         /\ \A v : PutWhole(Work(a, l, X, e), v) = Work(a, l, [X EXCEPT !.val[l.field] = v], e)
<1> DEFINE r == Work(a, l, X, e)
<1>1. PICK h : Leads(S, a, l.addr, h)
  BY DEF Reached, Points, Stands
<1>2. At(PutAt(a, l.addr, X), l.addr) = X
  BY <1>1, AtPut
<1>3. \A Y : PutAt(PutAt(a, l.addr, X), l.addr, Y) = PutAt(a, l.addr, Y)
  BY <1>1, PutPut
<1>4. r.root = PutAt(a, l.addr, X) /\ r.addr = l.addr /\ Here(r) = Here(l) /\ r.field = l.field
  BY WorkParts
<1>5. \A Y : [r EXCEPT !.root = PutAt(a, l.addr, Y)] = Work(a, l, Y, e)
  BY WorkRoot
<1> HIDE DEF r
<1>6. Msg(r) = X
  BY <1>2, <1>4 DEF Msg
<1>7. ASSUME NEW v PROVE Put(r, v) = Work(a, l, WithPart(X, Here(l), v), e)
  <2> DEFINE Y == WithPart(X, Here(l), v)
  <2> HIDE DEF Y
  <2>1. Put(r, v) = [r EXCEPT !.root = PutAt(PutAt(a, l.addr, X), l.addr, Y)]
    BY <1>4, <1>6 DEF Put, Y
  <2>2. Put(r, v) = [r EXCEPT !.root = PutAt(a, l.addr, Y)]
    BY <1>3, <2>1
  <2>3. Put(r, v) = Work(a, l, Y, e)
    BY <1>5, <2>2
  <2> QED
    BY <2>3 DEF Y
<1>8. ASSUME NEW v PROVE PutWhole(r, v) = Work(a, l, [X EXCEPT !.val[l.field] = v], e)
  <2> DEFINE Y == [X EXCEPT !.val[l.field] = v]
  <2>0. [Msg(r) EXCEPT !.val[r.field] = v] = Y
    BY <1>4, <1>6
  <2> HIDE DEF Y
  <2>1. PutWhole(r, v) = [r EXCEPT !.root = PutAt(PutAt(a, l.addr, X), l.addr, Y)]
    BY <1>4, <2>0 DEF PutWhole
  <2>2. PutWhole(r, v) = [r EXCEPT !.root = PutAt(a, l.addr, Y)]
    BY <1>3, <2>1
  <2>3. PutWhole(r, v) = Work(a, l, Y, e)
    BY <1>5, <2>2
  <2> QED
    BY <2>3 DEF Y
<1> QED
  BY <1>6, <1>7, <1>8 DEF r

\* The mutable reference at the end of a path that throws nothing.
LEMMA EndOfPath ==
  ASSUME NEW S, Full(S), Parsed \subseteq S, NEW a \in S, NEW p \in Seq(DOMAIN Index), p # <<>>,
         MutableRef(a, [type |-> a.type, fields |-> p]).err = None
  PROVE  \E l : /\ Reached(S, a, l) /\ l = View(a, p, Len(p))
                /\ MutableRef(a, [type |-> a.type, fields |-> p]) = Work(a, l, Msg(l), None)
<1> DEFINE n == Len(p)  m == On(TRUE, a, p, n)  l == View(a, p, n)
<1>1. n \in 0..n /\ n \in 1..n
  <2>1. n \in Nat /\ n # 0
    OBVIOUS
  <2> HIDE DEF n
  <2> QED
    BY <2>1
<1>2. MutableRef(a, [type |-> a.type, fields |-> p]) = m
  BY OnNext DEF MutableRef
<1>3. m.err = None
  BY <1>2
<1>4. Tracks(S, a, m)
  BY <1>1, <1>3, MutableTracks
<1>5. \E h : Points(S, View(a, p, n), h)
  <2>1. Stepped(S, a, p, n)
    BY <1>1, <1>3, ViewStep
  <2> QED
    BY <2>1 DEF Stepped
<1>6. l = Onto(m, a)
  BY DEF View
<1> HIDE DEF m, l, n
<1>7. Reached(S, a, l)
  BY <1>3, <1>5, <1>6, OntoSame DEF Reached, l
<1>8. m = Work(a, l, Msg(l), None)
  <2>1. l.addr = m.addr /\ l.type = m.type /\ l.field = m.field /\ l.sel = m.sel
    BY <1>6, OntoSame
  <2>2. m.root = PutAt(a, l.addr, Msg(l))
    <3>1. m.root = PutAt(a, m.addr, At(a, m.addr))
      BY <1>4 DEF Tracks
    <3>2. Msg(l) = At(a, m.addr)
      BY <1>4, <1>6, TracksAt
    <3> QED
      BY <2>1, <3>1, <3>2
  <2>3. m = Ref(m.root, m.addr, m.type, m.field, m.sel, None)
    BY <1>3, <1>4 DEF Tracks, IsRef, Ref
  <2> QED
    BY <2>1, <2>2, <2>3 DEF Work
<1> QED
  BY <1>2, <1>7, <1>8 DEF l, n

-----------------------------------------------------------------------------
(***************************************************************************)
(* PB.APPEND to an array.                                                  *)
(***************************************************************************)

LEMMA ReachedFills ==
  ASSUME NEW S, NEW a, NEW l, Reached(S, a, l)
  PROVE  /\ Msg(l) \in S /\ MadeOf(S, Msg(l)) /\ Shaped(Msg(l)) /\ Msg(l).type = l.type
         /\ l.type \in Types /\ l.field \in DOMAIN Schema[l.type]
         /\ FieldOf(l) = Field(Msg(l), l.field) /\ FieldOf(l) = Schema[l.type][l.field]
         /\ IsFd(FieldOf(l)) /\ Fills(S, FieldOf(l), Msg(l).val[l.field])
<1>1. PICK h : Points(S, l, h)
  BY DEF Reached
<1>2. Msg(l) \in S /\ MadeOf(S, Msg(l)) /\ Msg(l).type = l.type /\ l.type \in Types
  BY <1>1, StandsAt DEF Points
<1>3. l.field \in DOMAIN Schema[l.type]
  BY <1>1 DEF Points
<1>4. IsFd(FieldOf(l)) /\ Fills(S, FieldOf(l), Msg(l).val[l.field])
  BY <1>2, <1>3, SchemaFd DEF FieldOf, MadeOf
<1> QED
  BY <1>2, <1>3, <1>4, MadeShaped DEF FieldOf, Field

\* A value that converts belongs in the place.
LEMMA ConvertedFills ==
  ASSUME NEW S, NEW a, NEW l, Reached(S, a, l), NEW tok \in Words, Converted(l, tok) # None
  PROVE  Converted(l, tok) \in Elements(S, FieldOf(l))
<1> DEFINE fd == FieldOf(l)  v == Converted(l, tok)
<1>1. IsFd(fd) /\ Parsed \subseteq S
  BY ReachedFills DEF Reached
<1>2. v = Parse[IF fd.kind = "msg" THEN fd.of ELSE fd.kind][tok] /\ v # None
  BY DEF Converted
<1> HIDE DEF fd, v
<1>3. CASE fd.kind = "msg"
  <2>1. fd.of \in Types /\ v = Parse[fd.of][tok]
    BY <1>1, <1>2, <1>3 DEF IsFd
  <2>2. v \in Parsed /\ v.type = fd.of
    BY <1>2, <2>1, ParseAssumption
  <2> QED
    BY <1>1, <1>3, <2>2 DEF Elements, fd, v
<1>4. CASE fd.kind = "int"
  BY <1>2, <1>4, ParseAssumption DEF Elements, fd, v
<1>5. CASE fd.kind = "string"
  BY <1>2, <1>5, ParseAssumption DEF Elements, fd, v
<1> QED
  BY <1>1, <1>3, <1>4, <1>5 DEF IsFd, fd

\* X is M, the message l is at, with elements added to the array it denotes.
Lengthened(S, l, X) ==
    LET M == Msg(l)  f == l.field IN
    /\ Changed(M, f, X.val[f], X)
    /\ X.val[f] \in Seq(Elements(S, FieldOf(l)))
    /\ Len(M.val[f]) <= Len(X.val[f])
    /\ \A i \in 1..Len(M.val[f]) : X.val[f][i] = M.val[f][i]

LEMMA LengthenedMore ==
  ASSUME NEW S, NEW a, NEW l, Reached(S, a, l), FieldOf(l).label = "array",
         NEW X, Lengthened(S, l, X), NEW v \in Elements(S, FieldOf(l))
  PROVE  LET Y == [X EXCEPT !.val[l.field] = Append(X.val[l.field], v)] IN
         /\ Lengthened(S, l, Y) /\ Y.val[l.field] = Append(X.val[l.field], v)
<1> DEFINE M == Msg(l)  f == l.field  A == Elements(S, FieldOf(l))
           x == X.val[f]  w == M.val[f]  y == Append(x, v)
           Y == [X EXCEPT !.val[f] = y]
<1>1. Shaped(M) /\ M.type = l.type /\ f \in DOMAIN Schema[l.type] /\ Fills(S, FieldOf(l), w)
  BY ReachedFills
<1>2. /\ Changed(M, f, x, X) /\ x \in Seq(A) /\ Len(w) <= Len(x)
      /\ \A i \in 1..Len(w) : x[i] = w[i]
  BY DEF Lengthened
<1>3. w \in Seq(A)
  <2> HIDE DEF w
  <2> QED
    BY <1>1 DEF Fills
<1> HIDE DEF M, x, w, A, f
<1>4. y \in Seq(A) /\ Len(w) <= Len(y) /\ \A i \in 1..Len(w) : y[i] = w[i]
  <2>1. v \in A
    BY DEF A
  <2>2. y \in Seq(A) /\ Len(y) = Len(x) + 1 /\ \A i \in 1..Len(x) : y[i] = x[i]
    BY <1>2, <2>1
  <2>3. Len(w) \in Nat /\ Len(x) \in Nat
    BY <1>2, <1>3
  <2> HIDE DEF y
  <2>4. Len(w) <= Len(y)
    BY <1>2, <2>2, <2>3
  <2>5. \A i \in 1..Len(w) : i \in 1..Len(x)
    BY <1>2, <2>3
  <2> QED
    BY <1>2, <2>2, <2>4, <2>5
<1>5. Shaped(X) /\ X.type = M.type
  BY <1>1, <1>2, ChangedShaped DEF Changed
<1> HIDE DEF y
<1>6. Changed(X, f, y, Y)
  BY <1>1, <1>5, FieldChanged DEF f
<1> HIDE DEF Y
<1>7. Changed(M, f, y, Y)
  BY <1>2, <1>6, ChangedTwice
<1>8. Y.val[f] = y
  BY <1>6 DEF Changed
<1>9. Lengthened(S, l, Y)
  BY <1>4, <1>7, <1>8 DEF Lengthened, M, f, w, A
<1> QED
  BY <1>8, <1>9 DEF Y, y, x, f

LEMMA LengthenedSame ==
  ASSUME NEW S, NEW a, NEW l, Reached(S, a, l), FieldOf(l).label = "array"
  PROVE  Lengthened(S, l, Msg(l))
<1> DEFINE M == Msg(l)  f == l.field
<1>1. Shaped(M) /\ M.type = l.type /\ f \in DOMAIN Schema[l.type] /\ Fills(S, FieldOf(l), M.val[f])
  BY ReachedFills
<1> HIDE DEF M, f
<1>2. M.val[f] \in Seq(Elements(S, FieldOf(l)))
  BY <1>1 DEF Fills
<1>3. Len(M.val[f]) \in Nat
  BY <1>2
<1>4. Changed(M, f, M.val[f], M)
  BY <1>1 DEF Changed, Shaped
<1> QED
  BY <1>2, <1>3, <1>4 DEF Lengthened, M, f

LEMMA LengthenedExtends ==
  ASSUME NEW S, NEW a, NEW l, Reached(S, a, l), FieldOf(l).label = "array",
         NEW X, Lengthened(S, l, X)
  PROVE  Extends(Msg(l), X)
<1> DEFINE M == Msg(l)  f == l.field  A == Elements(S, FieldOf(l))  fd == FieldOf(l)
           x == X.val[f]  w == M.val[f]
<1>1. /\ MadeOf(S, M) /\ Shaped(M) /\ M.type = l.type /\ f \in DOMAIN Schema[l.type]
      /\ Fills(S, fd, w) /\ fd = Schema[M.type][f] /\ fd.label = "array"
  BY ReachedFills
<1>2. /\ Changed(M, f, x, X) /\ x \in Seq(A) /\ Len(w) <= Len(x)
      /\ \A i \in 1..Len(w) : x[i] = w[i]
  BY DEF Lengthened
<1> HIDE DEF M, x, w, A, f, fd
<1>3. w \in Seq(A)
  BY <1>1 DEF Fills, A, fd
<1>4. Len(w) \in Nat /\ Len(x) \in Nat
  BY <1>2, <1>3
<1>5. IsPrefix(w, x)
  <2>1. SubSeq(w, 1, Len(w)) = w
    BY <1>3
  <2>2. SubSeq(x, 1, Len(w)) = w
    <3>1. SubSeq(x, 1, Len(w)) = [i \in 1..Len(w) |-> x[i]]
      BY <1>2, <1>4
    <3>2. w = [i \in 1..Len(w) |-> w[i]]
      BY <1>3
    <3> QED
      BY <1>2, <3>1, <3>2
  <2> QED
    BY <1>2, <2>1, <2>2 DEF IsPrefix
<1>6. Grown(M, X)
  <2>1. X.type = M.type
    BY <1>2 DEF Changed
  <2>2. FieldGrows(fd, w, x)
    BY <1>1, <1>2, <1>5 DEF FieldGrows
  <2>3. ASSUME NEW g \in DOMAIN Schema[M.type]
        PROVE  /\ FieldGrows(Schema[M.type][g], M.val[g], X.val[g])
               /\ Schema[M.type][g].label = "array"
                    => Len(M.val[g]) \in Nat /\ Len(X.val[g]) \in Nat
    <3>1. CASE g = f
      BY <1>1, <1>4, <2>2, <3>1 DEF w, x
    <3>2. CASE g # f
      <4>1. X.val[g] = M.val[g]
        BY <1>1, <1>2, <3>2 DEF Changed, Shaped
      <4>2. Grown(M, M)
        BY <1>1, GrownSame
      <4> QED
        BY <4>1, <4>2 DEF Grown
    <3> QED
      BY <3>1, <3>2
  <2> QED
    BY <2>1, <2>3 DEF Grown
<1>7. ASSUME NEW s, Readable(M, s) PROVE Part(X, s) = Part(M, s)
  <2>1. Field(X, s.field) = Field(M, s.field) /\ s.field \in DOMAIN M.val
    BY <1>1, <1>2, <1>7 DEF Changed, Field, Readable, StepOK, Shaped
  <2>2. CASE s.field # f
    <3>1. X.val[s.field] = M.val[s.field]
      BY <1>2, <2>1, <2>2 DEF Changed
    <3> QED
      BY <2>1, <3>1 DEF Part
  <2>3. CASE s.field = f
    <3>1. Field(M, s.field) = fd /\ s.sel \in 0..(Len(w) - 1)
      BY <1>1, <1>7, <2>3 DEF Readable, StepOK, Field, w
    <3>2. s.sel + 1 \in 1..Len(w)
      BY <1>4, <3>1
    <3>3. x[s.sel + 1] = w[s.sel + 1]
      BY <1>2, <3>2
    <3> QED
      BY <1>1, <2>1, <2>3, <3>1, <3>3 DEF Part, x, w
  <2> QED
    BY <2>2, <2>3
<1> QED
  BY <1>6, <1>7 DEF Extends, M

\* Where PB.APPEND stands after some tokens.
Adding(S, a, l, r) ==
    \E X, e :
        r = Work(a, l, X, e) /\ (X = Msg(l) \/ (FieldOf(l).label = "array" /\ Lengthened(S, l, X)))

LEMMA AddingMore ==
  ASSUME NEW S, NEW a, NEW l, Reached(S, a, l), IsArray(l), ~IsArrayElement(l),
         NEW r, Adding(S, a, l, r), NEW tok \in Words
  PROVE  Adding(S, a, l, AppendElement(r, tok))
<1>1. PICK X, e :
        r = Work(a, l, X, e) /\ (X = Msg(l) \/ (FieldOf(l).label = "array" /\ Lengthened(S, l, X)))
  BY DEF Adding
<1>2. r.err = e /\ FieldOf(r) = FieldOf(l) /\ (IsMap(r) <=> IsMap(l)) /\ r.field = l.field
  <2> DEFINE q == Work(a, l, X, e)
  <2>1. q.err = e /\ FieldOf(q) = FieldOf(l) /\ (IsMap(q) <=> IsMap(l)) /\ q.field = l.field
    BY WorkParts
  <2>2. r = q
    BY <1>1
  <2> HIDE DEF q
  <2> QED
    BY <2>1, <2>2
<1>3. Converted(r, tok) = Converted(l, tok)
  BY <1>2 DEF Converted
<1>4. CASE e # None
  <2>1. AppendElement(r, tok) = r
    BY <1>2, <1>4 DEF AppendElement
  <2> QED
    BY <2>1
<1>5. CASE e = None /\ (IsMap(l) \/ Converted(l, tok) = None)
  <2>1. AppendElement(r, tok) = Throw(r, "bad value")
    BY <1>2, <1>3, <1>5 DEF AppendElement
  <2>2. AppendElement(r, tok) = Work(a, l, X, "bad value")
    <3>1. \A f : Throw(Work(a, l, X, e), f) = Work(a, l, X, f)
      BY WorkThrow
    <3>2. r = Work(a, l, X, e)
      BY <1>1
    <3>3. Throw(r, "bad value") = Work(a, l, X, "bad value")
      BY <3>1, <3>2
    <3> QED
      BY <2>1, <3>3
  <2> QED
    BY <1>1, <2>2 DEF Adding
<1>6. CASE e = None /\ ~IsMap(l) /\ Converted(l, tok) # None
  <2> DEFINE v == Converted(l, tok)  y == Append(X.val[l.field], v)
             Y == [X EXCEPT !.val[l.field] = y]
  <2>1. FieldOf(l).label = "array"
    BY <1>6, ReachedFills DEF IsArray, IsMap, IsFd
  <2>2. v \in Elements(S, FieldOf(l))
    BY <1>6, ConvertedFills
  <2>3. Lengthened(S, l, X)
    BY <1>1, <2>1, LengthenedSame
  <2>4. Lengthened(S, l, Y)
    BY <2>1, <2>2, <2>3, LengthenedMore
  <2>5. AppendElement(r, tok) = PutWhole(r, Append(Msg(r).val[r.field], v))
    BY <1>2, <1>3, <1>6 DEF AppendElement, Add
  <2>6. Msg(r) = X /\ \A u : PutWhole(r, u) = Work(a, l, [X EXCEPT !.val[l.field] = u], None)
    BY <1>1, <1>6, WorkMsg
  <2>7. AppendElement(r, tok) = Work(a, l, Y, None)
    BY <1>2, <2>5, <2>6
  <2> HIDE DEF Y
  <2> QED
    BY <2>1, <2>4, <2>7 DEF Adding
<1> QED
  BY <1>4, <1>5, <1>6

LEMMA AddingAll ==
  ASSUME NEW S, NEW a, NEW l, Reached(S, a, l), IsArray(l), ~IsArrayElement(l),
         NEW toks \in Seq(Words)
  PROVE  Adding(S, a, l, AppendElements(Work(a, l, Msg(l), None), toks))
<1> DEFINE n == Len(toks)  r == Work(a, l, Msg(l), None)
<1>1. n \in Nat /\ \A i \in 1..n : toks[i] \in Words
  OBVIOUS
<1>2. PICK h : Appends(r, toks, n, h)
  BY <1>1, AppendsExist
<1> DEFINE I == {i \in 0..n : Adding(S, a, l, h[i])}
<1>0. Adding(S, a, l, r)
  BY DEF Adding
<1> HIDE DEF n, r
<1>3. 0 \in I
  BY <1>0, <1>1, <1>2 DEF Appends
<1>4. ASSUME NEW i \in 1..n, i - 1 \in I PROVE i \in I
  BY <1>1, <1>2, <1>4, AddingMore DEF Appends
<1> HIDE DEF I
<1>5. \A i \in 0..n : i \in I
  BY <1>1, <1>3, <1>4, InductTo
<1>6. n \in 0..n
  BY <1>1
<1> QED
  BY <1>1, <1>2, <1>5, <1>6, AppendElementsIs DEF I, n, r

-----------------------------------------------------------------------------
(***************************************************************************)
(* Commands that are stopped.                                              *)
(***************************************************************************)

\* Stopped at the end of its path, q leaves what was there, or more.
Halted(a, l, q) == \E X, e : q = Work(a, l, X, e) /\ Extends(Msg(l), X)

LEMMA ThrowHalted ==
  ASSUME NEW S, NEW a, NEW l, Reached(S, a, l), NEW f
  PROVE  Halted(a, l, Throw(Work(a, l, Msg(l), None), f))
<1>1. Extends(Msg(l), Msg(l))
  BY ReachedFills, ExtendsSame
<1>2. Throw(Work(a, l, Msg(l), None), f) = Work(a, l, Msg(l), f)
  BY WorkThrow
<1> QED
  BY <1>1, <1>2 DEF Halted

LEMMA PutGoes ==
  ASSUME NEW S, NEW a, NEW l, Reached(S, a, l), NEW X, NEW v
  PROVE  /\ Put(Work(a, l, X, None), v).err = None
         /\ PutWhole(Work(a, l, X, None), v).err = None
<1>1. /\ Put(Work(a, l, X, None), v) = Work(a, l, WithPart(X, Here(l), v), None)
      /\ PutWhole(Work(a, l, X, None), v) = Work(a, l, [X EXCEPT !.val[l.field] = v], None)
  BY WorkMsg
<1>2. \A Y : Work(a, l, Y, None).err = None
  BY WorkParts
<1> QED
  BY <1>1, <1>2

LEMMA FieldHalted ==
  ASSUME NEW S, NEW a, NEW l, Reached(S, a, l)
  PROVE  LET r == Work(a, l, Msg(l), None) IN
         /\ \A tok : SetField(r, tok).err # None => Halted(a, l, SetField(r, tok))
         /\ \A tok : MergeField(r, tok).err # None => Halted(a, l, MergeField(r, tok))
         /\ DelField(r).err # None => Halted(a, l, DelField(r))
         /\ ClearField(r).err # None => Halted(a, l, ClearField(r))
<1> DEFINE r == Work(a, l, Msg(l), None)
<1>1. \A f : Halted(a, l, Throw(r, f))
  BY ThrowHalted
<1>2. \A v : Put(r, v).err = None /\ PutWhole(r, v).err = None
  BY PutGoes
<1>3. r.err = None
  BY WorkParts
<1> HIDE DEF r
<1>4. ASSUME NEW tok, SetField(r, tok).err # None PROVE Halted(a, l, SetField(r, tok))
  BY <1>1, <1>2, <1>3, <1>4 DEF SetField, SetPlace
<1>5. ASSUME NEW tok, MergeField(r, tok).err # None PROVE Halted(a, l, MergeField(r, tok))
  BY <1>1, <1>2, <1>3, <1>5 DEF MergeField, Merge
<1>6. ASSUME DelField(r).err # None PROVE Halted(a, l, DelField(r))
  BY <1>1, <1>2, <1>3, <1>6 DEF DelField, Del
<1>7. ASSUME ClearField(r).err # None PROVE Halted(a, l, ClearField(r))
  BY <1>1, <1>2, <1>3, <1>7 DEF ClearField, Clear
<1> QED
  BY <1>4, <1>5, <1>6, <1>7 DEF r

LEMMA AppendHalted ==
  ASSUME NEW S, NEW a, NEW l, Reached(S, a, l), NEW toks \in Seq(Words)
  PROVE  LET r == Work(a, l, Msg(l), None) IN
         AppendField(r, toks).err # None => Halted(a, l, AppendField(r, toks))
<1> DEFINE r == Work(a, l, Msg(l), None)  q == AppendField(r, toks)
<1>1. \A f : Halted(a, l, Throw(r, f))
  BY ThrowHalted
<1>2. \A v : Put(r, v).err = None
  BY PutGoes
<1>3. r.err = None /\ (IsArray(r) <=> IsArray(l)) /\ (IsArrayElement(r) <=> IsArrayElement(l))
  BY WorkParts
<1>4. IsArray(l) /\ ~IsArrayElement(l) => Adding(S, a, l, AppendElements(r, toks))
  BY AddingAll
<1>5. ASSUME NEW u, Adding(S, a, l, u) PROVE Halted(a, l, u)
  <2>1. PICK X, e :
          u = Work(a, l, X, e) /\ (X = Msg(l) \/ (FieldOf(l).label = "array" /\ Lengthened(S, l, X)))
    BY <1>5 DEF Adding
  <2>2. Extends(Msg(l), Msg(l))
    BY ReachedFills, ExtendsSame
  <2>3. Extends(Msg(l), X)
    BY <2>1, <2>2, LengthenedExtends
  <2> QED
    BY <2>1, <2>3 DEF Halted
<1> HIDE DEF r
<1>6. CASE IsArray(l) /\ ~IsArrayElement(l)
  <2>1. q = AppendElements(r, toks)
    BY <1>3, <1>6 DEF AppendField
  <2> QED
    BY <1>4, <1>5, <1>6, <2>1 DEF r
<1>7. CASE (IsArray(l) => IsArrayElement(l)) /\ FieldOf(r).kind = "string"
  <2>1. q = AppendString(r, toks)
    BY <1>3, <1>7 DEF AppendField
  <2>2. q.err = None
    BY <1>2, <2>1 DEF AppendString
  <2> QED
    BY <2>2 DEF r
<1>8. CASE (IsArray(l) => IsArrayElement(l)) /\ FieldOf(r).kind # "string"
  <2>1. q = Throw(r, "not an array or string")
    BY <1>3, <1>8 DEF AppendField
  <2> QED
    BY <1>1, <2>1 DEF r
<1> QED
  BY <1>6, <1>7, <1>8

LEMMA HaltedGrows ==
  ASSUME NEW S, NEW a, NEW l, Reached(S, a, l), NEW q, Halted(a, l, q)
  PROVE  Grows(a, q.root)
<1>1. PICK X, e : q = Work(a, l, X, e) /\ Extends(Msg(l), X)
  BY DEF Halted
<1>2. PICK h : Stands(S, l, h)
  BY DEF Reached, Points
<1>3. Leads(S, a, l.addr, h) /\ Msg(l) = h[Len(l.addr)]
  BY <1>2, StandsAt DEF Stands, Reached
<1>4. Grows(a, PutAt(a, l.addr, X))
  BY <1>1, <1>3, GrowsPut
<1>5. Work(a, l, X, e).root = PutAt(a, l.addr, X)
  BY WorkParts
<1> QED
  BY <1>1, <1>4, <1>5

\* The set of all messages a command on message a can get at.
LEMMA Enough ==
  ASSUME NEW a, WellMade(a)
  PROVE  \E S : Full(S) /\ Parsed \subseteq S /\ a \in S
<1>1. PICK S : Full(S) /\ a \in S
  BY DEF WellMade
<1>2. Full(S \cup Read) /\ Parsed \subseteq S \cup Read /\ a \in S \cup Read
  BY <1>1, ReadFull, FullUnion DEF Read
<1> QED
  BY <1>2

\* What a command does to the field its path names.
AtField(c, r) ==
    CASE c.op = "SET" -> SetField(r, c.args[1])
      [] c.op = "APPEND" -> AppendField(r, c.args)
      [] c.op = "MERGE" -> MergeField(r, c.args[1])
      [] c.op = "DEL" -> DelField(r)
      [] c.op = "CLEAR" -> ClearField(r)

LEMMA MutableOn ==
  ASSUME NEW a, NEW p \in Seq(DOMAIN Index)
  PROVE  MutableRef(a, [type |-> a.type, fields |-> p]) = On(TRUE, a, p, Len(p))
<1>1. On(TRUE, a, p, Len(p)) = Resolve(TRUE, a, [type |-> a.type, fields |-> p])
  BY OnNext
<1> QED
  BY <1>1 DEF MutableRef

LEMMA ConstOn ==
  ASSUME NEW a, NEW p \in Seq(DOMAIN Index)
  PROVE  ConstRef(a, [type |-> a.type, fields |-> p]) = On(FALSE, a, p, Len(p))
<1>1. On(FALSE, a, p, Len(p)) = Resolve(FALSE, a, [type |-> a.type, fields |-> p])
  BY OnNext
<1> QED
  BY <1>1 DEF ConstRef

LEMMA StoppedGrows ==
  ASSUME NEW a, WellMade(a), NEW c \in Writes, c.fields # <<>>, c.type = a.type,
         AtField(c, MutableRef(a, PathOf(c))).err # None
  PROVE  Grows(a, AtField(c, MutableRef(a, PathOf(c))).root)
<1> DEFINE p == c.fields  m == MutableRef(a, PathOf(c))  q == AtField(c, m)
<1>1. PICK S : Full(S) /\ Parsed \subseteq S /\ a \in S
  BY Enough
<1>2. p \in Seq(DOMAIN Index) /\ c.args \in Seq(Words)
      /\ c.op \in {"SET", "APPEND", "MERGE", "DEL", "CLEAR"}
  BY WritesAssumption
<1>3. PathOf(c) = [type |-> a.type, fields |-> p]
  BY DEF PathOf
<1>4. m = On(TRUE, a, p, Len(p)) /\ Len(p) \in 0..Len(p)
  <2>1. m = On(TRUE, a, p, Len(p))
    <3>1. MutableRef(a, [type |-> a.type, fields |-> p]) = On(TRUE, a, p, Len(p))
      <4> HIDE DEF p
      <4> QED
        BY <1>2, MutableOn DEF p
    <3> QED
      BY <1>3, <3>1
  <2>2. Len(p) \in Nat
    BY <1>2
  <2> HIDE DEF p, m
  <2> QED
    BY <2>1, <2>2
<1>5. Grows(a, m.root)
  <2> HIDE DEF m, p
  <2> QED
    BY <1>1, <1>2, <1>4, WalkGrows
<1>6. CASE m.err # None
  <2> HIDE DEF m
  <2>1. q = m
    BY <1>2, <1>6 DEF AtField, SetField, AppendField, MergeField, DelField, ClearField
  <2> QED
    BY <1>5, <2>1 DEF m
<1>7. CASE m.err = None
  <2>1. PICK l : Reached(S, a, l) /\ m = Work(a, l, Msg(l), None)
    <3> HIDE DEF p
    <3>1. MutableRef(a, [type |-> a.type, fields |-> p]).err = None
      BY <1>3, <1>7
    <3>2. \E l : Reached(S, a, l) /\ MutableRef(a, [type |-> a.type, fields |-> p]) = Work(a, l, Msg(l), None)
      BY <1>1, <1>2, <3>1, EndOfPath DEF p
    <3> QED
      BY <1>3, <3>2
  <2>2. q.err # None
    OBVIOUS
  <2> DEFINE r == Work(a, l, Msg(l), None)
  <2>3. /\ \A tok : SetField(r, tok).err # None => Halted(a, l, SetField(r, tok))
        /\ \A tok : MergeField(r, tok).err # None => Halted(a, l, MergeField(r, tok))
        /\ DelField(r).err # None => Halted(a, l, DelField(r))
        /\ ClearField(r).err # None => Halted(a, l, ClearField(r))
    BY <2>1, FieldHalted
  <2>4. AppendField(r, c.args).err # None => Halted(a, l, AppendField(r, c.args))
    BY <1>2, <2>1, AppendHalted
  <2>5. m = r
    BY <2>1
  <2> HIDE DEF r, m
  <2>6. Halted(a, l, q)
    BY <1>2, <2>2, <2>3, <2>4, <2>5 DEF AtField
  <2> HIDE DEF q
  <2>7. Grows(a, q.root)
    BY <2>1, <2>6, HaltedGrows
  <2> QED
    BY <2>7 DEF q, m
<1> QED
  BY <1>6, <1>7

\* What a command that replies with an error left behind.
Undone(e, c, r) ==
    r.reply.kind = "error" =>
        \/ r.entry = e
        \/ /\ Holds(e) /\ c.fields # <<>> /\ Refusal(e, c) = None
           /\ LET q == AtField(c, MutableRef(e.msg, PathOf(c))) IN
              q.err # None /\ r.entry = Entry(q.root, e.ttl)

LEMMA StoppedUndone ==
  ASSUME NEW e, NEW c, NEW err
  PROVE  Undone(e, c, Stopped(e, err))
<1>1. Stopped(e, err).entry = e
  BY DEF Stopped
<1> QED
  BY <1>1 DEF Undone

LEMMA DoneUndone ==
  ASSUME NEW e, NEW c, NEW f, NEW n
  PROVE  Undone(e, c, Done(f, n))
<1>1. Done(f, n).reply = Number(n)
  BY DEF Done
<1>2. Number(n).kind = "number"
  BY DEF Number
<1> QED
  BY <1>1, <1>2 DEF Undone

LEMMA FinishUndone ==
  ASSUME NEW e, NEW c, NEW q, NEW ttl, NEW n,
         Holds(e) => /\ c.fields # <<>> /\ Refusal(e, c) = None
                     /\ q = AtField(c, MutableRef(e.msg, PathOf(c)))
  PROVE  Undone(e, c, Finish(e, q, ttl, n))
<1>1. CASE q.err = None
  BY <1>1, DoneUndone DEF Finish
<1>2. CASE q.err # None /\ ~Holds(e)
  BY <1>2, StoppedUndone DEF Finish
<1>3. CASE q.err # None /\ Holds(e)
  <2>1. Finish(e, q, ttl, n) = Stopped(Entry(q.root, e.ttl), q.err)
    BY <1>3 DEF Finish
  <2>2. Stopped(Entry(q.root, e.ttl), q.err).entry = Entry(q.root, e.ttl)
    BY DEF Stopped
  <2> QED
    BY <1>3, <2>1, <2>2 DEF Undone
<1> QED
  BY <1>1, <1>2, <1>3

LEMMA SetUndone ==
  ASSUME NEW e, NEW c, c.op = "SET"
  PROVE  Undone(e, c, Set(e, c))
<1>1. CASE e = Foreign
  BY <1>1, StoppedUndone DEF Set
<1>2. CASE e # Foreign /\ c.opt = (IF Holds(e) THEN "NX" ELSE "XX")
  BY <1>2, DoneUndone DEF Set
<1>3. CASE e # Foreign /\ c.opt # (IF Holds(e) THEN "NX" ELSE "XX") /\ Refusal(e, c) # None
  BY <1>3, StoppedUndone DEF Set
<1>4. CASE e # Foreign /\ c.opt # (IF Holds(e) THEN "NX" ELSE "XX") /\ Refusal(e, c) = None
  <2>1. CASE c.fields = <<>>
    BY <1>4, <2>1, StoppedUndone, DoneUndone DEF Set, SetWhole
  <2>2. CASE c.fields # <<>>
    <3> DEFINE q == SetField(MutableRef(Target(e, c), PathOf(c)), c.args[1])
               ttl == c.ex \/ (Holds(e) /\ e.ttl)
    <3>1. Set(e, c) = Finish(e, q, ttl, 1)
      BY <1>4, <2>2 DEF Set
    <3>2. Holds(e) => q = AtField(c, MutableRef(e.msg, PathOf(c)))
      BY DEF Target, AtField
    <3> HIDE DEF q, ttl
    <3> QED
      BY <1>4, <2>2, <3>1, <3>2, FinishUndone
  <2> QED
    BY <2>1, <2>2
<1> QED
  BY <1>1, <1>2, <1>3, <1>4

LEMMA AppendUndone ==
  ASSUME NEW e, NEW c, c.op = "APPEND"
  PROVE  Undone(e, c, AppendCmd(e, c))
<1>1. CASE c.fields = <<>>
  BY <1>1, StoppedUndone DEF AppendCmd
<1>2. CASE c.fields # <<>> /\ Refusal(e, c) # None
  BY <1>2, StoppedUndone DEF AppendCmd
<1>3. CASE c.fields # <<>> /\ Refusal(e, c) = None
  <2> DEFINE q == AppendField(MutableRef(Target(e, c), PathOf(c)), c.args)
  <2>1. AppendCmd(e, c) = Appended(e, q)
    BY <1>3 DEF AppendCmd
  <2>2. Holds(e) => q = AtField(c, MutableRef(e.msg, PathOf(c)))
    BY DEF Target, AtField
  <2> HIDE DEF q
  <2>3. PICK ttl, n : Appended(e, q) = Finish(e, q, ttl, n)
    BY DEF Appended
  <2> QED
    BY <1>3, <2>1, <2>2, <2>3, FinishUndone
<1> QED
  BY <1>1, <1>2, <1>3

\* PB.MERGE of a key that is missing is a PB.SET but for its name.
LEMMA MergeUndone ==
  ASSUME NEW e, NEW c, c.op = "MERGE"
  PROVE  Undone(e, c, MergeCmd(e, c))
<1>1. CASE e = Missing
  <2> DEFINE r == Set(e, c)
  <2>1. ~Holds(e) /\ e # Foreign
    BY <1>1, Entries
  <2>2. Undone(e, c, r)
    <3>1. CASE c.opt = (IF Holds(e) THEN "NX" ELSE "XX")
      BY <2>1, <3>1, DoneUndone DEF Set
    <3>2. CASE c.opt # (IF Holds(e) THEN "NX" ELSE "XX") /\ Refusal(e, c) # None
      BY <2>1, <3>2, StoppedUndone DEF Set
    <3>3. CASE c.opt # (IF Holds(e) THEN "NX" ELSE "XX") /\ Refusal(e, c) = None /\ c.fields = <<>>
      BY <2>1, <3>3, StoppedUndone, DoneUndone DEF Set, SetWhole
    <3>4. CASE c.opt # (IF Holds(e) THEN "NX" ELSE "XX") /\ Refusal(e, c) = None /\ c.fields # <<>>
      <4>1. PICK q, ttl : Set(e, c) = Finish(e, q, ttl, 1)
        BY <2>1, <3>4 DEF Set
      <4> QED
        BY <2>1, <4>1, FinishUndone
    <3> QED
      BY <3>1, <3>2, <3>3, <3>4
  <2>3. MergeCmd(e, c) = MergeMissing(r)
    BY <1>1 DEF MergeCmd
  <2>4. Number(0).kind = "number"
    BY DEF Number
  <2> HIDE DEF r
  <2>5. CASE r.reply.kind = "number"
    <3>1. MergeMissing(r).reply = Number(0)
      BY <2>5 DEF MergeMissing
    <3> QED
      BY <2>3, <2>4, <3>1 DEF Undone
  <2>6. CASE r.reply.kind # "number"
    BY <2>2, <2>3, <2>6 DEF MergeMissing
  <2> QED
    BY <2>5, <2>6
<1>2. CASE e # Missing /\ Refusal(e, c) # None
  BY <1>2, StoppedUndone DEF MergeCmd
<1>3. CASE e # Missing /\ Refusal(e, c) = None /\ c.fields = <<>>
  BY <1>3, StoppedUndone, DoneUndone DEF MergeCmd, MergeMsg
<1>4. CASE e # Missing /\ Refusal(e, c) = None /\ c.fields # <<>>
  <2> DEFINE q == MergeField(MutableRef(e.msg, PathOf(c)), c.args[1])
  <2>1. MergeCmd(e, c) = Finish(e, q, e.ttl, 1)
    BY <1>4 DEF MergeCmd
  <2>2. q = AtField(c, MutableRef(e.msg, PathOf(c)))
    BY DEF AtField
  <2> HIDE DEF q
  <2> QED
    BY <1>4, <2>1, <2>2, FinishUndone
<1> QED
  BY <1>1, <1>2, <1>3, <1>4

LEMMA DelUndone ==
  ASSUME NEW e, NEW c, c.op = "DEL"
  PROVE  Undone(e, c, DelCmd(e, c))
<1>1. CASE e = Missing
  BY <1>1, DoneUndone DEF DelCmd
<1>2. CASE e # Missing /\ Refusal(e, c) # None
  BY <1>2, StoppedUndone DEF DelCmd
<1>3. CASE e # Missing /\ Refusal(e, c) = None /\ c.fields = <<>>
  BY <1>3, DoneUndone DEF DelCmd
<1>4. CASE e # Missing /\ Refusal(e, c) = None /\ c.fields # <<>>
  <2> DEFINE q == DelField(MutableRef(e.msg, PathOf(c)))
  <2>1. DelCmd(e, c) = Finish(e, q, e.ttl, 1)
    BY <1>4 DEF DelCmd
  <2>2. q = AtField(c, MutableRef(e.msg, PathOf(c)))
    BY DEF AtField
  <2> HIDE DEF q
  <2> QED
    BY <1>4, <2>1, <2>2, FinishUndone
<1> QED
  BY <1>1, <1>2, <1>3, <1>4

LEMMA ClearUndone ==
  ASSUME NEW e, NEW c, c.op = "CLEAR"
  PROVE  Undone(e, c, ClearCmd(e, c))
<1>1. CASE e = Missing
  BY <1>1, DoneUndone DEF ClearCmd
<1>2. CASE e # Missing /\ Refusal(e, c) # None
  BY <1>2, StoppedUndone DEF ClearCmd
<1>3. CASE e # Missing /\ Refusal(e, c) = None /\ c.fields = <<>>
  BY <1>3, DoneUndone DEF ClearCmd
<1>4. CASE e # Missing /\ Refusal(e, c) = None /\ c.fields # <<>>
  <2> DEFINE q == ClearField(MutableRef(e.msg, PathOf(c)))
  <2>1. ClearCmd(e, c) = Finish(e, q, e.ttl, 1)
    BY <1>4 DEF ClearCmd
  <2>2. q = AtField(c, MutableRef(e.msg, PathOf(c)))
    BY DEF AtField
  <2> HIDE DEF q
  <2> QED
    BY <1>4, <2>1, <2>2, FinishUndone
<1> QED
  BY <1>1, <1>2, <1>3, <1>4

LEMMA ExecuteUndone ==
  ASSUME NEW e, NEW c \in Writes
  PROVE  Undone(e, c, Execute(e, c))
<1>1. CASE c.op = "SET"
  BY <1>1, SetUndone DEF Execute
<1>2. CASE c.op = "APPEND"
  BY <1>2, AppendUndone DEF Execute
<1>3. CASE c.op = "MERGE"
  BY <1>3, MergeUndone DEF Execute
<1>4. CASE c.op = "DEL"
  BY <1>4, DelUndone DEF Execute
<1>5. CASE c.op = "CLEAR"
  BY <1>5, ClearUndone DEF Execute
<1> QED
  BY <1>1, <1>2, <1>3, <1>4, <1>5, WritesAssumption

\* A command that replies with an error changes and loses nothing of the message it worked
\* on in place, whatever its path went through and however far it got.
THEOREM ErrorsLoseNothing == Spec => []ErrorsOnlyAdd
<1>1. Made => ErrorsOnlyAdd
  <2> SUFFICES ASSUME Made, NEW k \in Keys, NEW c \in Writes,
                      Execute(db[k], c).reply.kind = "error"
               PROVE  LET e == db[k]  r == Execute(e, c) IN
                      \/ r.entry = e
                      \/ Holds(e) /\ Holds(r.entry) /\ r.entry.ttl = e.ttl
                         /\ Grows(e.msg, r.entry.msg)
    BY DEF ErrorsOnlyAdd, EveryResult
  <2> DEFINE e == db[k]  r == Execute(e, c)  q == AtField(c, MutableRef(e.msg, PathOf(c)))
  <2>1. CASE r.entry = e
    BY <2>1
  <2>2. CASE r.entry # e
    <3>1. /\ Holds(e) /\ c.fields # <<>> /\ Refusal(e, c) = None
          /\ q.err # None /\ r.entry = Entry(q.root, e.ttl)
      BY <2>2, ExecuteUndone DEF Undone
    <3>2. e.msg.type = c.type
      BY <3>1, NotRefused
    <3>3. WellMade(e.msg)
      BY <3>1, HoldsMessage DEF Made, IsMessage
    <3> DEFINE a == e.msg
    <3>4. Grows(a, AtField(c, MutableRef(a, PathOf(c))).root)
      <4> HIDE DEF e, a
      <4> QED
        BY <3>1, <3>2, <3>3, StoppedGrows DEF a
    <3>5. Holds(r.entry) /\ r.entry.ttl = e.ttl /\ r.entry.msg = q.root
      <4> HIDE DEF e, q, r
      <4> QED
        BY <3>1, Entries
    <3> QED
      BY <3>1, <3>4, <3>5
  <2> QED
    BY <2>1, <2>2
<1> QED
  BY <1>1, SpecMade, PTL

-----------------------------------------------------------------------------
(***************************************************************************)
(* Locality.  A message X in the place where reference l is differs from   *)
(* the one that was there only at what l denotes, or not even there.       *)
(***************************************************************************)
SameEntries(fd, sel, v, w) ==
    /\ fd.label = "map" =>
          /\ sel \in DOMAIN w
          /\ \A k : k # sel => /\ k \in DOMAIN w <=> k \in DOMAIN v
                               /\ k \in DOMAIN v => w[k] = v[k]
    /\ fd.label = "array" =>
          /\ sel \in 0..(Len(v) - 1) /\ Len(v) \in Nat
          /\ Len(w) = Len(v)
          /\ \A i \in 1..Len(v) : i # sel + 1 => w[i] = v[i]

SameBut(l, X) ==
    /\ X.type = l.type
    /\ l.field # None =>
          /\ \A f \in DOMAIN Schema[l.type] \ {l.field} : X.val[f] = Msg(l).val[f]
          /\ l.sel # None => SameEntries(FieldOf(l), l.sel, Msg(l).val[l.field], X.val[l.field])

\* The message one level up.
Up(l, X) == IF AtPlace(l) THEN WithPart(Msg(l), Here(l), X) ELSE X

LEMMA WithPartSame ==
  ASSUME NEW S, Full(S), NEW m \in S, NEW s, StepOK(m, s), NEW x
  PROVE  LET w == WithPart(m, s, x) IN
         /\ w.type = m.type
         /\ \A f \in DOMAIN Schema[m.type] \ {s.field} : w.val[f] = m.val[f]
         /\ SameEntries(Field(m, s.field), s.sel, m.val[s.field], w.val[s.field])
<1> DEFINE w == WithPart(m, s, x)  fd == Field(m, s.field)  v == m.val[s.field]
           u == w.val[s.field]
<1>1. MadeOf(S, m) /\ Shaped(m)
  BY MadeShaped DEF Full, Closed
<1>2. Changed(m, s.field, u, w) /\ Placed(fd, v, s.sel, x, u)
  BY <1>1, WithPartIs
<1>3. DOMAIN m.val = DOMAIN Schema[m.type]
  BY <1>1 DEF Shaped
<1>4. s.field \in DOMAIN m.val /\ Fills(S, fd, v)
  BY <1>1, <1>3 DEF StepOK, MadeOf, Field
<1>5. ASSUME fd.label = "map"
      PROVE  /\ s.sel \in DOMAIN u
             /\ \A k : k # s.sel => /\ k \in DOMAIN u <=> k \in DOMAIN v
                                    /\ k \in DOMAIN v => u[k] = v[k]
  <2> HIDE DEF w, fd, v, u
  <2>1. u = Over([k \in {s.sel} |-> x], v)
    BY <1>2, <1>5 DEF Placed
  <2> QED
    BY <2>1 DEF Over
<1>6. ASSUME fd.label = "array"
      PROVE  /\ s.sel \in 0..(Len(v) - 1) /\ Len(v) \in Nat /\ Len(u) = Len(v)
             /\ \A i \in 1..Len(v) : i # s.sel + 1 => u[i] = v[i]
  <2>1. v \in Seq(Elements(S, fd))
    BY <1>4, <1>6 DEF Fills
  <2>2. s.sel \in 0..(Len(v) - 1)
    BY <1>6 DEF StepOK
  <2> HIDE DEF w, fd, v, u
  <2>3. u = [v EXCEPT ![s.sel + 1] = x]
    BY <1>2, <1>6 DEF Placed
  <2> QED
    BY <2>1, <2>2, <2>3
<1>7. w.type = m.type /\ \A f \in DOMAIN Schema[m.type] \ {s.field} : w.val[f] = m.val[f]
  BY <1>2, <1>3 DEF Changed
<1> QED
  BY <1>5, <1>6, <1>7 DEF SameEntries

LEMMA UpIs ==
  ASSUME NEW S, Full(S), NEW a \in S, NEW p \in Seq(DOMAIN Index), NEW i \in 1..Len(p),
         On(TRUE, a, p, i).err = None, NEW Y, SameBut(View(a, p, i), Y)
  PROVE  LET l == View(a, p, i - 1)  k == View(a, p, i) IN
         /\ PutAt(a, k.addr, Y) = PutAt(a, l.addr, Up(l, Y))
         /\ SameBut(l, Up(l, Y))
<1> DEFINE l == View(a, p, i - 1)  k == View(a, p, i)  seg == p[i]
<1>1. /\ Sees(S, l) /\ l.err = None /\ l.root = a
      /\ k = Onward(l, seg, a) /\ Advanced(l, k)
  <2>1. Stepped(S, a, p, i)
    BY ViewStep
  <2> QED
    BY <2>1 DEF Stepped
<1>2. SameBut(k, Y)
  OBVIOUS
<1> HIDE DEF l, k, seg
<1>3. CASE l.field = None
  <2>1. ~AtPlace(l) /\ ~AtMap(l) /\ ~AtArray(l)
    BY <1>3 DEF AtPlace, AtMap, AtArray
  <2>2. k = Ref(a, l.addr, l.type, seg, None, None)
    BY <1>1, <1>3, <2>1 DEF Onward
  <2>3. k.addr = l.addr /\ k.type = l.type
    BY <2>2, RefParts
  <2> QED
    BY <1>2, <1>3, <2>1, <2>3 DEF Up, SameBut, l, k
<1>4. CASE AtMap(l) \/ AtArray(l)
  <2>1. ~AtPlace(l) /\ l.field # None /\ l.sel = None
    BY <1>4 DEF AtPlace, AtMap, AtArray
  <2>2. PICK x : k = Ref(a, l.addr, l.type, l.field, x, None)
    BY <1>1, <1>4, <2>1 DEF Onward, AtMap, AtArray
  <2>3. k.addr = l.addr /\ k.type = l.type /\ k.field = l.field
    BY <2>2, RefParts
  <2>4. Msg(k) = Msg(l)
    BY <1>1, <2>1 DEF Advanced
  <2> QED
    BY <1>2, <2>1, <2>3, <2>4 DEF Up, SameBut, l, k
<1>5. CASE AtPlace(l)
  <2>1. PICK h : Stands(S, l, h)
    BY <1>1 DEF Sees
  <2>2. Leads(S, a, l.addr, h) /\ Msg(l) \in S /\ Msg(l).type = l.type
    BY <1>1, <2>1, StandsAt DEF Stands
  <2>3. k.addr = Append(l.addr, Here(l)) /\ StepOK(Msg(l), Here(l))
        /\ FieldOf(l) = Field(Msg(l), Here(l).field)
    BY <1>1, <1>5 DEF Advanced
  <2>4. PutAt(a, Append(l.addr, Here(l)), Y) = PutAt(a, l.addr, WithPart(At(a, l.addr), Here(l), Y))
    BY <2>2, PutAppend
  <2>5. At(a, l.addr) = Msg(l)
    BY <1>1 DEF Msg
  <2>6. Here(l).field = l.field /\ Here(l).sel = l.sel
    BY DEF Here
  <2>7. SameBut(l, WithPart(Msg(l), Here(l), Y))
    BY <2>2, <2>3, <2>6, WithPartSame DEF SameBut
  <2> QED
    BY <1>5, <2>3, <2>4, <2>5, <2>7 DEF Up, l, k
<1> QED
  BY <1>3, <1>4, <1>5 DEF AtPlace

\* Whoever follows the path again, to read, passes where the writer passed.
LEMMA FaultBack ==
  ASSUME NEW S, NEW l, Sees(S, l), NEW seg, NEW a, NEW Y,
         Fault(TRUE, Msg(l), l, seg) = None, SameBut(Onward(l, seg, a), Y)
  PROVE  Fault(FALSE, Up(l, Y), l, seg) = None
<1> DEFINE k == Onward(l, seg, a)  X == Up(l, Y)
<1>1. SameBut(k, Y)
  OBVIOUS
<1> HIDE DEF k
<1>2. CASE l.field = None
  <2>1. ~AtPlace(l) /\ ~AtMap(l) /\ ~AtArray(l)
    BY <1>2 DEF AtPlace, AtMap, AtArray
  <2> QED
    BY <1>2, <2>1 DEF Fault
<1>3. CASE AtMap(l)
  <2>1. ~AtPlace(l) /\ ~AtArray(l) /\ l.field # None
    BY <1>3 DEF AtPlace, AtMap, AtArray
  <2>2. k = Ref(a, l.addr, l.type, l.field, KeyOf(l, seg), None)
    BY <1>3, <2>1 DEF Onward, k
  <2>3. k.type = l.type /\ k.field = l.field /\ k.sel = KeyOf(l, seg)
    BY <2>2, RefParts
  <2>4. KeyOf(l, seg) # None
    BY <1>3, <2>1, NoneAssumption DEF Fault
  <2>5. FieldOf(k).label = "map"
    BY <1>3, <2>3 DEF AtMap, IsMap, FieldOf
  <2>6. KeyOf(l, seg) \in DOMAIN Y.val[l.field]
    BY <1>1, <2>1, <2>3, <2>4, <2>5 DEF SameBut, SameEntries
  <2>7. X = Y
    BY <2>1 DEF Up
  <2> QED
    BY <1>3, <2>1, <2>4, <2>6, <2>7 DEF Fault
<1>4. CASE AtArray(l)
  <2>1. ~AtPlace(l) /\ ~AtMap(l) /\ l.field # None
    BY <1>4 DEF AtPlace, AtMap, AtArray
  <2>2. k = Ref(a, l.addr, l.type, l.field, Index[seg], None)
    BY <1>4, <2>1 DEF Onward, k
  <2>3. k.type = l.type /\ k.field = l.field /\ k.sel = Index[seg]
    BY <2>2, RefParts
  <2>4. Index[seg] # None
    BY <1>4, <2>1, NoneAssumption DEF Fault
  <2>5. FieldOf(k).label = "array"
    <3>1. FieldOf(l).label = "array"
      <4>1. PICK h : Points(S, l, h)
        BY <2>1 DEF Sees
      <4>2. IsFd(FieldOf(l))
        BY <4>1, StandsAt, SchemaFd DEF Points, FieldOf
      <4> QED
        BY <1>4, <4>2 DEF AtArray, IsArray, IsMap, IsFd
    <3> QED
      BY <2>3, <3>1 DEF FieldOf
  <2>6. SameEntries(FieldOf(k), k.sel, Msg(k).val[k.field], Y.val[k.field])
    BY <1>1, <2>1, <2>3, <2>4 DEF SameBut
  <2>7. Index[seg] \in 0..(Len(Y.val[l.field]) - 1) /\ Len(Y.val[l.field]) \in Nat
    BY <2>3, <2>5, <2>6 DEF SameEntries
  <2>8. X = Y
    BY <2>1 DEF Up
  <2>9. ~(Index[seg] >= Len(Y.val[l.field]) \/ Index[seg] < 0)
    BY <2>7
  <2> QED
    BY <1>4, <2>1, <2>4, <2>8, <2>9 DEF Fault
<1>5. CASE AtPlace(l)
  <2>1. l.field # None /\ ~AtMap(l) /\ ~AtArray(l)
    BY <1>5 DEF AtPlace
  <2> QED
    BY <1>5, <2>1 DEF Fault
<1> QED
  BY <1>2, <1>3, <1>4, <1>5 DEF AtPlace

ReadsBack(a, p, i) ==
    On(TRUE, a, p, i).err = None =>
        \A Y : SameBut(View(a, p, i), Y) =>
            LET k == View(a, p, i)  b == PutAt(a, k.addr, Y) IN
            On(FALSE, b, p, i) = Onto(k, b) /\ Msg(Onto(k, b)) = Y

LEMMA ReadsBackNext ==
  ASSUME NEW S, Full(S), NEW a \in S, NEW p \in Seq(DOMAIN Index), NEW i \in 1..Len(p),
         ReadsBack(a, p, i - 1)
  PROVE  ReadsBack(a, p, i)
<1> SUFFICES ASSUME On(TRUE, a, p, i).err = None, NEW Y, SameBut(View(a, p, i), Y)
             PROVE  LET k == View(a, p, i)  b == PutAt(a, k.addr, Y) IN
                    On(FALSE, b, p, i) = Onto(k, b) /\ Msg(Onto(k, b)) = Y
  BY DEF ReadsBack
<1> DEFINE l == View(a, p, i - 1)  k == View(a, p, i)  seg == p[i]
<1>0. On(TRUE, a, p, i).err = None
  OBVIOUS
<1>1. /\ On(TRUE, a, p, i - 1).err = None
      /\ Sees(S, l) /\ l.err = None /\ l.root = a
      /\ Fault(TRUE, Msg(l), l, seg) = None
      /\ k = Onward(l, seg, a) /\ Advanced(l, k) /\ k.root = a /\ \E h : Points(S, k, h)
  <2>1. Stepped(S, a, p, i)
    BY <1>0, ViewStep
  <2> QED
    BY <2>1 DEF Stepped
<1> DEFINE b == PutAt(a, k.addr, Y)  d == On(FALSE, b, p, i - 1)  q == On(FALSE, b, p, i)
<1>2. SameBut(k, Y) /\ b = PutAt(a, l.addr, Up(l, Y)) /\ SameBut(l, Up(l, Y))
  BY UpIs
<1>3. d = Onto(l, b) /\ Msg(Onto(l, b)) = Up(l, Y)
  BY <1>1, <1>2 DEF ReadsBack
<1>4. /\ d.err = None => q.err = Fault(FALSE, Msg(d), d, seg)
      /\ d.err = None /\ q.err = None => q = Onward(d, seg, b)
  BY ConstStep
<1> HIDE DEF l, k, seg, b, d, q
<1>5. d.err = None
  BY <1>1, <1>3, OntoSame
<1>6. Fault(FALSE, Up(l, Y), l, seg) = None
  BY <1>1, <1>2, FaultBack
<1>7. Fault(FALSE, Msg(d), d, seg) = None
  <2>1. \A M : Fault(FALSE, M, Onto(l, b), seg) = Fault(FALSE, M, l, seg)
    BY FaultOnto
  <2> QED
    BY <1>3, <1>6, <2>1
<1>8. q = Onward(l, seg, b)
  <2>1. Onward(Onto(l, b), seg, b) = Onward(l, seg, b)
    BY OntoOnward
  <2> QED
    BY <1>3, <1>4, <1>5, <1>7, <2>1
<1>9. Onto(k, b) = Onward(l, seg, b)
  BY <1>1, OnwardOnto
<1>10. Msg(Onto(k, b)) = Y
  <2>1. PICK h : Points(S, k, h)
    BY <1>1
  <2>2. Leads(S, a, k.addr, h)
    BY <1>1, <2>1 DEF Points, Stands
  <2>3. At(PutAt(a, k.addr, Y), k.addr) = Y
    BY <2>2, AtPut
  <2>4. Onto(k, b).root = b /\ Onto(k, b).addr = k.addr
    BY OntoSame
  <2> QED
    BY <2>3, <2>4 DEF Msg, b
<1> QED
  BY <1>8, <1>9, <1>10 DEF b, k, q

\* A message put where a path leads is found there by the same path.
LEMMA ReadBack ==
  ASSUME NEW S, Full(S), NEW a \in S, NEW p \in Seq(DOMAIN Index)
  PROVE  \A i \in 0..Len(p) : ReadsBack(a, p, i)
<1> DEFINE n == Len(p)  I == {i \in 0..n : ReadsBack(a, p, i)}
<1>1. n \in Nat
  OBVIOUS
<1>2. ReadsBack(a, p, 0)
  <2> SUFFICES ASSUME NEW Y, SameBut(View(a, p, 0), Y)
               PROVE  LET k == View(a, p, 0)  b == PutAt(a, k.addr, Y) IN
                      On(FALSE, b, p, 0) = Onto(k, b) /\ Msg(Onto(k, b)) = Y
    BY DEF ReadsBack
  <2> DEFINE k == View(a, p, 0)  b == PutAt(a, k.addr, Y)
  <2>1. k = Ref(a, <<>>, a.type, None, None, None)
    BY OnNext, StartSees DEF View
  <2>2. SameBut(k, Y)
    OBVIOUS
  <2>3. On(FALSE, Y, p, 0) = StartOf(Y)
    BY OnNext
  <2>4. StartOf(Y) = Ref(Y, <<>>, Y.type, None, None, None)
    BY DEF StartOf, Ref
  <2> HIDE DEF k
  <2>5. k.addr = <<>> /\ k.type = a.type /\ k.field = None /\ k.sel = None /\ k.err = None
    BY <2>1, RefParts
  <2>6. b = Y
    BY <2>5, AtStart
  <2>7. Y.type = a.type
    BY <2>2, <2>5 DEF SameBut
  <2>8. On(FALSE, b, p, 0) = Onto(k, b)
    BY <2>3, <2>4, <2>5, <2>6, <2>7 DEF Onto
  <2>9. Onto(k, b).root = b /\ Onto(k, b).addr = <<>>
    BY <2>5, OntoSame
  <2>10. Msg(Onto(k, b)) = Y
    BY <2>6, <2>9, AtStart DEF Msg
  <2> QED
    BY <2>8, <2>10 DEF k
<1>3. \A i \in 1..n : ReadsBack(a, p, i - 1) => ReadsBack(a, p, i)
  BY ReadsBackNext
<1> HIDE DEF n
<1>4. 0 \in I /\ \A i \in 1..n : i - 1 \in I => i \in I
  BY <1>1, <1>2, <1>3
<1>5. \A i \in 0..n : i \in I
  <2> HIDE DEF I
  <2> QED
    BY <1>1, <1>4, InductTo
<1> QED
  BY <1>5 DEF n

\* Seen from any point of the path, one message has been put in place of another.
ChangedAt(a, p, b, i) ==
    \E Y : SameBut(View(a, p, i), Y) /\ b = PutAt(a, View(a, p, i).addr, Y)

LEMMA ChangedAbove ==
  ASSUME NEW S, Full(S), NEW a \in S, NEW p \in Seq(DOMAIN Index), NEW b,
         On(TRUE, a, p, Len(p)).err = None, ChangedAt(a, p, b, Len(p))
  PROVE  \A i \in 0..Len(p) : On(TRUE, a, p, i).err = None /\ ChangedAt(a, p, b, i)
<1> DEFINE n == Len(p)  Good(i) == On(TRUE, a, p, i).err = None /\ ChangedAt(a, p, b, i)
           I == {j \in 0..n : Good(n - j)}
<1>1. n \in Nat
  OBVIOUS
<1>2. Good(n)
  OBVIOUS
<1>3. ASSUME NEW i \in 1..n, Good(i) PROVE Good(i - 1)
  <2>1. PICK Y : SameBut(View(a, p, i), Y) /\ b = PutAt(a, View(a, p, i).addr, Y)
    BY <1>3 DEF ChangedAt
  <2>2. On(TRUE, a, p, i - 1).err = None
    BY <1>3, ThrownBefore
  <2>3. /\ PutAt(a, View(a, p, i).addr, Y)
             = PutAt(a, View(a, p, i - 1).addr, Up(View(a, p, i - 1), Y))
        /\ SameBut(View(a, p, i - 1), Up(View(a, p, i - 1), Y))
    BY <1>3, <2>1, UpIs
  <2> QED
    BY <2>1, <2>2, <2>3 DEF ChangedAt
<1> HIDE DEF n, Good
<1>4. 0 \in I
  BY <1>1, <1>2
<1>5. ASSUME NEW j \in 1..n, j - 1 \in I PROVE j \in I
  <2>1. n - (j - 1) \in 1..n /\ n - (j - 1) - 1 = n - j /\ j \in 0..n
    BY <1>1
  <2>2. Good(n - (j - 1))
    BY <1>5
  <2>3. Good(n - j)
    BY <1>3, <2>1, <2>2
  <2> QED
    BY <2>1, <2>3
<1>6. \A j \in 0..n : j \in I
  <2> HIDE DEF I
  <2> QED
    BY <1>1, <1>4, <1>5, InductTo
<1>7. ASSUME NEW i \in 0..n PROVE Good(i)
  <2>1. n - i \in 0..n /\ n - (n - i) = i
    BY <1>1
  <2>2. Good(n - (n - i))
    BY <1>6, <2>1
  <2> QED
    BY <2>1, <2>2
<1> QED
  BY <1>7 DEF n, Good

LEMMA ChangedTyped ==
  ASSUME NEW S, Full(S), NEW a \in S, NEW p \in Seq(DOMAIN Index), NEW b,
         On(TRUE, a, p, Len(p)).err = None, ChangedAt(a, p, b, Len(p))
  PROVE  b.type = a.type
<1>1. 0 \in 0..Len(p)
  <2>1. Len(p) \in Nat
    OBVIOUS
  <2> QED
    BY <2>1
<1>2. ChangedAt(a, p, b, 0)
  BY <1>1, ChangedAbove
<1> DEFINE k == View(a, p, 0)
<1>3. k = Ref(a, <<>>, a.type, None, None, None)
  BY OnNext, StartSees DEF View
<1>4. PICK Y : SameBut(k, Y) /\ b = PutAt(a, k.addr, Y)
  BY <1>2 DEF ChangedAt
<1> HIDE DEF k
<1>5. k.addr = <<>> /\ k.type = a.type
  BY <1>3, RefParts
<1>6. b = Y
  BY <1>4, <1>5, AtStart
<1> QED
  BY <1>4, <1>5, <1>6 DEF SameBut

\* The reading reference to a place finds the reference that wrote there.
Rereads(S, a, p) ==
    \A l, X : (l = View(a, p, Len(p)) /\ Reached(S, a, l) /\ SameBut(l, X)) =>
        /\ PutAt(a, l.addr, X).type = a.type
        /\ Reading(PutAt(a, l.addr, X), p) = Work(a, l, X, None)
        /\ Msg(Work(a, l, X, None)) = X

LEMMA ReadWork ==
  ASSUME NEW S, Full(S), Parsed \subseteq S, NEW a \in S, NEW p \in Seq(DOMAIN Index), p # <<>>,
         On(TRUE, a, p, Len(p)).err = None
  PROVE  Rereads(S, a, p)
<1> SUFFICES ASSUME NEW l, l = View(a, p, Len(p)), Reached(S, a, l), NEW X, SameBut(l, X)
             PROVE  /\ PutAt(a, l.addr, X).type = a.type
                    /\ Reading(PutAt(a, l.addr, X), p) = Work(a, l, X, None)
                    /\ Msg(Work(a, l, X, None)) = X
  BY DEF Rereads
<1> DEFINE b == PutAt(a, l.addr, X)  n == Len(p)
<1>1. n \in 0..Len(p)
  <2>1. Len(p) \in Nat
    OBVIOUS
  <2> QED
    BY <2>1
<1>2. ReadsBack(a, p, n)
  BY <1>1, ReadBack
<1>3. On(FALSE, b, p, n) = Onto(l, b)
  BY <1>2 DEF ReadsBack
<1>4. ChangedAt(a, p, b, n)
  BY DEF ChangedAt
<1>5. b.type = a.type
  BY <1>4, ChangedTyped
<1>6. Onto(l, b) = Work(a, l, X, None)
  BY DEF Onto, Work, Reached
<1>7. ConstRef(b, [type |-> b.type, fields |-> p]) = On(FALSE, b, p, n)
  <2> HIDE DEF b
  <2> QED
    BY ConstOn
<1>8. Msg(Work(a, l, X, None)) = X
  BY WorkMsg
<1> QED
  BY <1>3, <1>5, <1>6, <1>7, <1>8 DEF Reading

-----------------------------------------------------------------------------
(***************************************************************************)
(* A command that goes through leaves a message that is the same but for   *)
(* what its path denotes.                                                  *)
(***************************************************************************)
LEMMA ReachedStep ==
  ASSUME NEW S, NEW a, NEW l, Reached(S, a, l), FieldOf(l).label = "array" => l.sel # None
  PROVE  StepOK(Msg(l), Here(l)) /\ FieldOf(l) = Field(Msg(l), Here(l).field)
         /\ Here(l).field = l.field /\ Here(l).sel = l.sel
<1>1. PICK h : Points(S, l, h)
  BY DEF Reached
<1>2. Msg(l) = h[Len(l.addr)] /\ Msg(l).type = l.type
  BY <1>1, StandsAt DEF Points
<1>3. Here(l).field = l.field /\ Here(l).sel = l.sel
  BY DEF Here
<1>4. FieldOf(l) = Field(Msg(l), l.field)
  BY ReachedFills
<1> QED
  BY <1>1, <1>2, <1>3, <1>4 DEF Points, StepOK

LEMMA PartPut ==
  ASSUME NEW S, NEW a, NEW l, Reached(S, a, l), FieldOf(l).label = "array" => l.sel # None, NEW v
  PROVE  /\ SameBut(l, WithPart(Msg(l), Here(l), v))
         /\ Part(WithPart(Msg(l), Here(l), v), Here(l)) = v
<1>1. /\ StepOK(Msg(l), Here(l)) /\ FieldOf(l) = Field(Msg(l), Here(l).field)
      /\ Here(l).field = l.field /\ Here(l).sel = l.sel
  BY ReachedStep
<1>2. Msg(l) \in S /\ Full(S) /\ Msg(l).type = l.type
  BY ReachedFills DEF Reached
<1> DEFINE m == Msg(l)  s == Here(l)  w == WithPart(m, s, v)
<1> HIDE DEF m, s
<1>3. /\ w.type = m.type
      /\ \A f \in DOMAIN Schema[m.type] \ {s.field} : w.val[f] = m.val[f]
      /\ SameEntries(Field(m, s.field), s.sel, m.val[s.field], w.val[s.field])
  BY <1>1, <1>2, WithPartSame DEF m, s
<1>4. Part(w, s) = v
  BY <1>1, <1>2, WithPartLaws DEF m, s
<1> HIDE DEF w
<1>5. SameBut(l, w)
  BY <1>1, <1>2, <1>3 DEF SameBut, m, s
<1> QED
  BY <1>4, <1>5 DEF w, m, s

LEMMA SetWorks ==
  ASSUME NEW S, NEW a, NEW l, Reached(S, a, l), NEW tok,
         SetField(Work(a, l, Msg(l), None), tok).err = None
  PROVE  LET v == Converted(l, tok)  X == WithPart(Msg(l), Here(l), v) IN
         /\ SetField(Work(a, l, Msg(l), None), tok) = Work(a, l, X, None)
         /\ SameBut(l, X) /\ Part(X, Here(l)) = v
<1> DEFINE r == Work(a, l, Msg(l), None)  v == Converted(l, tok)
           X == WithPart(Msg(l), Here(l), v)
<1>1. r.err = None /\ (IsArray(r) <=> IsArray(l)) /\ r.sel = l.sel /\ FieldOf(r) = FieldOf(l)
  BY WorkParts
<1>2. Converted(r, tok) = v
  BY <1>1 DEF Converted
<1>3. Put(r, v) = Work(a, l, X, None)
  BY WorkMsg
<1>4. SetField(r, tok).err = None
  OBVIOUS
<1> HIDE DEF r, v, X
<1>5. \A f : f # None => Throw(r, f).err # None
  BY <1>1, WorkParts, WorkThrow DEF r
<1>6. ~(IsArray(r) /\ r.sel = None)
  BY <1>1, <1>4, <1>5, ErrorAssumption DEF SetField
<1>7. SetField(r, tok) = SetPlace(r, tok)
  BY <1>1, <1>6 DEF SetField
<1>8. SetPlace(r, tok) = Put(r, v)
  BY <1>2, <1>4, <1>5, <1>7, ErrorAssumption DEF SetPlace
<1>9. FieldOf(l).label = "array" => l.sel # None
  BY <1>1, <1>6 DEF IsArray
<1>10. SameBut(l, X) /\ Part(X, Here(l)) = v
  BY <1>9, PartPut DEF X
<1> QED
  BY <1>3, <1>7, <1>8, <1>10 DEF r, v, X

LEMMA MapNotAppended ==
  ASSUME NEW r, IsRef(r), r.err = None, IsMap(r), NEW toks \in Seq(Words), toks # <<>>
  PROVE  AppendElements(r, toks).err # None
<1> DEFINE n == Len(toks)
<1>1. n \in Nat /\ n > 0
  OBVIOUS
<1>2. PICK h : Appends(r, toks, n, h)
  BY <1>1, AppendsExist
<1> DEFINE I == {i \in 0..n : i > 0 => h[i].err # None}
<1>3. \A i \in 1..n : h[i] = AppendElement(h[i - 1], toks[i])
  BY <1>2 DEF Appends
<1>4. h[1].err # None
  <2>1. h[1] = AppendElement(r, toks[1])
    BY <1>1, <1>2 DEF Appends
  <2>2. h[1] = Throw(r, "bad value")
    BY <2>1 DEF AppendElement
  <2>3. Throw(r, "bad value").err = "bad value"
    BY DEF Throw, IsRef
  <2> QED
    BY <2>2, <2>3, ErrorAssumption
<1>5. ASSUME NEW i \in 1..n, i - 1 \in I PROVE i \in I
  <2>1. CASE i = 1
    BY <1>4, <2>1
  <2>2. CASE i # 1
    <3>1. h[i - 1].err # None
      BY <1>5, <2>2
    <3>2. h[i] = h[i - 1]
      BY <1>3, <3>1 DEF AppendElement
    <3> QED
      BY <3>1, <3>2
  <2> QED
    BY <2>1, <2>2
<1>6. AppendElements(r, toks) = h[n]
  BY <1>1, <1>2, AppendElementsIs
<1> HIDE DEF n
<1>7. 0 \in I
  BY <1>1
<1>8. \A i \in 0..n : i \in I
  <2> HIDE DEF I
  <2> QED
    BY <1>1, <1>5, <1>7, InductTo
<1>9. h[n].err # None
  BY <1>1, <1>8
<1> QED
  BY <1>6, <1>9 DEF n

LEMMA AppendWorks ==
  ASSUME NEW S, NEW a, NEW l, Reached(S, a, l), NEW toks \in Seq(Words), toks # <<>>,
         AppendField(Work(a, l, Msg(l), None), toks).err = None
  PROVE  /\ \E X : /\ AppendField(Work(a, l, Msg(l), None), toks) = Work(a, l, X, None)
                   /\ SameBut(l, X)
         /\ IsArray(l) /\ ~IsArrayElement(l) => l.sel = None
         /\ ~IsArray(l) => FieldOf(l).kind = "string"
<1> DEFINE r == Work(a, l, Msg(l), None)  q == AppendField(r, toks)
<1>1. /\ r.err = None /\ (IsArray(r) <=> IsArray(l)) /\ r.sel = l.sel /\ FieldOf(r) = FieldOf(l)
      /\ (IsArrayElement(r) <=> IsArrayElement(l)) /\ (IsMap(r) <=> IsMap(l)) /\ IsRef(r)
  BY WorkParts
<1>2. q.err = None
  OBVIOUS
<1>3. \A v : Put(r, v) = Work(a, l, WithPart(Msg(l), Here(l), v), None)
  BY WorkMsg
<1>4. IsArray(l) /\ ~IsArrayElement(l) => Adding(S, a, l, AppendElements(r, toks))
  BY AddingAll
<1>5. IsFd(FieldOf(l))
  BY ReachedFills
<1>6. \A f : Throw(r, f).err = f
  <2>1. \A f : Throw(r, f) = Work(a, l, Msg(l), f)
    BY WorkThrow
  <2> HIDE DEF r
  <2> QED
    BY <2>1, WorkParts
<1> HIDE DEF r
<1>7. CASE IsArray(l) /\ ~IsArrayElement(l)
  <2>1. q = AppendElements(r, toks)
    BY <1>1, <1>7 DEF AppendField
  <2>2. ~IsMap(l)
    BY <1>1, <1>2, <2>1, MapNotAppended
  <2>3. FieldOf(l).label = "array" /\ l.sel = None
    BY <1>5, <1>7, <2>2 DEF IsArray, IsMap, IsArrayElement, IsFd
  <2>4. PICK X, e :
          q = Work(a, l, X, e) /\ (X = Msg(l) \/ (FieldOf(l).label = "array" /\ Lengthened(S, l, X)))
    BY <1>4, <1>7, <2>1 DEF Adding
  <2>5. e = None
    <3> HIDE DEF q
    <3> QED
      BY <1>2, <2>4, WorkParts
  <2>6. Lengthened(S, l, X)
    BY <2>3, <2>4, LengthenedSame
  <2>7. Msg(l).type = l.type /\ DOMAIN Msg(l).val = DOMAIN Schema[l.type]
    BY ReachedFills DEF Shaped
  <2>8. SameBut(l, X)
    BY <2>3, <2>6, <2>7 DEF Lengthened, Changed, SameBut
  <2> HIDE DEF q
  <2> QED
    BY <1>7, <2>3, <2>4, <2>5, <2>8 DEF q, r
<1>8. CASE (IsArray(l) => IsArrayElement(l)) /\ FieldOf(l).kind = "string"
  <2>1. q = AppendString(r, toks)
    BY <1>1, <1>8 DEF AppendField
  <2>2. PICK v : q = Put(r, v)
    BY <2>1 DEF AppendString
  <2>3. FieldOf(l).label = "array" => l.sel # None
    BY <1>8 DEF IsArray, IsArrayElement
  <2>4. SameBut(l, WithPart(Msg(l), Here(l), v))
    BY <2>3, PartPut
  <2> HIDE DEF q
  <2> QED
    BY <1>3, <1>8, <2>2, <2>4 DEF q, r
<1>9. CASE (IsArray(l) => IsArrayElement(l)) /\ FieldOf(l).kind # "string"
  <2>1. q = Throw(r, "not an array or string")
    BY <1>1, <1>9 DEF AppendField
  <2> HIDE DEF q
  <2> QED
    BY <1>2, <1>6, <2>1, ErrorAssumption
<1> QED
  BY <1>7, <1>8, <1>9

LEMMA FinishWent ==
  ASSUME NEW e, NEW q, NEW ttl, NEW n, Finish(e, q, ttl, n).reply.kind = "number"
  PROVE  /\ q.err = None
         /\ Finish(e, q, ttl, n) = Done(Entry(q.root, ttl), n)
         /\ Finish(e, q, ttl, n).entry = Entry(q.root, ttl)
         /\ Finish(e, q, ttl, n).reply = Number(n)
<1>1. \A f, err : Stopped(f, err).reply.kind # "number"
  BY DEF Stopped, Error, Abort
<1>2. q.err = None
  BY <1>1 DEF Finish
<1>3. Finish(e, q, ttl, n) = Done(Entry(q.root, ttl), n)
  BY <1>2 DEF Finish
<1>4. Done(Entry(q.root, ttl), n).entry = Entry(q.root, ttl)
      /\ Done(Entry(q.root, ttl), n).reply = Number(n)
  BY DEF Done
<1> QED
  BY <1>2, <1>3, <1>4

\* The message a command that is not refused works on.
LEMMA TargetTyped ==
  ASSUME NEW e, IsEntry(e), NEW c, Refusal(e, c) = None
  PROVE  WellMade(Target(e, c)) /\ Target(e, c).type = c.type /\ e # Foreign
<1>1. e # Foreign /\ (Holds(e) => e.msg.type = c.type) /\ (~Holds(e) => c.type \in Types)
  BY NotRefused
<1>2. Create(c.type).type = c.type
  BY DEF Create
<1>3. WellMade(Target(e, c))
  BY TargetGood
<1> QED
  BY <1>1, <1>2, <1>3 DEF Target

Workplace(S, a, c, l) ==
    /\ Full(S) /\ Parsed \subseteq S /\ a \in S /\ Reached(S, a, l)
    /\ l = View(a, c.fields, Len(c.fields))
    /\ On(TRUE, a, c.fields, Len(c.fields)).err = None
    /\ MutableRef(a, PathOf(c)) = Work(a, l, Msg(l), None)
    /\ \A X : SameBut(l, X) =>
          /\ PutAt(a, l.addr, X).type = a.type
          /\ ConstRef(PutAt(a, l.addr, X), PathOf(c)) = Work(a, l, X, None)
          /\ Msg(Work(a, l, X, None)) = X

LEMMA WorkPlace ==
  ASSUME NEW a, WellMade(a), NEW c \in Writes, c.fields # <<>>, c.type = a.type,
         MutableRef(a, PathOf(c)).err = None
  PROVE  \E S, l : Workplace(S, a, c, l)
<1> DEFINE p == c.fields
<1>1. PICK S : Full(S) /\ Parsed \subseteq S /\ a \in S
  BY Enough
<1>2. p \in Seq(DOMAIN Index) /\ p # <<>>
  BY WritesAssumption
<1>3. PathOf(c) = [type |-> a.type, fields |-> p]
  BY DEF PathOf
<1>4. MutableRef(a, [type |-> a.type, fields |-> p]).err = None
  BY <1>3
<1> HIDE DEF p
<1>5. PICK l : /\ Reached(S, a, l) /\ l = View(a, p, Len(p))
               /\ MutableRef(a, [type |-> a.type, fields |-> p]) = Work(a, l, Msg(l), None)
  BY <1>1, <1>2, <1>4, EndOfPath
<1>6. MutableRef(a, [type |-> a.type, fields |-> p]) = On(TRUE, a, p, Len(p))
  BY <1>2, MutableOn
<1>7. On(TRUE, a, p, Len(p)).err = None
  BY <1>4, <1>6
<1>8. ASSUME NEW X, SameBut(l, X)
      PROVE  /\ PutAt(a, l.addr, X).type = a.type
             /\ ConstRef(PutAt(a, l.addr, X), PathOf(c)) = Work(a, l, X, None)
             /\ Msg(Work(a, l, X, None)) = X
  <2>1. /\ PutAt(a, l.addr, X).type = a.type
        /\ Reading(PutAt(a, l.addr, X), p) = Work(a, l, X, None)
        /\ Msg(Work(a, l, X, None)) = X
    <3>1. Rereads(S, a, p)
      BY <1>1, <1>2, <1>7, ReadWork
    <3> QED
      BY <1>5, <1>8, <3>1 DEF Rereads
  <2>2. PathOf(c) = [type |-> PutAt(a, l.addr, X).type, fields |-> p]
    BY <1>3, <2>1
  <2> QED
    BY <2>1, <2>2 DEF Reading
<1> QED
  BY <1>1, <1>3, <1>5, <1>7, <1>8 DEF Workplace, p

LEMMA LenIs ==
  ASSUME NEW q, q.err = None, NEW b, NEW ttl, NEW type, b.type = type, NEW p, p # <<>>,
         ConstRef(b, [type |-> type, fields |-> p]) = q
  PROVE  LenCmd(Entry(b, ttl), type, p) = LenField(q)
<1>1. Holds(Entry(b, ttl)) /\ Entry(b, ttl).msg = b /\ Entry(b, ttl) \notin {Missing, Foreign}
  BY Entries
<1> DEFINE e == Entry(b, ttl)
<1> HIDE DEF e
<1>2. LenCmd(e, type, p) = LenField(ConstRef(e.msg, [type |-> type, fields |-> p]))
  BY <1>1 DEF LenCmd, e
<1> QED
  BY <1>1, <1>2 DEF e

LEMMA AppendLength ==
  ASSUME NEW e, IsEntry(e), NEW c \in Writes, c.op = "APPEND",
         Execute(e, c).reply.kind = "number"
  PROVE  LET r == Execute(e, c) IN
         \/ LenCmd(r.entry, c.type, c.fields) = r.reply
         \/ IsArrayElement(ConstRef(r.entry.msg, PathOf(c)))
<1> DEFINE r == Execute(e, c)  a == Target(e, c)  m == MutableRef(a, PathOf(c))
           q == AppendField(m, c.args)  p == c.fields
           n == IF IsArray(q) /\ ~IsArrayElement(q) THEN Size(q) ELSE Len(Get(q))
<1>0. \A f, err : Stopped(f, err).reply.kind # "number"
  BY DEF Stopped, Error, Abort
<1>1. r = AppendCmd(e, c)
  BY DEF Execute
<1>2. p # <<>> /\ Refusal(e, c) = None /\ r = Appended(e, q)
  BY <1>0, <1>1 DEF AppendCmd
<1>3. PICK ttl : Appended(e, q) = Finish(e, q, ttl, IF q.err # None THEN 0 ELSE n)
  BY DEF Appended
<1>4. r.reply.kind = "number"
  OBVIOUS
<1>5. WellMade(a) /\ a.type = c.type
  BY <1>2, TargetTyped
<1>6. c.args \in Seq(Words) /\ c.args # <<>> /\ p \in Seq(DOMAIN Index)
  BY WritesAssumption
<1> HIDE DEF r, a, n
<1>7. q.err = None /\ r.entry = Entry(q.root, ttl) /\ r.reply = Number(n)
  <2> HIDE DEF q
  <2>1. r = Finish(e, q, ttl, IF q.err # None THEN 0 ELSE n)
    BY <1>2, <1>3
  <2>2. q.err = None
    BY <1>4, <2>1, FinishWent
  <2>3. r = Finish(e, q, ttl, n)
    BY <2>1, <2>2
  <2> QED
    BY <1>4, <2>2, <2>3, FinishWent
<1>8. m.err = None
  BY <1>7 DEF AppendField
<1>9. PICK S, l : Workplace(S, a, c, l)
  BY <1>2, <1>5, <1>8, WorkPlace
<1>w. Reached(S, a, l) /\ m = Work(a, l, Msg(l), None)
  BY <1>9 DEF Workplace
<1>10. AppendField(Work(a, l, Msg(l), None), c.args) = q
  BY <1>w
<1>11. PICK X : q = Work(a, l, X, None) /\ SameBut(l, X)
  <2> HIDE DEF q, m
  <2>1. AppendField(Work(a, l, Msg(l), None), c.args).err = None
    BY <1>7, <1>10
  <2> QED
    BY <1>6, <1>w, <1>10, <2>1, AppendWorks
<1>12. /\ IsArray(l) /\ ~IsArrayElement(l) => l.sel = None
       /\ ~IsArray(l) => FieldOf(l).kind = "string"
  <2> HIDE DEF q, m
  <2>1. AppendField(Work(a, l, Msg(l), None), c.args).err = None
    BY <1>7, <1>10
  <2> QED
    BY <1>6, <1>w, <2>1, AppendWorks
<1> DEFINE b == PutAt(a, l.addr, X)
<1> HIDE DEF q, m, p
<1>13. b.type = a.type /\ ConstRef(b, PathOf(c)) = q
  BY <1>9, <1>11 DEF Workplace
<1>14. /\ q.root = b /\ q.sel = l.sel /\ FieldOf(q) = FieldOf(l)
       /\ (IsArray(q) <=> IsArray(l)) /\ (IsArrayElement(q) <=> IsArrayElement(l))
  BY <1>11, WorkParts
<1> HIDE DEF b
<1>15. ConstRef(b, [type |-> c.type, fields |-> p]) = q
  BY <1>13 DEF PathOf, p
<1>16. LenCmd(r.entry, c.type, p) = LenField(q)
  BY <1>2, <1>5, <1>7, <1>13, <1>14, <1>15, LenIs
<1>17. ConstRef(r.entry.msg, PathOf(c)) = q
  <2>1. r.entry.msg = b
    BY <1>7, <1>14, Entries
  <2> QED
    BY <1>15, <2>1 DEF PathOf, p
<1>18. ~IsArrayElement(q) => LenField(q) = Number(n)
  <2>1. CASE IsArray(q) /\ ~IsArrayElement(q)
    BY <1>7, <1>12, <1>14, <2>1, NoneAssumption DEF LenField, n
  <2>2. CASE ~IsArray(q)
    BY <1>7, <1>12, <1>14, <2>2, NoneAssumption DEF LenField, n
  <2> QED
    BY <2>1, <2>2
<1> QED
  BY <1>7, <1>16, <1>17, <1>18 DEF r, p

LEMMA LookIs ==
  ASSUME NEW b, NEW ttl, NEW p, p # <<>>
  PROVE  Look(Entry(b, ttl), p) = GetField(Reading(b, p), TRUE)
<1> DEFINE e == Entry(b, ttl)
<1>1. Holds(e) /\ e.msg = b /\ e \notin {Missing, Foreign}
  BY Entries
<1> HIDE DEF e
<1>2. GetCmd(e, e.msg.type, p, TRUE) = GetField(ConstRef(e.msg, [type |-> e.msg.type, fields |-> p]), TRUE)
  BY <1>1 DEF GetCmd
<1> QED
  BY <1>1, <1>2 DEF Look, Reading, e

\* What a reading path denotes, the writing one would, too.
LEMMA ReadingReached ==
  ASSUME NEW S, Full(S), Parsed \subseteq S, NEW a \in S, NEW p \in Seq(DOMAIN Index), p # <<>>,
         Reading(a, p).err = None
  PROVE  /\ Reached(S, a, Reading(a, p)) /\ Reading(a, p) = View(a, p, Len(p))
         /\ On(TRUE, a, p, Len(p)).err = None
<1> DEFINE n == Len(p)
<1>1. n \in 0..n
  <2>1. Len(p) \in Nat
    OBVIOUS
  <2> QED
    BY <2>1
<1>2. Reading(a, p) = On(FALSE, a, p, n)
  BY ConstOn DEF Reading
<1>3. Beside(a, p, n)
  BY <1>1, SideBySide
<1>4. On(TRUE, a, p, n).err = None /\ View(a, p, n) = Reading(a, p)
  BY <1>2, <1>3 DEF Beside
<1>5. MutableRef(a, [type |-> a.type, fields |-> p]) = On(TRUE, a, p, n)
  BY MutableOn
<1>6. MutableRef(a, [type |-> a.type, fields |-> p]).err = None
  BY <1>4, <1>5
<1>7. PICK l : Reached(S, a, l) /\ l = View(a, p, n)
  BY <1>6, EndOfPath
<1> QED
  BY <1>4, <1>7

LEMMA ListIs ==
  ASSUME NEW r, r.err = None, r.sel = None, IsArray(r)
  PROVE  LET v == Msg(r).val[r.field] IN
         GetField(r, TRUE) = Value([i \in DOMAIN v |-> Value(v[i])])
<1> DEFINE v == Msg(r).val[r.field]  kind == FieldOf(r).kind
<1>1. \A x : GetElement(kind, x, TRUE) = Value(x)
  BY DEF GetElement
<1>2. CASE IsMap(r)
  <2>1. GetField(r, TRUE) = GetMap(r, TRUE)
    BY <1>2, NoneAssumption DEF GetField
  <2>2. GetMap(r, TRUE) = Value([i \in DOMAIN v |-> GetElement(kind, v[i], TRUE)])
    BY DEF GetMap
  <2> HIDE DEF v, kind
  <2>3. [i \in DOMAIN v |-> GetElement(kind, v[i], TRUE)] = [i \in DOMAIN v |-> Value(v[i])]
    BY <1>1
  <2> QED
    BY <2>1, <2>2, <2>3 DEF v
<1>3. CASE ~IsMap(r)
  <2>1. GetField(r, TRUE) = GetArray(r, TRUE)
    BY <1>3, NoneAssumption DEF GetField
  <2>2. GetArray(r, TRUE) = Value([i \in DOMAIN v |-> GetElement(kind, v[i], TRUE)])
    BY DEF GetArray
  <2> HIDE DEF v, kind
  <2>3. [i \in DOMAIN v |-> GetElement(kind, v[i], TRUE)] = [i \in DOMAIN v |-> Value(v[i])]
    BY <1>1
  <2> QED
    BY <2>1, <2>2, <2>3 DEF v
<1> QED
  BY <1>2, <1>3

LEMMA ListedLength ==
  ASSUME NEW a, WellMade(a), NEW ttl, NEW p \in Seq(DOMAIN Index), p # <<>>,
         Reading(a, p).err = None, IsArray(Reading(a, p)), Reading(a, p).sel = None
  PROVE  LenCmd(Entry(a, ttl), a.type, p)
           = Number(Cardinality(DOMAIN Look(Entry(a, ttl), p).val))
<1> DEFINE r == Reading(a, p)  v == Msg(r).val[r.field]
<1>1. PICK S : Full(S) /\ Parsed \subseteq S /\ a \in S
  BY Enough
<1>2. Reached(S, a, r)
  BY <1>1, ReadingReached
<1>3. IsFd(FieldOf(r)) /\ Fills(S, FieldOf(r), v)
  BY <1>2, ReachedFills
<1>4. ConstRef(a, [type |-> a.type, fields |-> p]) = r
  BY DEF Reading
<1>5. r.err = None /\ IsArray(r) /\ r.sel = None
  OBVIOUS
<1>6. Look(Entry(a, ttl), p) = GetField(r, TRUE)
  BY LookIs
<1> HIDE DEF r
<1>7. LenCmd(Entry(a, ttl), a.type, p) = LenField(r)
  BY <1>4, <1>5, LenIs
<1>8. LenField(r) = Number(Size(r))
  BY <1>5, NoneAssumption DEF LenField
<1>9. GetField(r, TRUE) = Value([i \in DOMAIN v |-> Value(v[i])])
  BY <1>5, ListIs
<1>10. \A x : Value(x).val = x
  BY DEF Value
<1> HIDE DEF v
<1>11. DOMAIN Look(Entry(a, ttl), p).val = DOMAIN v
  BY <1>6, <1>9, <1>10
<1>12. Size(r) = Cardinality(DOMAIN v)
  <2>1. CASE IsMap(r)
    BY <2>1 DEF Size, v
  <2>2. CASE ~IsMap(r)
    <3>1. v \in Seq(Elements(S, FieldOf(r)))
      BY <1>3, <1>5, <2>2 DEF IsFd, IsArray, IsMap, Fills
    <3>2. DOMAIN v = 1..Len(v) /\ Len(v) \in Nat
      BY <3>1
    <3>3. Cardinality(1..Len(v)) = Len(v)
      <4>1. ASSUME NEW n \in Nat PROVE Cardinality(1..n) = n
        <5>1. Cardinality(1..n) = IF 1 > n THEN 0 ELSE n - 1 + 1
          BY FS_Interval
        <5> QED
          BY <5>1
      <4> QED
        BY <3>2, <4>1
    <3>4. Size(r) = Len(v)
      BY <2>2 DEF Size, v
    <3> QED
      BY <3>2, <3>3, <3>4
  <2> QED
    BY <2>1, <2>2
<1> QED
  BY <1>7, <1>8, <1>11, <1>12

\* PB.LEN counts what PB.GET lists, and PB.APPEND replies with what PB.LEN then says.
THEOREM LengthsAgree == Spec => []LenAgrees
<1>1. Made => LenAgrees
  <2> SUFFICES ASSUME Made PROVE LenAgrees
    OBVIOUS
  <2>1. ASSUME NEW k \in Keys, NEW c \in Writes, c.op = "APPEND",
               Execute(db[k], c).reply.kind = "number"
        PROVE  LET r == Execute(db[k], c) IN
               \/ LenCmd(r.entry, c.type, c.fields) = r.reply
               \/ IsArrayElement(ConstRef(r.entry.msg, PathOf(c)))
    <3> DEFINE e == db[k]
    <3>1. IsEntry(e)
      BY DEF Made
    <3>2. Execute(e, c).reply.kind = "number"
      BY <2>1
    <3> HIDE DEF e
    <3>3. LET r == Execute(e, c) IN
          \/ LenCmd(r.entry, c.type, c.fields) = r.reply
          \/ IsArrayElement(ConstRef(r.entry.msg, PathOf(c)))
      BY <2>1, <3>1, <3>2, AppendLength
    <3> QED
      BY <3>3 DEF e
  <2>2. ASSUME NEW k \in Keys, NEW p \in Paths, Holds(db[k]),
               LET ref == Reading(db[k].msg, p) IN
               ref.err = None /\ IsArray(ref) /\ ref.sel = None
        PROVE  LenCmd(db[k], db[k].msg.type, p) = Number(Cardinality(DOMAIN Look(db[k], p).val))
    <3> DEFINE e == db[k]  a == e.msg
    <3>1. e = Entry(a, e.ttl) /\ WellMade(a)
      BY <2>2, HoldsMessage DEF Made, IsMessage
    <3>2. p \in Seq(DOMAIN Index) /\ p # <<>>
      BY PathsAssumption
    <3>3. Reading(a, p).err = None /\ IsArray(Reading(a, p)) /\ Reading(a, p).sel = None
      BY <2>2
    <3> HIDE DEF e, a
    <3>4. LenCmd(Entry(a, e.ttl), a.type, p) = Number(Cardinality(DOMAIN Look(Entry(a, e.ttl), p).val))
      BY <3>1, <3>2, <3>3, ListedLength
    <3>5. LenCmd(e, a.type, p) = Number(Cardinality(DOMAIN Look(e, p).val))
      BY <3>1, <3>4
    <3> QED
      BY <3>5 DEF e, a
  <2> QED
    BY <2>1, <2>2 DEF LenAgrees, EveryResult
<1> QED
  BY <1>1, SpecMade, PTL

-----------------------------------------------------------------------------
(***************************************************************************)
(* Where two paths part.  What a reference denotes is the same in two      *)
(* messages M and Y, and everything below it then is.                      *)
(***************************************************************************)
SameAt(x, M, Y) ==
    /\ M.type = x.type /\ Y.type = x.type
    /\ x.sel = None => Y.val[x.field] = M.val[x.field]
    /\ x.sel # None => Part(Y, Here(x)) = Part(M, Here(x))

LEMMA AtBelow ==
  ASSUME NEW S, NEW x, Sees(S, x), NEW b
  PROVE  At(b, Append(x.addr, Here(x))) = Part(At(b, x.addr), Here(x))
<1> DEFINE s == Here(x)
<1>1. PICK h : Stands(S, x, h)
  BY DEF Sees
<1>2. PICK A0 : x.addr \in Seq(A0)
  BY <1>1 DEF Stands, Leads, IsSeq
<1> DEFINE A == A0 \cup {s}
<1>3. x.addr \in Seq(A) /\ s \in A
  <2>1. \A i \in 1..Len(x.addr) : x.addr[i] \in A0
    BY <1>2
  <2> HIDE DEF s
  <2> QED
    BY <1>2, <2>1
<1> HIDE DEF A, s
<1>4. At(b, Append(x.addr, s)) = Part(At(b, x.addr), s)
  BY <1>3, AtAppend
<1> QED
  BY <1>4 DEF s

LEMMA SameFault ==
  ASSUME NEW x, x.field # None, NEW M, NEW Y, SameAt(x, M, Y), NEW seg
  PROVE  Fault(FALSE, Y, x, seg) = Fault(FALSE, M, x, seg)
<1>1. CASE AtMap(x)
  <2>1. ~AtPlace(x) /\ ~AtArray(x) /\ x.sel = None
    BY <1>1 DEF AtPlace, AtMap, AtArray
  <2> QED
    BY <1>1, <2>1 DEF Fault, SameAt
<1>2. CASE AtArray(x)
  <2>1. ~AtPlace(x) /\ ~AtMap(x) /\ x.sel = None
    BY <1>2 DEF AtPlace, AtMap, AtArray
  <2> QED
    BY <1>2, <2>1 DEF Fault, SameAt
<1>3. CASE AtPlace(x)
  <2>1. ~AtArray(x) /\ ~AtMap(x)
    BY <1>3 DEF AtPlace
  <2> QED
    BY <1>3, <2>1 DEF Fault
<1> QED
  BY <1>1, <1>2, <1>3 DEF AtPlace

LEMMA FieldNamed ==
  ASSUME NEW S, NEW x, NEW h, Points(S, x, h)
  PROVE  /\ x.field # None /\ IsFd(FieldOf(x))
         /\ x.type \in Types /\ x.field \in DOMAIN Schema[x.type]
  BY StandsAt, SchemaFd, FieldAssumption DEF Points, FieldOf

LEMMA AlikeOn ==
  ASSUME NEW S, NEW a, NEW b, NEW x, Sees(S, x), x.root = a, x.field # None,
         SameAt(x, Msg(x), Msg(Onto(x, b))), NEW seg,
         NEW k, k = Onward(x, seg, a), Advanced(x, k), NEW h, Points(S, k, h)
  PROVE  SameAt(k, Msg(k), Msg(Onto(k, b)))
<1> DEFINE M == Msg(x)  Y == Msg(Onto(x, b))
<1>1. /\ Onto(x, b).root = b /\ Onto(x, b).addr = x.addr
      /\ Onto(k, b).root = b /\ Onto(k, b).addr = k.addr
  BY OntoSame
<1>2. Y = At(b, x.addr) /\ Msg(Onto(k, b)) = At(b, k.addr)
  BY <1>1 DEF Msg
<1>3. M.type = x.type /\ Y.type = x.type
  BY DEF SameAt
<1> HIDE DEF M, Y
<1>4. CASE AtMap(x) \/ AtArray(x)
  <2>1. ~AtPlace(x) /\ x.sel = None
    BY <1>4 DEF AtPlace, AtMap, AtArray
  <2>2. PICK sel : k = Ref(a, x.addr, x.type, x.field, sel, None)
    BY <1>4, <2>1 DEF Onward, AtMap, AtArray
  <2>3. k.addr = x.addr /\ k.type = x.type /\ k.field = x.field
    BY <2>2, RefParts
  <2>4. Msg(k) = M /\ Msg(Onto(k, b)) = Y
    BY <1>2, <2>1, <2>3 DEF Advanced, M
  <2>5. Y.val[x.field] = M.val[x.field]
    BY <2>1 DEF SameAt, M, Y
  <2>6. Here(k).field = x.field
    BY <2>3 DEF Here
  <2>7. Part(Y, Here(k)) = Part(M, Here(k))
    BY <1>3, <2>5, <2>6 DEF Part, Field
  <2> QED
    BY <1>3, <2>3, <2>4, <2>5, <2>7 DEF SameAt
<1>5. CASE AtPlace(x)
  <2>1. ~AtMap(x) /\ ~AtArray(x)
    BY <1>5 DEF AtPlace
  <2>2. k.addr = Append(x.addr, Here(x)) /\ k.sel = None /\ Msg(k) = Part(M, Here(x))
    BY <1>5 DEF Advanced, M
  <2>3. Msg(Onto(k, b)) = Part(Y, Here(x))
    BY <1>2, <2>2, AtBelow
  <2>4. Part(Y, Here(x)) = Part(M, Here(x))
    <3>1. CASE x.sel = None
      <4>1. Here(x).field = x.field
        BY DEF Here
      <4> QED
        BY <1>3, <3>1, <4>1 DEF SameAt, Part, Field, M, Y
    <3>2. CASE x.sel # None
      BY <3>2 DEF SameAt, M, Y
    <3> QED
      BY <3>1, <3>2
  <2>5. Msg(k).type = k.type
    BY StandsAt DEF Points
  <2>6. Msg(Onto(k, b)) = Msg(k)
    BY <2>2, <2>3, <2>4
  <2> QED
    BY <2>2, <2>5, <2>6 DEF SameAt
<1> QED
  BY <1>4, <1>5 DEF AtPlace

\* The reading references that follow p in a and in b: stopped alike, or at the same.
Alike(a, b, p, i) ==
    LET c == On(FALSE, a, p, i)  d == On(FALSE, b, p, i) IN
    /\ d.err = c.err
    /\ c.err = None => /\ d = Onto(c, b) /\ c.field # None
                       /\ SameAt(c, Msg(c), Msg(Onto(c, b)))

LEMMA ReadStep ==
  ASSUME NEW S, Full(S), NEW a \in S, NEW p \in Seq(DOMAIN Index), NEW i \in 1..Len(p),
         On(FALSE, a, p, i).err = None
  PROVE  LET c == On(FALSE, a, p, i - 1)  k == On(FALSE, a, p, i) IN
         /\ c.err = None /\ Sees(S, c) /\ c.root = a
         /\ k = Onward(c, p[i], a) /\ Advanced(c, k)
         /\ \E h : Points(S, k, h)
<1> DEFINE c == On(FALSE, a, p, i - 1)  k == On(FALSE, a, p, i)
<1>1. i - 1 \in 0..Len(p) /\ i \in 0..Len(p)
  <2>1. Len(p) \in Nat
    OBVIOUS
  <2> HIDE DEF c, k
  <2> QED
    BY <2>1
<1>2. c.err = None
  BY ThrownBefore
<1>3. Beside(a, p, i - 1) /\ Beside(a, p, i)
  BY <1>1, SideBySide
<1>4. View(a, p, i - 1) = c /\ View(a, p, i) = k /\ On(TRUE, a, p, i).err = None
  BY <1>2, <1>3 DEF Beside
<1>5. LET l == View(a, p, i - 1)  q == View(a, p, i) IN
      /\ Sees(S, l) /\ l.root = a /\ q = Onward(l, p[i], a) /\ Advanced(l, q)
      /\ \E h : Points(S, q, h)
  <2>1. Stepped(S, a, p, i)
    BY <1>4, ViewStep
  <2> QED
    BY <2>1 DEF Stepped
<1> HIDE DEF c, k
<1>6. Sees(S, c) /\ c.root = a /\ k = Onward(c, p[i], a) /\ Advanced(c, k)
      /\ \E h : Points(S, k, h)
  BY <1>4, <1>5
<1> QED
  BY <1>2, <1>6 DEF c, k

LEMMA AlikeNext ==
  ASSUME NEW S, Full(S), NEW a \in S, NEW b, NEW p \in Seq(DOMAIN Index), NEW i \in 1..Len(p),
         Alike(a, b, p, i - 1)
  PROVE  Alike(a, b, p, i)
<1> DEFINE c == On(FALSE, a, p, i - 1)  k == On(FALSE, a, p, i)
           d == On(FALSE, b, p, i - 1)  q == On(FALSE, b, p, i)
           seg == p[i]
<1>1. /\ c.err # None => k = c
      /\ c.err = None => /\ k.err = Fault(FALSE, Msg(c), c, seg)
                         /\ k.err = None => k = Onward(c, seg, a)
  BY ConstStep
<1>2. /\ d.err # None => q = d
      /\ d.err = None => /\ q.err = Fault(FALSE, Msg(d), d, seg)
                         /\ q.err = None => q = Onward(d, seg, b)
  BY ConstStep
<1>3. /\ d.err = c.err
      /\ c.err = None => /\ d = Onto(c, b) /\ c.field # None
                         /\ SameAt(c, Msg(c), Msg(Onto(c, b)))
  BY DEF Alike
<1>4. k.err = None => /\ Sees(S, c) /\ c.root = a /\ Advanced(c, k) /\ \E h : Points(S, k, h)
  BY ReadStep
<1> HIDE DEF c, k, d, q, seg
<1>5. CASE c.err # None
  <2>1. q.err = k.err /\ k.err # None
    BY <1>1, <1>2, <1>3, <1>5
  <2> QED
    BY <2>1 DEF Alike, k, q
<1>6. CASE c.err = None
  <2>1. \A M : Fault(FALSE, M, Onto(c, b), seg) = Fault(FALSE, M, c, seg)
    BY FaultOnto
  <2>2. Fault(FALSE, Msg(Onto(c, b)), c, seg) = Fault(FALSE, Msg(c), c, seg)
    BY <1>3, <1>6, SameFault
  <2>3. q.err = k.err
    BY <1>1, <1>2, <1>3, <1>6, <2>1, <2>2
  <2>4. ASSUME k.err = None
        PROVE  q = Onto(k, b) /\ k.field # None /\ SameAt(k, Msg(k), Msg(Onto(k, b)))
    <3>1. k = Onward(c, seg, a) /\ q = Onward(d, seg, b)
      BY <1>1, <1>2, <1>3, <1>6, <2>3, <2>4
    <3>2. Onward(Onto(c, b), seg, b) = Onward(c, seg, b)
      BY OntoOnward
    <3>3. Onto(Onward(c, seg, a), b) = Onward(c, seg, b)
      BY OnwardOnto
    <3>4. q = Onto(k, b)
      BY <1>3, <1>6, <3>1, <3>2, <3>3
    <3>5. PICK h : Points(S, k, h)
      BY <1>4, <2>4
    <3>6. k.field # None
      BY <3>5, FieldNamed
    <3>7. SameAt(k, Msg(k), Msg(Onto(k, b)))
      BY <1>3, <1>4, <1>6, <2>4, <3>1, <3>5, AlikeOn
    <3> QED
      BY <3>4, <3>6, <3>7
  <2> QED
    BY <2>3, <2>4 DEF Alike, k, q
<1> QED
  BY <1>5, <1>6

LEMMA AlikeToTheEnd ==
  ASSUME NEW S, Full(S), NEW a \in S, NEW b, NEW p \in Seq(DOMAIN Index), NEW i \in 0..Len(p),
         Alike(a, b, p, i)
  PROVE  Alike(a, b, p, Len(p))
<1> DEFINE n == Len(p)  I == {j \in 0..n : j >= i => Alike(a, b, p, j)}
<1>1. n \in Nat
  OBVIOUS
<1>2. \A j \in 1..n : Alike(a, b, p, j - 1) => Alike(a, b, p, j)
  BY AlikeNext
<1>3. Alike(a, b, p, i) /\ i \in 0..n
  OBVIOUS
<1> HIDE DEF n
<1>4. 0 \in I
  BY <1>1, <1>3
<1>5. ASSUME NEW j \in 1..n, j - 1 \in I PROVE j \in I
  <2>1. CASE j = i
    BY <1>3, <2>1
  <2>2. CASE j # i
    BY <1>1, <1>2, <1>3, <1>5, <2>2
  <2> QED
    BY <2>1, <2>2
<1>6. \A j \in 0..n : j \in I
  <2> HIDE DEF I
  <2> QED
    BY <1>1, <1>4, <1>5, InductTo
<1>7. Alike(a, b, p, n)
  BY <1>1, <1>3, <1>6
<1> QED
  BY <1>7 DEF n

\* What is at l and one level up in a message that differs only at k, one step further.
LEMMA PartsOnward ==
  ASSUME NEW S, Full(S), NEW a, NEW l, Sees(S, l), l.root = a, NEW seg, NEW Y,
         NEW k, k = Onward(l, seg, a), Advanced(l, k), SameBut(k, Y)
  PROVE  /\ AtPlace(l) => Part(Up(l, Y), Here(l)) = Y /\ Msg(k) = Part(Msg(l), Here(l))
         /\ ~AtPlace(l) => Up(l, Y) = Y /\ Msg(k) = Msg(l)
<1>1. ASSUME AtPlace(l)
      PROVE  Part(Up(l, Y), Here(l)) = Y /\ Msg(k) = Part(Msg(l), Here(l))
  <2>1. StepOK(Msg(l), Here(l)) /\ Msg(k) = Part(Msg(l), Here(l))
    BY <1>1 DEF Advanced
  <2>2. Msg(l) \in S
    BY StandsAt DEF Sees
  <2>3. Part(WithPart(Msg(l), Here(l), Y), Here(l)) = Y
    BY <2>1, <2>2, WithPartLaws
  <2> QED
    BY <1>1, <2>1, <2>3 DEF Up
<1>2. ASSUME ~AtPlace(l) PROVE Up(l, Y) = Y /\ Msg(k) = Msg(l)
  BY <1>2 DEF Up, Advanced
<1> QED
  BY <1>1, <1>2

\* Keys and indexes that two distinct segments name are distinct.
LEMMA KeysApart ==
  ASSUME NEW l, l.type \in Types, l.field \in DOMAIN Schema[l.type],
         NEW seg, NEW other, Distinct(other, seg)
  PROVE  /\ other # seg
         /\ IsMap(l) /\ KeyOf(l, other) # None => KeyOf(l, other) # KeyOf(l, seg)
         /\ Index[other] # None => Index[other] # Index[seg]
<1>1. IsMap(l) => FieldOf(l).key \in {"int", "string"}
  BY SchemaAssumption DEF IsMap, FieldOf, Types
<1> QED
  BY <1>1 DEF Distinct, KeyOf

\* The reader turns off where the writer went on, and finds nothing changed.
StaysOff(l, Y, other) == Fault(FALSE, Up(l, Y), l, other) = Fault(FALSE, Msg(l), l, other)

LEMMA TurnsOff ==
  ASSUME NEW S, Full(S), NEW a, NEW l, Sees(S, l), l.root = a, NEW seg, NEW Y,
         Fault(TRUE, Msg(l), l, seg) = None,
         NEW k, k = Onward(l, seg, a), Advanced(l, k), NEW h, Points(S, k, h), SameBut(k, Y),
         NEW other, other \in DOMAIN Index, Distinct(other, seg)
  PROVE  StaysOff(l, Y, other)
<1> SUFFICES Fault(FALSE, Up(l, Y), l, other) = Fault(FALSE, Msg(l), l, other)
  BY DEF StaysOff
<1> DEFINE M == Msg(l)  U == Up(l, Y)
<1>1. ~AtPlace(l) => U = Y /\ Msg(k) = M
  BY PartsOnward
<1>2. IsFd(FieldOf(k)) /\ k.type \in Types /\ k.field \in DOMAIN Schema[k.type]
  BY FieldNamed
<1> HIDE DEF M, U
<1>3. CASE l.field = None
  <2>1. ~AtPlace(l) /\ ~AtMap(l) /\ ~AtArray(l)
    BY <1>3 DEF AtPlace, AtMap, AtArray
  <2> QED
    BY <1>3, <2>1 DEF Fault, M, U
<1>4. CASE AtMap(l)
  <2>1. ~AtPlace(l) /\ ~AtArray(l) /\ l.field # None /\ l.sel = None /\ IsMap(l)
    BY <1>4 DEF AtPlace, AtMap, AtArray
  <2>2. k = Ref(a, l.addr, l.type, l.field, KeyOf(l, seg), None)
    BY <1>4, <2>1 DEF Onward
  <2>3. k.type = l.type /\ k.field = l.field /\ k.sel = KeyOf(l, seg)
    BY <2>2, RefParts
  <2>4. KeyOf(l, seg) # None
    BY <1>4, <2>1, NoneAssumption DEF Fault
  <2>5. FieldOf(k) = FieldOf(l) /\ FieldOf(l).label = "map"
    BY <2>1, <2>3 DEF IsMap, FieldOf
  <2>6. SameEntries(FieldOf(k), k.sel, Msg(k).val[k.field], Y.val[k.field])
    BY <2>1, <2>3, <2>4 DEF SameBut
  <2>7. KeyOf(l, other) # None => KeyOf(l, other) # KeyOf(l, seg)
    BY <1>2, <2>1, <2>3, KeysApart
  <2>8. KeyOf(l, other) # None =>
          (KeyOf(l, other) \in DOMAIN U.val[l.field] <=> KeyOf(l, other) \in DOMAIN M.val[l.field])
    BY <1>1, <2>1, <2>3, <2>5, <2>6, <2>7 DEF SameEntries
  <2> QED
    BY <1>4, <2>1, <2>8 DEF Fault, M, U
<1>5. CASE AtArray(l)
  <2>1. ~AtPlace(l) /\ ~AtMap(l) /\ l.field # None /\ l.sel = None /\ ~IsMap(l) /\ IsArray(l)
    BY <1>5 DEF AtPlace, AtMap, AtArray
  <2>2. k = Ref(a, l.addr, l.type, l.field, Index[seg], None)
    BY <1>5, <2>1 DEF Onward
  <2>3. k.type = l.type /\ k.field = l.field /\ k.sel = Index[seg]
    BY <2>2, RefParts
  <2>4. Index[seg] # None
    BY <1>5, <2>1, NoneAssumption DEF Fault
  <2>5. FieldOf(k) = FieldOf(l)
    BY <2>3 DEF FieldOf
  <2>6. FieldOf(l).label = "array"
    BY <1>2, <2>1, <2>5 DEF IsMap, IsArray, IsFd
  <2>7. SameEntries(FieldOf(k), k.sel, Msg(k).val[k.field], Y.val[k.field])
    BY <2>1, <2>3, <2>4 DEF SameBut
  <2>8. Len(U.val[l.field]) = Len(M.val[l.field])
    BY <1>1, <2>1, <2>3, <2>5, <2>6, <2>7 DEF SameEntries
  <2> QED
    BY <1>5, <2>1, <2>8 DEF Fault, M, U
<1>6. CASE AtPlace(l)
  <2>1. ~AtMap(l) /\ ~AtArray(l) /\ l.field # None
    BY <1>6 DEF AtPlace
  <2> QED
    BY <1>6, <2>1 DEF Fault, M, U
<1> QED
  BY <1>3, <1>4, <1>5, <1>6 DEF AtPlace

LEMMA TurnedOff ==
  ASSUME NEW S, Full(S), NEW a, NEW b, NEW l, Sees(S, l), l.root = a, NEW seg, NEW Y,
         Fault(TRUE, Msg(l), l, seg) = None,
         NEW k, k = Onward(l, seg, a), Advanced(l, k), NEW h, Points(S, k, h), SameBut(k, Y),
         NEW other, other \in DOMAIN Index, Distinct(other, seg),
         Fault(FALSE, Msg(l), l, other) = None,
         NEW q, q = Onward(l, other, a), Advanced(l, q), NEW g, Points(S, q, g),
         Msg(Onto(l, b)) = Up(l, Y)
  PROVE  SameAt(q, Msg(q), Msg(Onto(q, b)))
<1> DEFINE M == Msg(l)  U == Up(l, Y)
<1>1. /\ AtPlace(l) => Part(U, Here(l)) = Y /\ Msg(k) = Part(M, Here(l))
      /\ ~AtPlace(l) => U = Y /\ Msg(k) = M
  BY PartsOnward
<1>2. IsFd(FieldOf(k)) /\ k.field # None /\ k.type \in Types /\ k.field \in DOMAIN Schema[k.type]
  BY FieldNamed
<1>3. /\ Msg(k).type = k.type /\ Msg(q).type = q.type
      /\ k.field \in DOMAIN Schema[k.type] /\ q.field \in DOMAIN Schema[q.type]
  BY StandsAt DEF Points
<1>4. Y.type = k.type
  BY DEF SameBut
<1>5. other # seg
  BY DEF Distinct
<1>6. /\ Onto(l, b).root = b /\ Onto(l, b).addr = l.addr
      /\ Onto(q, b).root = b /\ Onto(q, b).addr = q.addr
  BY OntoSame
<1>7. U = At(b, l.addr) /\ Msg(Onto(q, b)) = At(b, q.addr)
  BY <1>6 DEF Msg
<1> HIDE DEF M, U
<1>8. CASE l.field = None
  <2>1. ~AtPlace(l) /\ ~AtMap(l) /\ ~AtArray(l)
    BY <1>8 DEF AtPlace, AtMap, AtArray
  <2>2. /\ k = Ref(a, l.addr, l.type, seg, None, None)
        /\ q = Ref(a, l.addr, l.type, other, None, None)
    BY <1>8, <2>1 DEF Onward
  <2>3. /\ k.type = l.type /\ k.field = seg
        /\ q.type = l.type /\ q.field = other /\ q.sel = None /\ q.addr = l.addr
    BY <2>2, RefParts
  <2>4. Msg(q) = M /\ Msg(Onto(q, b)) = Y
    BY <1>1, <1>7, <2>1, <2>3 DEF Advanced, M
  <2>5. Y.val[other] = Msg(k).val[other]
    BY <1>2, <1>3, <1>5, <2>3 DEF SameBut
  <2> QED
    BY <1>1, <1>3, <1>4, <2>1, <2>3, <2>4, <2>5 DEF SameAt
<1>9. CASE AtMap(l)
  <2>1. ~AtPlace(l) /\ ~AtArray(l) /\ l.field # None /\ l.sel = None /\ IsMap(l)
    BY <1>9 DEF AtPlace, AtMap, AtArray
  <2>2. /\ k = Ref(a, l.addr, l.type, l.field, KeyOf(l, seg), None)
        /\ q = Ref(a, l.addr, l.type, l.field, KeyOf(l, other), None)
    BY <1>9, <2>1 DEF Onward
  <2>3. /\ k.type = l.type /\ k.field = l.field /\ k.sel = KeyOf(l, seg)
        /\ q.type = l.type /\ q.field = l.field /\ q.sel = KeyOf(l, other) /\ q.addr = l.addr
    BY <2>2, RefParts
  <2>4. KeyOf(l, seg) # None /\ KeyOf(l, other) # None
    BY <1>9, <2>1, NoneAssumption DEF Fault
  <2>5. FieldOf(k) = FieldOf(l) /\ FieldOf(l).label = "map"
    BY <2>1, <2>3 DEF IsMap, FieldOf
  <2>6. SameEntries(FieldOf(k), k.sel, Msg(k).val[k.field], Y.val[k.field])
    BY <2>1, <2>3, <2>4 DEF SameBut
  <2>7. KeyOf(l, other) # KeyOf(l, seg)
    BY <1>2, <2>1, <2>3, <2>4, KeysApart
  <2>8. Msg(q) = M /\ Msg(Onto(q, b)) = Y
    BY <1>1, <1>7, <2>1, <2>3 DEF Advanced, M
  <2> DEFINE v == M.val[l.field]  w == Y.val[l.field]  x == KeyOf(l, other)
  <2>9. (x \in DOMAIN w <=> x \in DOMAIN v) /\ (x \in DOMAIN v => w[x] = v[x])
    <3>1. Msg(k) = M
      BY <1>1, <2>1
    <3> QED
      BY <2>3, <2>5, <2>6, <2>7, <3>1 DEF SameEntries
  <2>10. Here(q).field = l.field /\ Here(q).sel = x
    BY <2>3 DEF Here
  <2>11. M.type = l.type /\ Field(M, l.field) = FieldOf(l) /\ Field(Y, l.field) = FieldOf(l)
    BY <1>3, <1>4, <2>3, <2>8 DEF Field, FieldOf
  <2>12. Part(Y, Here(q)) = Part(M, Here(q))
    <3> HIDE DEF x
    <3> QED
      BY <2>5, <2>9, <2>10, <2>11 DEF Part
  <2> QED
    BY <1>3, <1>4, <2>3, <2>4, <2>8, <2>12 DEF SameAt
<1>10. CASE AtArray(l)
  <2>1. ~AtPlace(l) /\ ~AtMap(l) /\ l.field # None /\ l.sel = None /\ ~IsMap(l) /\ IsArray(l)
    BY <1>10 DEF AtPlace, AtMap, AtArray
  <2>2. /\ k = Ref(a, l.addr, l.type, l.field, Index[seg], None)
        /\ q = Ref(a, l.addr, l.type, l.field, Index[other], None)
    BY <1>10, <2>1 DEF Onward
  <2>3. /\ k.type = l.type /\ k.field = l.field /\ k.sel = Index[seg]
        /\ q.type = l.type /\ q.field = l.field /\ q.sel = Index[other] /\ q.addr = l.addr
    BY <2>2, RefParts
  <2>4. Index[seg] # None /\ Index[other] # None
    BY <1>10, <2>1, NoneAssumption DEF Fault
  <2>5. FieldOf(k) = FieldOf(l)
    BY <2>3 DEF FieldOf
  <2>6. FieldOf(l).label = "array"
    BY <1>2, <2>1, <2>5 DEF IsMap, IsArray, IsFd
  <2>7. SameEntries(FieldOf(k), k.sel, Msg(k).val[k.field], Y.val[k.field])
    BY <2>1, <2>3, <2>4 DEF SameBut
  <2>8. Msg(q) = M /\ Msg(Onto(q, b)) = Y
    BY <1>1, <1>7, <2>1, <2>3 DEF Advanced, M
  <2> DEFINE v == M.val[l.field]  w == Y.val[l.field]  x == Index[other]
  <2>9. x \in 0..(Len(v) - 1) /\ Len(v) \in Nat
    <3>1. ~(x >= Len(v) \/ x < 0)
      BY <1>10, <2>1, <2>4, NoneAssumption DEF Fault, M
    <3>2. x \in Int
      BY <2>4, IndexAssumption
    <3>3. Len(v) \in Nat
      <4>1. Msg(k) = M
        BY <1>1, <2>1
      <4> QED
        BY <2>3, <2>5, <2>6, <2>7, <4>1 DEF SameEntries
    <3> HIDE DEF v, x
    <3> QED
      BY <3>1, <3>2, <3>3
  <2>10. w[x + 1] = v[x + 1]
    <3>1. Msg(k) = M
      BY <1>1, <2>1
    <3>2. \A i \in 1..Len(v) : i # Index[seg] + 1 => w[i] = v[i]
      BY <2>3, <2>5, <2>6, <2>7, <3>1 DEF SameEntries
    <3>3. Index[seg] \in 0..(Len(v) - 1)
      BY <2>3, <2>5, <2>6, <2>7, <3>1 DEF SameEntries
    <3>4. x # Index[seg]
      BY <2>4 DEF Distinct
    <3> HIDE DEF x, v, w
    <3> QED
      BY <2>9, <3>2, <3>3, <3>4
  <2>11. Here(q).field = l.field /\ Here(q).sel = x
    BY <2>3 DEF Here
  <2>12. M.type = l.type /\ Field(M, l.field) = FieldOf(l) /\ Field(Y, l.field) = FieldOf(l)
    BY <1>3, <1>4, <2>3, <2>8 DEF Field, FieldOf
  <2>13. Part(Y, Here(q)) = Part(M, Here(q))
    <3> HIDE DEF x
    <3> QED
      BY <2>6, <2>10, <2>11, <2>12 DEF Part
  <2> QED
    BY <1>3, <1>4, <2>3, <2>4, <2>8, <2>13 DEF SameAt
<1>11. CASE AtPlace(l)
  <2>1. ~AtMap(l) /\ ~AtArray(l) /\ l.field # None
    BY <1>11 DEF AtPlace
  <2>2. /\ k = Ref(a, Append(l.addr, Here(l)), FieldOf(l).of, seg, None, None)
        /\ q = Ref(a, Append(l.addr, Here(l)), FieldOf(l).of, other, None, None)
    BY <1>11, <2>1 DEF Onward
  <2>3. /\ k.type = FieldOf(l).of /\ k.field = seg
        /\ q.type = FieldOf(l).of /\ q.field = other /\ q.sel = None
        /\ q.addr = Append(l.addr, Here(l))
    <3> DEFINE addr == Append(l.addr, Here(l))  type == FieldOf(l).of
    <3> HIDE DEF addr, type
    <3>1. k = Ref(a, addr, type, seg, None, None) /\ q = Ref(a, addr, type, other, None, None)
      BY <2>2 DEF addr, type
    <3>2. /\ k.type = type /\ k.field = seg
          /\ q.type = type /\ q.field = other /\ q.sel = None /\ q.addr = addr
      BY <3>1, RefParts
    <3> QED
      BY <3>2 DEF addr, type
  <2>4. Msg(q) = Part(M, Here(l))
    BY <1>11 DEF Advanced, M
  <2>5. Msg(Onto(q, b)) = Y
    BY <1>1, <1>7, <1>11, <2>3, AtBelow
  <2>6. Y.val[other] = Msg(k).val[other]
    BY <1>2, <1>3, <1>5, <2>3 DEF SameBut
  <2> QED
    BY <1>1, <1>3, <1>4, <1>11, <2>3, <2>4, <2>5, <2>6 DEF SameAt
<1> QED
  BY <1>8, <1>9, <1>10, <1>11 DEF AtPlace

LEMMA Parting ==
  ASSUME NEW S, Full(S), NEW a \in S, NEW p \in Seq(DOMAIN Index), NEW q \in Seq(DOMAIN Index),
         NEW b, On(TRUE, a, p, Len(p)).err = None, ChangedAt(a, p, b, Len(p)),
         NEW i \in 1..Len(p), i \in 1..Len(q), SubSeq(p, 1, i - 1) = SubSeq(q, 1, i - 1),
         Distinct(q[i], p[i]), On(FALSE, a, q, i - 1).err = None
  PROVE  Alike(a, b, q, i)
<1>0. Len(p) \in Nat
  OBVIOUS
<1>1. i \in 0..Len(p) /\ i - 1 \in 0..Len(p)
  BY <1>0
<1>2. On(TRUE, a, p, i).err = None /\ ChangedAt(a, p, b, i)
  BY <1>1, ChangedAbove
<1>25. On(TRUE, a, p, i).err = None
  BY <1>2
<1>26. i \in 1..Len(p)
  OBVIOUS
<1>27. Stepped(S, a, p, i)
  BY <1>25, <1>26, ViewStep
<1> DEFINE l == View(a, p, i - 1)  k == View(a, p, i)  seg == p[i]
<1>4. /\ On(TRUE, a, p, i - 1).err = None
      /\ Sees(S, l) /\ l.err = None /\ l.root = a
      /\ Fault(TRUE, Msg(l), l, seg) = None
      /\ k = Onward(l, seg, a) /\ Advanced(l, k) /\ \E h : Points(S, k, h)
  BY <1>27 DEF Stepped
<1>3. PICK Y : SameBut(k, Y) /\ b = PutAt(a, k.addr, Y)
  BY <1>2 DEF ChangedAt
<1> DEFINE other == q[i]
           c == On(FALSE, a, q, i - 1)  c1 == On(FALSE, a, q, i)
           d == On(FALSE, b, q, i - 1)  d1 == On(FALSE, b, q, i)
<1>5. b = PutAt(a, l.addr, Up(l, Y)) /\ SameBut(l, Up(l, Y))
  BY <1>2, <1>3, UpIs
<1>6. ReadsBack(a, p, i - 1)
  BY <1>1, ReadBack
<1>7. On(FALSE, b, p, i - 1) = Onto(l, b) /\ Msg(Onto(l, b)) = Up(l, Y)
  BY <1>4, <1>5, <1>6 DEF ReadsBack
<1>8. c = On(FALSE, a, p, i - 1) /\ d = On(FALSE, b, p, i - 1)
  BY OnShared
<1>9. Beside(a, p, i - 1)
  BY <1>1, SideBySide
<1>10. l = c
  BY <1>8, <1>9 DEF Beside
<1>11. /\ c1.err = Fault(FALSE, Msg(c), c, other)
       /\ c1.err = None => c1 = Onward(c, other, a)
  BY ConstStep
<1>12. d.err = None => /\ d1.err = Fault(FALSE, Msg(d), d, other)
                       /\ d1.err = None => d1 = Onward(d, other, b)
  BY ConstStep
<1>13. c1.err = None => Advanced(c, c1) /\ \E h : Points(S, c1, h)
  BY ReadStep
<1>14. other \in DOMAIN Index /\ Distinct(other, seg)
  OBVIOUS
<1> HIDE DEF l, k, seg, other, c, c1, d, d1
<1>15. d = Onto(l, b) /\ d.err = None
  <2>1. d = Onto(l, b)
    BY <1>7, <1>8
  <2>2. Onto(l, b).err = l.err
    BY OntoSame
  <2> QED
    BY <1>4, <2>1, <2>2
<1>16. \A M : Fault(FALSE, M, Onto(l, b), other) = Fault(FALSE, M, l, other)
  BY FaultOnto
<1>17. PICK h : Points(S, k, h)
  BY <1>4
<1>18. Fault(FALSE, Up(l, Y), l, other) = Fault(FALSE, Msg(l), l, other)
  <2>1. Sees(S, l) /\ l.root = a /\ Fault(TRUE, Msg(l), l, seg) = None
    BY <1>4
  <2>2. k = Onward(l, seg, a) /\ Advanced(l, k)
    BY <1>4
  <2>3. StaysOff(l, Y, other)
    BY <2>1, <2>2, <1>3, <1>14, <1>17, TurnsOff
  <2> QED
    BY <2>3 DEF StaysOff
<1>19. d1.err = c1.err
  BY <1>7, <1>10, <1>11, <1>12, <1>15, <1>16, <1>18
<1>20. ASSUME c1.err = None
       PROVE  d1 = Onto(c1, b) /\ c1.field # None /\ SameAt(c1, Msg(c1), Msg(Onto(c1, b)))
  <2>1. c1 = Onward(l, other, a) /\ d1 = Onward(d, other, b)
    BY <1>10, <1>11, <1>12, <1>15, <1>19, <1>20
  <2>2. Onward(Onto(l, b), other, b) = Onward(l, other, b)
    BY OntoOnward
  <2>3. Onto(Onward(l, other, a), b) = Onward(l, other, b)
    BY OnwardOnto
  <2>4. d1 = Onto(c1, b)
    BY <1>15, <2>1, <2>2, <2>3
  <2>5. PICK g : Points(S, c1, g)
    BY <1>13, <1>20
  <2>6. Advanced(l, c1) /\ Fault(FALSE, Msg(l), l, other) = None
    BY <1>10, <1>11, <1>13, <1>20
  <2>7. SameAt(c1, Msg(c1), Msg(Onto(c1, b)))
    BY <1>3, <1>4, <1>7, <1>14, <1>17, <2>1, <2>5, <2>6, TurnedOff
  <2>8. c1.field # None
    BY <2>5, FieldNamed
  <2> QED
    BY <2>4, <2>7, <2>8
<1> QED
  BY <1>19, <1>20 DEF Alike, c1, d1

LEMMA Settles ==
  ASSUME NEW n \in Nat, NEW i \in 0..n, NEW f,
         \A j \in 1..n : f[j - 1] = f[i] => f[j] = f[i]
  PROVE  f[n] = f[i]
<1> DEFINE I == {j \in 0..n : j >= i => f[j] = f[i]}
<1>1. 0 \in I
  OBVIOUS
<1>2. ASSUME NEW j \in 1..n, j - 1 \in I PROVE j \in I
  <2>1. CASE j - 1 >= i
    BY <1>2, <2>1
  <2>2. CASE ~(j - 1 >= i)
    BY <2>2
  <2> QED
    BY <2>1, <2>2
<1>3. \A j \in 0..n : j \in I
  <2> HIDE DEF I
  <2> QED
    BY <1>1, <1>2, InductTo
<1> QED
  BY <1>3

LEMMA ThrownStays ==
  ASSUME NEW a, NEW p \in Seq(DOMAIN Index), NEW i \in 0..Len(p), On(FALSE, a, p, i).err # None
  PROVE  On(FALSE, a, p, Len(p)) = On(FALSE, a, p, i)
<1> DEFINE f == [j \in 0..Len(p) |-> On(FALSE, a, p, j)]
<1>1. Len(p) \in Nat
  OBVIOUS
<1>2. \A j \in 1..Len(p) : On(FALSE, a, p, j - 1).err # None => On(FALSE, a, p, j) = On(FALSE, a, p, j - 1)
  BY ConstStep
<1>3. \A j \in 0..Len(p) : f[j] = On(FALSE, a, p, j)
  OBVIOUS
<1>4. \A j \in 1..Len(p) : j \in 0..Len(p) /\ j - 1 \in 0..Len(p)
  BY <1>1
<1>5. Len(p) \in 0..Len(p)
  BY <1>1
<1> HIDE DEF f
<1>6. \A j \in 1..Len(p) : f[j - 1] = f[i] => f[j] = f[i]
  BY <1>2, <1>3, <1>4
<1>7. f[Len(p)] = f[i]
  BY <1>1, <1>6, Settles
<1> QED
  BY <1>3, <1>5, <1>7

\* What is the same is also listed the same.
LEMMA AlikeLooks ==
  ASSUME NEW a, NEW b, NEW p \in Seq(DOMAIN Index), Alike(a, b, p, Len(p))
  PROVE  GetField(Reading(b, p), TRUE) = GetField(Reading(a, p), TRUE)
<1> DEFINE c == Reading(a, p)  d == Reading(b, p)
<1>1. c = On(FALSE, a, p, Len(p)) /\ d = On(FALSE, b, p, Len(p))
  BY ConstOn DEF Reading
<1> HIDE DEF c, d
<1>2. /\ d.err = c.err
      /\ c.err = None => d = Onto(c, b) /\ SameAt(c, Msg(c), Msg(Onto(c, b)))
  BY <1>1 DEF Alike
<1>3. CASE c.err # None
  <2>0. None # "abort"
    BY NoneAssumption
  <2>1. CASE c.err = "abort"
    <3>1. GetField(c, TRUE) = Abort
      BY <2>0, <2>1 DEF GetField
    <3>2. GetField(d, TRUE) = Abort
      BY <1>2, <2>0, <2>1 DEF GetField
    <3> QED
      BY <3>1, <3>2 DEF c, d
  <2>2. CASE c.err # "abort"
    <3>1. GetField(c, TRUE) = Error(c.err)
      BY <1>3, <2>0, <2>2 DEF GetField
    <3>2. GetField(d, TRUE) = Error(d.err)
      BY <1>2, <1>3, <2>0, <2>2 DEF GetField
    <3> QED
      BY <1>2, <3>1, <3>2 DEF c, d
  <2> QED
    BY <2>1, <2>2
<1>4. CASE c.err = None
  <2>1. d = Onto(c, b) /\ SameAt(c, Msg(c), Msg(d))
    BY <1>2, <1>4
  <2>2. /\ d.sel = c.sel /\ d.field = c.field /\ d.type = c.type /\ d.err = None
        /\ FieldOf(d) = FieldOf(c) /\ Here(d) = Here(c)
    BY <1>4, <2>1, OntoSame
  <2>3. (IsMap(d) <=> IsMap(c)) /\ (IsArray(d) <=> IsArray(c))
    BY <2>2 DEF IsMap, IsArray
  <2>4. CASE c.sel = None /\ IsArray(c)
    <3>1. Msg(d).val[d.field] = Msg(c).val[c.field]
      BY <2>1, <2>2, <2>4 DEF SameAt
    <3>2. /\ GetField(d, TRUE) = LET v == Msg(d).val[d.field] IN Value([i \in DOMAIN v |-> Value(v[i])])
          /\ GetField(c, TRUE) = LET v == Msg(c).val[c.field] IN Value([i \in DOMAIN v |-> Value(v[i])])
      BY <1>4, <2>2, <2>3, <2>4, ListIs
    <3> QED
      BY <3>1, <3>2 DEF c, d
  <2>5. CASE ~(c.sel = None /\ IsArray(c))
    <3>1. ~(c.sel = None /\ IsMap(c))
      BY <2>5 DEF IsMap, IsArray
    <3>2. GetField(d, TRUE) = GetElement(FieldOf(d).kind, Get(d), TRUE)
      BY <2>2, <2>3, <2>5, <3>1, NoneAssumption DEF GetField
    <3>3. GetField(c, TRUE) = GetElement(FieldOf(c).kind, Get(c), TRUE)
      BY <1>4, <2>5, <3>1, NoneAssumption DEF GetField
    <3>4. Part(Msg(d), Here(c)) = Part(Msg(c), Here(c))
      <4>1. CASE c.sel = None
        <5>1. Here(c).field = c.field
          BY DEF Here
        <5>2. Msg(d).type = Msg(c).type /\ Msg(d).val[c.field] = Msg(c).val[c.field]
          BY <2>1, <4>1 DEF SameAt
        <5> QED
          BY <5>1, <5>2 DEF Part, Field
      <4>2. CASE c.sel # None
        BY <2>1, <4>2 DEF SameAt
      <4> QED
        BY <4>1, <4>2
    <3>5. Get(d) = Get(c)
      BY <2>2, <3>4 DEF Get
    <3> QED
      BY <2>2, <3>2, <3>3, <3>5 DEF c, d
  <2> QED
    BY <2>4, <2>5
<1> QED
  BY <1>3, <1>4

\* A path that parts from the command's either finds what it found before, or did not get
\* to where they part.
LEMMA LookElsewhere ==
  ASSUME NEW S, Full(S), NEW a \in S, NEW p \in Seq(DOMAIN Index), NEW q \in Seq(DOMAIN Index),
         NEW b, On(TRUE, a, p, Len(p)).err = None, ChangedAt(a, p, b, Len(p)), Apart(q, p)
  PROVE  \/ GetField(Reading(b, q), TRUE) = GetField(Reading(a, q), TRUE)
         \/ Reading(a, q).err = "no key" /\ Reading(a, p).err # None
<1>1. PICK i \in DOMAIN q \cap DOMAIN p :
        SubSeq(q, 1, i - 1) = SubSeq(p, 1, i - 1) /\ Distinct(q[i], p[i])
  BY DEF Apart
<1>2. i \in 1..Len(p) /\ i \in 1..Len(q) /\ Len(p) \in Nat /\ Len(q) \in Nat
  OBVIOUS
<1>3. i - 1 \in 0..Len(p) /\ i - 1 \in 0..Len(q) /\ i \in 0..Len(q) /\ i \in 0..Len(p)
  BY <1>2
<1>4. CASE On(FALSE, a, q, i - 1).err = None
  <2>1. Alike(a, b, q, i)
    BY <1>1, <1>2, <1>4, Parting
  <2>2. Alike(a, b, q, Len(q))
    BY <1>3, <2>1, AlikeToTheEnd
  <2> QED
    BY <2>2, AlikeLooks
<1>5. CASE On(FALSE, a, q, i - 1).err # None
  <2>1. On(FALSE, a, q, Len(q)) = On(FALSE, a, q, i - 1)
    BY <1>3, <1>5, ThrownStays
  <2>2. On(FALSE, a, p, i - 1) = On(FALSE, a, q, i - 1)
    BY <1>1, OnShared
  <2>3. On(FALSE, a, p, Len(p)) = On(FALSE, a, p, i - 1)
    BY <1>3, <1>5, <2>2, ThrownStays
  <2>4. Beside(a, p, Len(p))
    <3>1. Len(p) \in 0..Len(p)
      BY <1>2
    <3> QED
      BY <3>1, SideBySide
  <2>5. On(FALSE, a, p, Len(p)).err = "no key"
    BY <1>5, <2>2, <2>3, <2>4 DEF Beside
  <2>6. Reading(a, q) = On(FALSE, a, q, Len(q)) /\ Reading(a, p) = On(FALSE, a, p, Len(p))
    BY ConstOn DEF Reading
  <2> QED
    BY <1>5, <2>1, <2>2, <2>3, <2>5, <2>6
<1> QED
  BY <1>4, <1>5

\* Path q finds in b what it found in a, unless it did not find its key and p not either.
Unmoved(a, t, b, s, p, q) ==
    \/ Look(Entry(b, s), q) = Look(Entry(a, t), q)
    \/ Look(Entry(a, t), q) = Error("no key") /\ Reading(a, p).err # None

LEMMA LookApart ==
  ASSUME NEW S, Full(S), NEW a \in S, NEW p \in Seq(DOMAIN Index), NEW q \in Seq(DOMAIN Index),
         q # <<>>, NEW b, On(TRUE, a, p, Len(p)).err = None, ChangedAt(a, p, b, Len(p)), Apart(q, p),
         NEW s, NEW t
  PROVE  Unmoved(a, t, b, s, p, q)
<1>1. /\ Look(Entry(b, s), q) = GetField(Reading(b, q), TRUE)
      /\ Look(Entry(a, t), q) = GetField(Reading(a, q), TRUE)
  BY LookIs
<1>2. \A r : r.err = "no key" => GetField(r, TRUE) = Error("no key")
  <2> SUFFICES ASSUME NEW r, r.err = "no key" PROVE GetField(r, TRUE) = Error("no key")
    OBVIOUS
  <2>1. "no key" \notin {None, "abort"}
    BY NoneAssumption
  <2>2. GetField(r, TRUE) = Error(r.err)
    BY <2>1 DEF GetField
  <2> QED
    BY <2>2
<1>3. \/ GetField(Reading(b, q), TRUE) = GetField(Reading(a, q), TRUE)
      \/ Reading(a, q).err = "no key" /\ Reading(a, p).err # None
  BY LookElsewhere
<1> QED
  BY <1>1, <1>2, <1>3 DEF Unmoved

-----------------------------------------------------------------------------
(***************************************************************************)
(* PB.SET of a field changes that field.                                   *)
(***************************************************************************)

\* The message b is a with what l denotes replaced by the value set.
Replaced(S, a, c, l, b) ==
    /\ Workplace(S, a, c, l)
    /\ ConstRef(b, PathOf(c)).err = None
    /\ Get(ConstRef(b, PathOf(c))) = Converted(ConstRef(b, PathOf(c)), c.args[1])
    /\ ChangedAt(a, c.fields, b, Len(c.fields))

LEMMA SetReplaces ==
  ASSUME NEW a, NEW c \in Writes, NEW S, NEW l, Workplace(S, a, c, l),
         NEW q, q = SetField(MutableRef(a, PathOf(c)), c.args[1]), q.err = None
  PROVE  Replaced(S, a, c, l, q.root)
<1> DEFINE tok == c.args[1]  v == Converted(l, tok)  X == WithPart(Msg(l), Here(l), v)
           b == PutAt(a, l.addr, X)  w == Work(a, l, X, None)
<1>1. Reached(S, a, l) /\ MutableRef(a, PathOf(c)) = Work(a, l, Msg(l), None)
  BY DEF Workplace
<1>2. SetField(Work(a, l, Msg(l), None), tok).err = None
  BY <1>1
<1>3. /\ SetField(Work(a, l, Msg(l), None), tok) = w
      /\ SameBut(l, X) /\ Part(X, Here(l)) = v
  <2> HIDE DEF tok
  <2> QED
    BY <1>1, <1>2, SetWorks DEF v, X, w
<1>4. q = w
  BY <1>1, <1>3
<1>5. /\ w.root = b /\ w.err = None /\ Here(w) = Here(l)
      /\ FieldOf(w) = FieldOf(l) /\ w.sel = l.sel /\ (IsArray(w) <=> IsArray(l))
  BY WorkParts
<1>6. ConstRef(b, PathOf(c)) = w /\ Msg(w) = X
  BY <1>3 DEF Workplace
<1>7. Converted(w, tok) = v
  BY <1>5 DEF Converted
<1>8. Get(w) = v
  BY <1>3, <1>5, <1>6 DEF Get
<1>9. ChangedAt(a, c.fields, b, Len(c.fields))
  BY <1>3 DEF Workplace, ChangedAt
<1> HIDE DEF w, b
<1> QED
  BY <1>4, <1>5, <1>6, <1>7, <1>8, <1>9 DEF Replaced

LEMMA SetStays ==
  ASSUME NEW e, IsEntry(e), NEW c \in Writes, c.op = "SET", c.fields # <<>>,
         Execute(e, c).reply = Number(1)
  PROVE  \E S, l, t : Execute(e, c).entry = Entry(Execute(e, c).entry.msg, t)
                      /\ Replaced(S, Target(e, c), c, l, Execute(e, c).entry.msg)
<1> DEFINE r == Execute(e, c)  a == Target(e, c)  m == MutableRef(a, PathOf(c))
           q == SetField(m, c.args[1])  ttl == c.ex \/ (Holds(e) /\ e.ttl)
<1>0. /\ \A f, err : Stopped(f, err).reply # Number(1)
      /\ Done(e, 0).reply # Number(1)
  BY DEF Stopped, Error, Abort, Done, Number
<1>1. r = Set(e, c)
  BY DEF Execute
<1>2. Refusal(e, c) = None /\ r = Finish(e, q, ttl, 1)
  BY <1>0, <1>1 DEF Set
<1>3. r.reply.kind = "number"
  BY DEF Number
<1>4. WellMade(a) /\ a.type = c.type
  BY <1>2, TargetTyped
<1> HIDE DEF r, a, ttl
<1>5. q.err = None /\ r.entry = Entry(q.root, ttl)
  <2> HIDE DEF q
  <2> QED
    BY <1>2, <1>3, FinishWent
<1>6. m.err = None
  BY <1>5 DEF SetField
<1>7. PICK S, l : Workplace(S, a, c, l)
  BY <1>4, <1>6, WorkPlace
<1>8. Replaced(S, a, c, l, q.root)
  <2>1. q = SetField(MutableRef(a, PathOf(c)), c.args[1])
    OBVIOUS
  <2> HIDE DEF q, m
  <2> QED
    BY <1>5, <1>7, <2>1, SetReplaces
<1>9. r.entry.msg = q.root
  BY <1>5, Entries
<1> HIDE DEF q
<1> QED
  BY <1>5, <1>8, <1>9 DEF r, a

\* PB.SET sets the field it names, and what is elsewhere stays.
THEOREM SettingIsLocal == Spec => []SetIsLocal
<1>1. Made => SetIsLocal
  <2> SUFFICES ASSUME Made, NEW k \in Keys, NEW c \in Writes,
                      c.op = "SET", c.fields # <<>>, Execute(db[k], c).reply = Number(1)
               PROVE  LET e == db[k]  r == Execute(e, c)
                          before == IF Holds(e) THEN e ELSE Entry(Create(c.type), FALSE) IN
                      /\ LET ref == ConstRef(r.entry.msg, PathOf(c)) IN
                         ref.err = None /\ Get(ref) = Converted(ref, c.args[1])
                      /\ \A p \in Paths : Apart(p, c.fields) =>
                            Look(r.entry, p) = Look(before, p) \/ Look(before, p) = Error("no key")
    BY DEF SetIsLocal, EveryResult
  <2> DEFINE e == db[k]  r == Execute(e, c)  a == Target(e, c)  b == r.entry.msg
             before == IF Holds(e) THEN e ELSE Entry(Create(c.type), FALSE)
  <2>1. IsEntry(e)
    BY DEF Made
  <2>2. PICK t : before = Entry(a, t)
    <3>1. CASE Holds(e)
      BY <2>1, <3>1, HoldsMessage DEF IsMessage, Target
    <3>2. CASE ~Holds(e)
      BY <3>2 DEF Target
    <3> QED
      BY <3>1, <3>2
  <2> HIDE DEF e
  <2>3. PICK S, l, s : r.entry = Entry(b, s) /\ Replaced(S, a, c, l, b)
    BY <2>1, SetStays DEF e
  <2> HIDE DEF r, a, b, before
  <2>4. Full(S) /\ a \in S /\ On(TRUE, a, c.fields, Len(c.fields)).err = None
    BY <2>3 DEF Replaced, Workplace
  <2>5. /\ ConstRef(b, PathOf(c)).err = None
        /\ Get(ConstRef(b, PathOf(c))) = Converted(ConstRef(b, PathOf(c)), c.args[1])
        /\ ChangedAt(a, c.fields, b, Len(c.fields))
    BY <2>3 DEF Replaced
  <2>6. ASSUME NEW p \in Paths, Apart(p, c.fields)
        PROVE  Look(r.entry, p) = Look(before, p) \/ Look(before, p) = Error("no key")
    <3>1. p \in Seq(DOMAIN Index) /\ p # <<>> /\ c.fields \in Seq(DOMAIN Index)
      BY PathsAssumption, WritesAssumption
    <3>2. Look(Entry(b, s), p) = Look(Entry(a, t), p) \/ Look(Entry(a, t), p) = Error("no key")
      <4> DEFINE f == c.fields
      <4>1. Full(S) /\ a \in S /\ p \in Seq(DOMAIN Index) /\ f \in Seq(DOMAIN Index) /\ p # <<>>
        BY <2>4, <3>1
      <4>2. On(TRUE, a, f, Len(f)).err = None /\ ChangedAt(a, f, b, Len(f)) /\ Apart(p, f)
        BY <2>4, <2>5, <2>6
      <4> HIDE DEF f
      <4>3. Unmoved(a, t, b, s, f, p)
        BY <4>1, <4>2, LookApart
      <4> QED
        BY <4>3 DEF Unmoved
    <3> QED
      BY <2>2, <2>3, <3>2
  <2> QED
    BY <2>5, <2>6 DEF e, r, b, before
<1> QED
  BY <1>1, SpecMade, PTL

-----------------------------------------------------------------------------
(***************************************************************************)
(* PB.DEL of an element takes it out of its array.                         *)
(***************************************************************************)
LEMMA Joined ==
  ASSUME NEW V, NEW x \in Seq(V), NEW y \in Seq(V)
  PROVE  /\ x \o y \in Seq(V) /\ Len(x \o y) = Len(x) + Len(y)
         /\ \A j \in 1..(Len(x) + Len(y)) :
               (x \o y)[j] = IF j <= Len(x) THEN x[j] ELSE y[j - Len(x)]
  OBVIOUS

LEMMA TakenOut ==
  ASSUME NEW A, NEW s \in Seq(A), NEW i \in 0..(Len(s) - 1)
  PROVE  RemoveAt([j \in DOMAIN s |-> Value(s[j])], i + 1)
           = [j \in DOMAIN Dropped(s, i) |-> Value(Dropped(s, i)[j])]
<1> DEFINE n == Len(s)  V == {Value(s[j]) : j \in 1..n}
           t == [j \in 1..n |-> Value(s[j])]
           u == [j \in 1..(n - 1) |-> IF j <= i THEN Value(s[j]) ELSE Value(s[j + 1])]
<1>1. n \in Nat /\ n - 1 \in Nat /\ DOMAIN s = 1..n /\ i \in Int /\ 0 <= i /\ i <= n - 1
  OBVIOUS
<1>2. t = [j \in DOMAIN s |-> Value(s[j])]
  BY <1>1
<1>3. DOMAIN Dropped(s, i) = 1..(n - 1)
      /\ \A j \in 1..(n - 1) : Dropped(s, i)[j] = IF j <= i THEN s[j] ELSE s[j + 1]
  BY DEF Dropped
<1>4. u = [j \in DOMAIN Dropped(s, i) |-> Value(Dropped(s, i)[j])]
  <2>1. \A j \in 1..(n - 1) : Value(Dropped(s, i)[j]) = IF j <= i THEN Value(s[j]) ELSE Value(s[j + 1])
    BY <1>3
  <2> HIDE DEF n
  <2> QED
    BY <1>3, <2>1
<1>5. t \in Seq(V) /\ Len(t) = n /\ \A j \in 1..n : t[j] = Value(s[j])
  <2>1. t \in [1..n -> V]
    OBVIOUS
  <2> HIDE DEF V, n
  <2> QED
    BY <1>1, <2>1
<1>6. \A j \in 1..(n - 1) : u[j] = IF j <= i THEN t[j] ELSE t[j + 1]
  <2> HIDE DEF t, n
  <2>1. \A j \in 1..(n - 1) : j \in 1..n /\ j + 1 \in 1..n
    BY <1>1
  <2> QED
    BY <1>5, <2>1
<1>7. DOMAIN u = 1..(n - 1) /\ u = [j \in 1..(n - 1) |-> u[j]]
  OBVIOUS
<1> HIDE DEF n, t, u, V
<1> DEFINE x == SubSeq(t, 1, i)  y == SubSeq(t, i + 2, n)
<1>8. /\ x \in Seq(V) /\ Len(x) = i /\ \A j \in 1..i : x[j] = t[j]
      /\ y \in Seq(V) /\ Len(y) = n - 1 - i /\ \A j \in 1..(n - 1 - i) : y[j] = t[j + i + 1]
  BY <1>1, <1>5
<1> HIDE DEF x, y
<1>9. x \o y \in Seq(V) /\ Len(x \o y) = n - 1
      /\ \A j \in 1..(n - 1) : (x \o y)[j] = IF j <= i THEN x[j] ELSE y[j - i]
  <2>1. x \o y \in Seq(V) /\ Len(x \o y) = Len(x) + Len(y)
    BY <1>8, Joined
  <2>2. \A j \in 1..(Len(x) + Len(y)) : (x \o y)[j] = IF j <= Len(x) THEN x[j] ELSE y[j - Len(x)]
    <3>1. x \in Seq(V) /\ y \in Seq(V)
      BY <1>8
    <3> QED
      BY <3>1, Joined, Zenon
  <2>3. Len(x) + Len(y) = n - 1 /\ Len(x) = i
    BY <1>1, <1>8
  <2> QED
    BY <2>1, <2>2, <2>3
<1>10. \A j \in 1..(n - 1) : (x \o y)[j] = u[j]
  <2> TAKE j \in 1..(n - 1)
  <2>1. CASE j <= i
    <3>1. j \in 1..i
      BY <1>1, <2>1
    <3>2. x[j] = t[j]
      BY <1>8, <3>1
    <3> QED
      BY <1>6, <1>9, <2>1, <3>2
  <2>2. CASE ~(j <= i)
    <3>1. j - i \in 1..(n - 1 - i) /\ (j - i) + i + 1 = j + 1
      BY <1>1, <2>2
    <3>2. y[j - i] = t[j + 1]
      BY <1>8, <3>1
    <3> QED
      BY <1>6, <1>9, <2>2, <3>2
  <2> QED
    BY <2>1, <2>2
<1>11. x \o y = u
  <2> DEFINE z == x \o y
  <2>1. z \in Seq(V) /\ Len(z) = n - 1 /\ \A j \in 1..(n - 1) : z[j] = u[j]
    BY <1>9, <1>10
  <2> HIDE DEF z
  <2>2. z = [j \in 1..(n - 1) |-> z[j]]
    BY <1>1, <2>1
  <2>3. z = u
    BY <1>7, <2>1, <2>2
  <2> QED
    BY <2>3 DEF z
<1>12. RemoveAt(t, i + 1) = x \o y
  BY <1>1, <1>5 DEF RemoveAt, x, y
<1> QED
  BY <1>2, <1>4, <1>11, <1>12

\* The whole array r that the element l is of: where the path to it ends one segment earlier.
ArrayOf(S, a, p, l, r) ==
    LET arr == Front(p) IN
    /\ arr \in Seq(DOMAIN Index) /\ arr # <<>> /\ On(TRUE, a, arr, Len(arr)).err = None
    /\ r = View(a, arr, Len(arr)) /\ Reading(a, arr) = r /\ Reached(S, a, r)
    /\ r.sel = None /\ IsArray(r) /\ FieldOf(r) = FieldOf(l)
    /\ r.addr = l.addr /\ r.type = l.type /\ r.field = l.field
    /\ Msg(r) = Msg(l) /\ l.sel = Index[Last(p)]

LEMMA FromArray ==
  ASSUME NEW S, Full(S), Parsed \subseteq S, NEW a \in S, NEW p \in Seq(DOMAIN Index), p # <<>>,
         On(TRUE, a, p, Len(p)).err = None, IsArrayElement(View(a, p, Len(p)))
  PROVE  \E r : ArrayOf(S, a, p, View(a, p, Len(p)), r)
<1> DEFINE n == Len(p)  arr == Front(p)  r == View(a, p, n - 1)  l == View(a, p, n)
<1>1. n \in 1..n /\ n \in Nat /\ n - 1 \in 0..n
  <2>1. Len(p) \in Nat /\ Len(p) # 0
    OBVIOUS
  <2> HIDE DEF n
  <2> QED
    BY <2>1 DEF n
<1>2. /\ On(TRUE, a, p, n - 1).err = None
      /\ Sees(S, r) /\ r.err = None /\ r.root = a /\ IsRef(r)
      /\ Fault(TRUE, Msg(r), r, p[n]) = None
      /\ l = Onward(r, p[n], a) /\ Advanced(r, l) /\ l.root = a /\ l.err = None
      /\ \E h : Points(S, l, h)
  <2>1. Stepped(S, a, p, n)
    BY <1>1, ViewStep
  <2> QED
    BY <2>1 DEF Stepped
<1>3. FieldOf(l).label = "array" /\ l.sel # None
  BY DEF IsArrayElement
<1>4. arr \in Seq(DOMAIN Index) /\ Len(arr) = n - 1 /\ SubSeq(arr, 1, n - 1) = SubSeq(p, 1, n - 1)
  <2>1. n - 1 \in Nat /\ n - 1 <= Len(p)
    BY <1>1
  <2>2. arr = SubSeq(p, 1, n - 1)
    BY DEF Front
  <2>3. arr \in Seq(DOMAIN Index) /\ Len(arr) = n - 1
    <3> DEFINE k == n - 1
    <3>1. k \in Nat /\ k <= Len(p) /\ arr = SubSeq(p, 1, k)
      BY <2>1, <2>2
    <3> HIDE DEF k, arr, n
    <3>2. arr \in Seq(DOMAIN Index) /\ Len(arr) = k
      BY <3>1
    <3> QED
      BY <3>2 DEF k
  <2>4. SubSeq(arr, 1, Len(arr)) = arr
    <3> HIDE DEF arr, n
    <3> QED
      BY <2>3
  <2> QED
    BY <2>2, <2>3, <2>4
<1>5. On(TRUE, a, arr, n - 1) = On(TRUE, a, p, n - 1)
  BY <1>4, OnShared
<1>6. View(a, arr, n - 1) = r
  BY <1>5 DEF View
<1>7. n - 1 = 0 => r.field = None
  <2>1. On(TRUE, a, p, 0) = StartOf(a)
    BY OnNext
  <2>2. View(a, p, 0) = StartOf(a)
    BY <2>1, StartSees DEF View
  <2>3. StartOf(a).field = None
    BY DEF StartOf
  <2> SUFFICES ASSUME n - 1 = 0 PROVE View(a, p, n - 1).field = None
    OBVIOUS
  <2> QED
    BY <2>2, <2>3
<1>8. Beside(a, arr, n - 1)
  <2>1. n - 1 \in 0..Len(arr)
    BY <1>1, <1>4
  <2> HIDE DEF n, arr
  <2> QED
    BY <1>4, <2>1, SideBySide
<1>9. Reading(a, arr) = On(FALSE, a, arr, n - 1)
  BY <1>4, ConstOn DEF Reading
<1> HIDE DEF n, arr, r, l
<1>10. AtArray(r)
  <2>1. r.field # None
    <3>1. ASSUME r.field = None PROVE FALSE
      <4>1. ~AtMap(r) /\ ~AtArray(r) /\ ~AtPlace(r)
        BY <3>1 DEF AtMap, AtArray, AtPlace
      <4>2. l = Ref(a, r.addr, r.type, p[n], None, None)
        BY <1>2, <3>1, <4>1 DEF Onward, r, l
      <4> QED
        BY <1>3, <4>2, RefParts
    <3> QED
      BY <3>1
  <2>2. ~AtMap(r)
    <3>1. ASSUME AtMap(r) PROVE FALSE
      <4>1. ~AtArray(r) /\ ~AtPlace(r) /\ FieldOf(r).label = "map"
        BY <3>1 DEF AtMap, AtArray, AtPlace, IsMap
      <4>2. l = Ref(a, r.addr, r.type, r.field, KeyOf(r, p[n]), None)
        BY <1>2, <2>1, <3>1, <4>1 DEF Onward, r, l
      <4>3. FieldOf(l) = FieldOf(r)
        BY <4>2, RefParts DEF FieldOf
      <4> QED
        BY <1>3, <4>1, <4>3
    <3> QED
      BY <3>1
  <2>3. ~AtPlace(r)
    <3>1. AtPlace(r) => l.sel = None
      BY <1>2 DEF Advanced, r, l
    <3> QED
      BY <1>3, <3>1
  <2> QED
    BY <2>1, <2>2, <2>3 DEF AtPlace
<1>11. ~AtPlace(r) /\ ~AtMap(r) /\ r.field # None /\ r.sel = None /\ ~IsMap(r) /\ IsArray(r)
  BY <1>10 DEF AtPlace, AtMap, AtArray
<1>12. l = Ref(a, r.addr, r.type, r.field, Index[p[n]], None)
  BY <1>2, <1>10, <1>11 DEF Onward, r, l
<1>13. l.addr = r.addr /\ l.type = r.type /\ l.field = r.field /\ l.sel = Index[p[n]]
  BY <1>12, RefParts
<1>14. FieldOf(l) = FieldOf(r) /\ Msg(l) = Msg(r)
  BY <1>2, <1>11, <1>13 DEF FieldOf, Advanced, r, l
<1>15. On(FALSE, a, arr, n - 1).err = None
  <2>1. ASSUME On(FALSE, a, arr, n - 1).err # None PROVE FALSE
    <3>1. NewPlace(r)
      BY <1>2, <1>5, <1>6, <1>8, <2>1 DEF Beside, r
    <3>2. Msg(r) = Create(r.type)
      BY <1>11, <3>1 DEF NewPlace
    <3>3. PICK h : Points(S, l, h)
      BY <1>2 DEF l
    <3>4. l.field \in DOMAIN Schema[l.type] /\ l.sel \in 0..(Len(Msg(l).val[l.field]) - 1)
      BY <1>3, <3>3, StandsAt DEF Points
    <3>5. Msg(l).val[l.field] = Zero(Schema[l.type][l.field])
      BY <1>13, <1>14, <3>2, <3>4 DEF Create
    <3>6. Zero(FieldOf(l)) = <<>>
      BY <1>3 DEF Zero
    <3>7. Msg(l).val[l.field] = <<>>
      BY <3>5, <3>6 DEF FieldOf
    <3> QED
      BY <3>4, <3>7
  <2> QED
    BY <2>1
<1>16. arr # <<>>
  BY <1>1, <1>4, <1>7, <1>11
<1>17. Reading(a, arr).err = None
  BY <1>9, <1>15
<1>18. /\ Reached(S, a, Reading(a, arr)) /\ Reading(a, arr) = View(a, arr, Len(arr))
       /\ On(TRUE, a, arr, Len(arr)).err = None
  BY <1>4, <1>16, <1>17, ReadingReached
<1>19. View(a, arr, Len(arr)) = r
  BY <1>4, <1>6
<1>20. l.sel = Index[Last(p)]
  BY <1>13 DEF Last, n
<1>21. ArrayOf(S, a, p, l, r)
  BY <1>4, <1>11, <1>13, <1>14, <1>16, <1>18, <1>19, <1>20 DEF ArrayOf, arr
<1> QED
  BY <1>21 DEF l, n

LEMMA DelTakes ==
  ASSUME NEW S, NEW a, NEW l, Reached(S, a, l), IsArrayElement(l)
  PROVE  LET v == Msg(l).val[l.field]  X == [Msg(l) EXCEPT !.val[l.field] = Dropped(v, l.sel)] IN
         /\ Del(Work(a, l, Msg(l), None)) = Work(a, l, X, None)
         /\ X.type = l.type /\ X.val[l.field] = Dropped(v, l.sel)
         /\ \A f \in DOMAIN Schema[l.type] \ {l.field} : X.val[f] = Msg(l).val[f]
         /\ v \in Seq(Elements(S, FieldOf(l))) /\ l.sel \in 0..(Len(v) - 1)
<1> DEFINE m == Work(a, l, Msg(l), None)  v == Msg(l).val[l.field]  d == Dropped(v, l.sel)
           X == [Msg(l) EXCEPT !.val[l.field] = d]
<1>1. PICK h : Points(S, l, h) /\ Full(S)
  BY DEF Reached
<1>2. /\ Msg(l) \in S /\ MadeOf(S, Msg(l)) /\ Msg(l).type = l.type /\ Msg(l) = h[Len(l.addr)]
      /\ l.field \in DOMAIN Schema[l.type]
  BY <1>1, StandsAt DEF Points
<1>3. l.sel \in 0..(Len(v) - 1)
  BY <1>1, <1>2 DEF Points, IsArrayElement
<1>4. v \in Seq(Elements(S, FieldOf(l)))
  <2>1. Fills(S, FieldOf(l), v)
    BY <1>1, FieldFills
  <2> QED
    BY <2>1 DEF Fills, IsArrayElement
<1>5. Shaped(Msg(l)) /\ DOMAIN Msg(l).val = DOMAIN Schema[l.type]
  BY <1>1, <1>2, MadeShaped DEF Full, Closed, Shaped
<1>6. X.type = l.type /\ X.val = [Msg(l).val EXCEPT ![l.field] = d]
  BY <1>2, <1>5 DEF Shaped
<1>7. X.val[l.field] = d /\ \A f \in DOMAIN Schema[l.type] \ {l.field} : X.val[f] = Msg(l).val[f]
  <2> HIDE DEF X, d
  <2> QED
    BY <1>2, <1>5, <1>6
<1>8. Del(m) = PutWhole(m, d)
  <2>1. /\ IsRef(m) /\ Msg(m) = Msg(l) /\ m.root = PutAt(a, l.addr, Msg(l)) /\ m.addr = l.addr
        /\ m.type = l.type /\ m.field = l.field /\ m.sel = l.sel
        /\ FieldOf(m) = FieldOf(l) /\ IsArrayElement(m)
    BY WorkMsg, WorkParts
  <2> HIDE DEF m
  <2>2. Leads(S, a, l.addr, h)
    BY <1>1 DEF Points, Stands, Reached
  <2>3. PICK T, g : Leads(T, PutAt(a, l.addr, Msg(l)), l.addr, g)
                    /\ Rebuilds(h, l.addr, Len(l.addr), Msg(l), g)
    BY <1>2, <2>2, PutAtLaws
  <2>4. g[Len(l.addr)] = Msg(l)
    BY <2>3 DEF Rebuilds
  <2>5. Points(T, m, g)
    BY <1>2, <1>3, <2>1, <2>3, <2>4 DEF Points, Stands
  <2> QED
    BY <2>1, <2>5, DelIs
<1>9. PutWhole(m, d) = Work(a, l, X, None)
  BY WorkMsg
<1> QED
  BY <1>3, <1>4, <1>6, <1>7, <1>8, <1>9

LEMMA DelStays ==
  ASSUME NEW e, IsEntry(e), NEW c \in Writes, c.op = "DEL", c.fields # <<>>, Holds(e),
         Execute(e, c).reply = Number(1)
  PROVE  LET q == Del(MutableRef(e.msg, PathOf(c))) IN
         /\ Execute(e, c).entry = Entry(q.root, e.ttl)
         /\ \E S, l : Workplace(S, e.msg, c, l) /\ IsArrayElement(l)
<1> DEFINE r == Execute(e, c)  a == e.msg  m == MutableRef(a, PathOf(c))  q == DelField(m)
<1>0. /\ \A f, err : Stopped(f, err).reply # Number(1)
      /\ Done(e, 0).reply # Number(1)
  BY DEF Stopped, Error, Abort, Done, Number
<1>1. r = DelCmd(e, c)
  BY DEF Execute
<1>2. Refusal(e, c) = None /\ r = Finish(e, q, e.ttl, 1)
  BY <1>0, <1>1, Entries DEF DelCmd
<1>3. r.reply.kind = "number"
  BY DEF Number
<1>4. WellMade(a) /\ a.type = c.type
  BY <1>2, TargetTyped DEF Target
<1> HIDE DEF r, a
<1>5. q.err = None /\ r.entry = Entry(q.root, e.ttl)
  <2> HIDE DEF q
  <2> QED
    BY <1>2, <1>3, FinishWent
<1>6. m.err = None
  <2> HIDE DEF m
  <2> QED
    BY <1>5 DEF DelField
<1>7. PICK S, l : Workplace(S, a, c, l)
  BY <1>4, <1>6, WorkPlace
<1>8. m = Work(a, l, Msg(l), None) /\ IsRef(m) /\ (IsArrayElement(m) <=> IsArrayElement(l))
  BY <1>7, WorkParts DEF Workplace
<1>9. IsArrayElement(m) /\ q = Del(m)
  <2> HIDE DEF m
  <2>1. "not an element" # None
    BY ErrorAssumption
  <2>2. Throw(m, "not an element").err = "not an element"
    BY <1>8 DEF Throw, IsRef
  <2> QED
    BY <1>5, <1>6, <2>1, <2>2 DEF DelField
<1> QED
  BY <1>5, <1>7, <1>8, <1>9 DEF r, a

\* The message b is a without the element c names.
Removed(S, a, c, b, t) ==
    LET arr == Front(c.fields) IN
    /\ Full(S) /\ a \in S /\ arr \in Seq(DOMAIN Index) /\ On(TRUE, a, arr, Len(arr)).err = None
    /\ Reading(a, arr).err = None /\ ChangedAt(a, arr, b, Len(arr))
    /\ Look(Entry(b, t), arr).val
         = RemoveAt(Look(Entry(a, t), arr).val, Index[Last(c.fields)] + 1)

LEMMA DelRemoves ==
  ASSUME NEW a, NEW c \in Writes, c.fields # <<>>, NEW S, NEW l, Workplace(S, a, c, l),
         IsArrayElement(l), NEW q, q = Del(MutableRef(a, PathOf(c))), NEW t
  PROVE  Removed(S, a, c, q.root, t)
<1>0. LET v == Msg(l).val[l.field]  X == [Msg(l) EXCEPT !.val[l.field] = Dropped(v, l.sel)] IN
      /\ Del(Work(a, l, Msg(l), None)) = Work(a, l, X, None)
      /\ X.type = l.type /\ X.val[l.field] = Dropped(v, l.sel)
      /\ \A f \in DOMAIN Schema[l.type] \ {l.field} : X.val[f] = Msg(l).val[f]
      /\ v \in Seq(Elements(S, FieldOf(l))) /\ l.sel \in 0..(Len(v) - 1)
  <2>1. Reached(S, a, l)
    BY DEF Workplace
  <2> QED
    BY <2>1, DelTakes
<1> DEFINE p == c.fields  arr == Front(p)  v == Msg(l).val[l.field]  d == Dropped(v, l.sel)
           X == [Msg(l) EXCEPT !.val[l.field] = d]  b == PutAt(a, l.addr, X)
<1>1. /\ Full(S) /\ Parsed \subseteq S /\ a \in S /\ Reached(S, a, l)
      /\ l = View(a, p, Len(p)) /\ On(TRUE, a, p, Len(p)).err = None
      /\ MutableRef(a, PathOf(c)) = Work(a, l, Msg(l), None)
  BY DEF Workplace
<1>2. p \in Seq(DOMAIN Index) /\ p # <<>>
  BY WritesAssumption
<1>3. PICK r : ArrayOf(S, a, p, l, r)
  <2> HIDE DEF p
  <2>1. IsArrayElement(View(a, p, Len(p)))
    BY <1>1
  <2> QED
    BY <1>1, <1>2, <2>1, FromArray
<1>4. /\ arr \in Seq(DOMAIN Index) /\ arr # <<>> /\ On(TRUE, a, arr, Len(arr)).err = None
      /\ r = View(a, arr, Len(arr)) /\ Reading(a, arr) = r /\ Reached(S, a, r)
      /\ r.sel = None /\ IsArray(r)
      /\ r.addr = l.addr /\ r.type = l.type /\ r.field = l.field
      /\ Msg(r) = Msg(l) /\ l.sel = Index[Last(p)]
  BY <1>3 DEF ArrayOf
<1>5. /\ Del(Work(a, l, Msg(l), None)) = Work(a, l, X, None)
      /\ X.type = l.type /\ X.val[l.field] = d
      /\ \A f \in DOMAIN Schema[l.type] \ {l.field} : X.val[f] = Msg(l).val[f]
      /\ v \in Seq(Elements(S, FieldOf(l))) /\ l.sel \in 0..(Len(v) - 1)
  BY <1>0
<1>6. q.root = b
  BY <1>1, <1>5, WorkParts
<1> HIDE DEF X, arr, p
<1>7. SameBut(r, X)
  BY <1>4, <1>5 DEF SameBut
<1>8. ChangedAt(a, arr, b, Len(arr))
  BY <1>4, <1>7 DEF ChangedAt
<1> DEFINE w == Work(a, r, X, None)
<1>9. Reading(b, arr) = w /\ Msg(w) = X
  <2>1. Rereads(S, a, arr)
    BY <1>1, <1>4, ReadWork
  <2>2. Reading(PutAt(a, r.addr, X), arr) = w /\ Msg(w) = X
    BY <1>4, <1>7, <2>1 DEF Rereads
  <2> QED
    BY <1>4, <2>2
<1>10. w.err = None /\ w.sel = None /\ IsArray(w) /\ w.field = l.field
  BY <1>4, WorkParts
<1> HIDE DEF w, b
<1>11. Look(Entry(b, t), arr) = Value([j \in DOMAIN d |-> Value(d[j])])
  <2>1. Look(Entry(b, t), arr) = GetField(w, TRUE)
    BY <1>4, <1>9, LookIs
  <2>2. GetField(w, TRUE) = LET u == Msg(w).val[w.field] IN Value([j \in DOMAIN u |-> Value(u[j])])
    BY <1>10, ListIs
  <2>3. Msg(w).val[w.field] = d
    BY <1>5, <1>9, <1>10
  <2> QED
    BY <2>1, <2>2, <2>3
<1>12. Look(Entry(a, t), arr) = Value([j \in DOMAIN v |-> Value(v[j])])
  <2>1. Look(Entry(a, t), arr) = GetField(r, TRUE)
    BY <1>4, LookIs
  <2>2. r.err = None
    BY <1>4 DEF Reached
  <2>3. GetField(r, TRUE) = LET u == Msg(r).val[r.field] IN Value([j \in DOMAIN u |-> Value(u[j])])
    BY <1>4, <2>2, ListIs
  <2>4. Msg(r).val[r.field] = v
    BY <1>4
  <2> QED
    BY <2>1, <2>3, <2>4
<1>13. RemoveAt([j \in DOMAIN v |-> Value(v[j])], l.sel + 1) = [j \in DOMAIN d |-> Value(d[j])]
  <2> HIDE DEF v
  <2> QED
    BY <1>5, TakenOut DEF d
<1>14. \A x : Value(x).val = x
  BY DEF Value
<1>15. Look(Entry(b, t), arr).val = RemoveAt(Look(Entry(a, t), arr).val, Index[Last(p)] + 1)
  <2> HIDE DEF v, d
  <2> QED
    BY <1>4, <1>11, <1>12, <1>13, <1>14
<1>16. Reading(a, arr).err = None
  BY <1>4 DEF Reached
<1> QED
  BY <1>1, <1>4, <1>6, <1>8, <1>15, <1>16 DEF Removed, arr, p

\* PB.DEL removes the element it names, and what is elsewhere stays.
THEOREM DeletingIsLocal == Spec => []DelRemovesOne
<1>1. Made => DelRemovesOne
  <2> SUFFICES ASSUME Made, NEW k \in Keys, NEW c \in Writes,
                      c.op = "DEL", c.fields # <<>>, Execute(db[k], c).reply = Number(1),
                      Holds(db[k])
               PROVE  LET e == db[k]  r == Execute(e, c)
                          arr == Front(c.fields)  i == Index[Last(c.fields)] IN
                      /\ Look(r.entry, arr).val = RemoveAt(Look(e, arr).val, i + 1)
                      /\ \A p \in Paths : Apart(p, arr) => Look(r.entry, p) = Look(e, p)
    BY DEF DelRemovesOne, EveryResult
  <2> DEFINE e == db[k]  r == Execute(e, c)  a == e.msg  t == e.ttl  arr == Front(c.fields)
             q == Del(MutableRef(a, PathOf(c)))  b == q.root
  <2>1. IsEntry(e)
    BY DEF Made
  <2>2. e = Entry(a, t)
    BY <2>1, HoldsMessage DEF IsMessage
  <2> HIDE DEF e
  <2>3. /\ r.entry = Entry(b, t)
        /\ \E S, l : Workplace(S, a, c, l) /\ IsArrayElement(l)
    BY <2>1, DelStays DEF e
  <2>4. PICK S, l : Workplace(S, a, c, l) /\ IsArrayElement(l)
    BY <2>3
  <2>5. Removed(S, a, c, b, t)
    <3>1. q = Del(MutableRef(a, PathOf(c)))
      OBVIOUS
    <3> HIDE DEF q, a, t
    <3> QED
      BY <2>4, <3>1, DelRemoves
  <2> HIDE DEF r, a, b, t
  <2>6. /\ Full(S) /\ a \in S /\ arr \in Seq(DOMAIN Index) /\ On(TRUE, a, arr, Len(arr)).err = None
        /\ Reading(a, arr).err = None /\ ChangedAt(a, arr, b, Len(arr))
        /\ Look(Entry(b, t), arr).val = RemoveAt(Look(Entry(a, t), arr).val, Index[Last(c.fields)] + 1)
    BY <2>5 DEF Removed
  <2>7. ASSUME NEW p \in Paths, Apart(p, arr) PROVE Look(r.entry, p) = Look(e, p)
    <3>1. p \in Seq(DOMAIN Index) /\ p # <<>>
      BY PathsAssumption
    <3> HIDE DEF arr
    <3>2. Unmoved(a, t, b, t, arr, p)
      BY <2>6, <2>7, <3>1, LookApart
    <3>3. Look(Entry(b, t), p) = Look(Entry(a, t), p)
      BY <2>6, <3>2 DEF Unmoved
    <3> QED
      BY <2>2, <2>3, <3>3
  <2>8. Look(r.entry, arr).val = RemoveAt(Look(e, arr).val, Index[Last(c.fields)] + 1)
    <3> HIDE DEF arr
    <3> QED
      BY <2>2, <2>3, <2>6
  <2> QED
    BY <2>7, <2>8 DEF e, r
<1> QED
  BY <1>1, SpecMade, PTL
=============================================================================
