----------------------------- MODULE ServersProofs -----------------------------
(***************************************************************************)
(* What a host of Servers has saved can be read again from its directory,  *)
(* with the types it was written with: for any files, contents, types and  *)
(* keys, any number of commands, and crashes at any moment.                *)
(***************************************************************************)
EXTENDS Servers, Iteration, FiniteSetTheorems, SequenceTheorems

-----------------------------------------------------------------------------
(***************************************************************************)
(* Directories and the types in them.                                      *)
(***************************************************************************)

\* In a directory that loads, a type has one definition.
LEMMA TypeDefIs ==
  ASSUME NEW g \in FileMap, Loadable(g), NEW f \in Present(g), NEW t \in Defines[g[f]]
  PROVE  TypeDef(g, t) = g[f]
<1> DEFINE h == CHOOSE e \in Present(g) : t \in Defines[g[e]]
<1>1. h \in Present(g) /\ t \in Defines[g[h]]
  OBVIOUS
<1> HIDE DEF h
<1>2. h = f
  BY <1>1 DEF Loadable
<1> QED
  BY <1>2 DEF TypeDef, h

\* A type that is served has a definition, which is the content of a file.
LEMMA TypeDefIsContent ==
  ASSUME NEW g \in FileMap, NEW t \in TypesIn(g)
  PROVE  TypeDef(g, t) \in Contents /\ t \in Defines[TypeDef(g, t)] /\ t \in Types
<1> DEFINE h == CHOOSE e \in Present(g) : t \in Defines[g[e]]
<1>1. \E e \in Present(g) : t \in Defines[g[e]]
  BY DEF TypesIn
<1>2. h \in Present(g) /\ t \in Defines[g[h]]
  BY <1>1
<1> HIDE DEF h
<1>3. g[h] \in Contents
  BY <1>2 DEF Present, FileMap
<1> QED
  BY <1>2, <1>3, CompilerAssumption DEF TypeDef, h

\* More files do not change what a type means, as long as they load together.
LEMMA GivesGrows ==
  ASSUME NEW g \in FileMap, NEW e \in FileMap, Loadable(e),
         \A f \in Files : g[f] # None => e[f] = g[f],
         NEW t, NEW def, Gives(g, t, def)
  PROVE  Gives(e, t, def)
<1> DEFINE h == CHOOSE f \in Present(g) : t \in Defines[g[f]]
<1>1. \E f \in Present(g) : t \in Defines[g[f]]
  BY DEF Gives, TypesIn
<1>2. h \in Present(g) /\ t \in Defines[g[h]] /\ g[h] = def
  BY <1>1 DEF Gives, TypeDef
<1> HIDE DEF h
<1>3. h \in Present(e) /\ e[h] = def /\ t \in Defines[e[h]]
  BY <1>2 DEF Present
<1>4. TypeDef(e, t) = def
  BY <1>3, TypeDefIs
<1> QED
  BY <1>3, <1>4 DEF Gives, TypesIn

\* A file that builds on a directory that loads can be added to it.
LEMMA BuildLoads ==
  ASSUME NEW g \in FileMap, NEW f \in Files, NEW c \in Contents,
         g[f] = None, Loadable(g), BuildsOn(g, c)
  PROVE  Loadable([g EXCEPT ![f] = c])
<1> DEFINE new == [g EXCEPT ![f] = c]
<1>1. new[f] = c /\ c # None /\ Kind[c] = "good"
  BY NoneAssumption, NoWarningsAssumption, CompilerAssumption DEF FileMap, BuildsOn
<1>2. \A e \in Files : e # f => new[e] = g[e]
  BY DEF FileMap
<1> HIDE DEF new
<1>3. Present(new) = Present(g) \cup {f} /\ f \notin Present(g)
  BY <1>1, <1>2 DEF Present
<1>4. \A e \in Present(g) : e \in Files /\ e # f /\ new[e] = g[e]
  BY <1>2, <1>3 DEF Present
<1>5. ASSUME NEW e \in Present(new)
      PROVE  Kind[new[e]] = "good" /\ Deps[new[e]] \subseteq Present(new) \ {e}
  <2>1. CASE e = f
    BY <2>1, <1>1, <1>3 DEF BuildsOn
  <2>2. CASE e # f
    <3>1. e \in Present(g) /\ new[e] = g[e]
      BY <2>2, <1>3, <1>4
    <3>2. Kind[g[e]] = "good" /\ Deps[g[e]] \subseteq Present(g) \ {e}
      BY <3>1 DEF Loadable
    <3> QED
      BY <3>1, <3>2, <1>3
  <2> QED
    BY <2>1, <2>2
<1>6. \A e \in Present(g) : Defines[c] \cap Defines[g[e]] = {}
  BY DEF BuildsOn, TypesIn
<1>7. ASSUME NEW d \in Present(new), NEW e \in Present(new), d # e
      PROVE  Defines[new[d]] \cap Defines[new[e]] = {}
  <2>1. CASE d = f
    BY <2>1, <1>1, <1>3, <1>4, <1>6, <1>7
  <2>2. CASE e = f
    BY <2>2, <1>1, <1>3, <1>4, <1>6, <1>7
  <2>3. CASE d # f /\ e # f
    BY <2>3, <1>3, <1>4, <1>7 DEF Loadable
  <2> QED
    BY <2>1, <2>2, <2>3
<1> QED
  BY <1>5, <1>7 DEF Loadable, new

-----------------------------------------------------------------------------
(***************************************************************************)
(* Commands, and the keys they leave.                                      *)
(***************************************************************************)

KeyMap == [Keys -> [type : Types, def : Contents] \cup {None}]

\* Directory d gives every key of ks the definition it was parsed with.
Meant(d, ks) == \A k \in Keys : ks[k] # None => Gives(d, ks[k].type, ks[k].def)

LEMMA CommandParts ==
  ASSUME NEW c \in Commands
  PROVE  /\ c.op \in {"import", "set", "del"}
         /\ c.op = "import" => c.file \in Files /\ c.content \in Contents
         /\ c.op = "set" => c.key \in Keys /\ c.type \in Types /\ c.meant \in Contents
         /\ c.op = "del" => c.key \in Keys
  BY DEF Commands

LEMMA EntryMeant ==
  ASSUME NEW g \in FileMap, NEW t \in TypesIn(g)
  PROVE  /\ Entry(g, t) \in [type : Types, def : Contents]
         /\ Gives(g, Entry(g, t).type, Entry(g, t).def)
  BY TypeDefIsContent DEF Entry, Gives

LEMMA KeysAfterMeant ==
  ASSUME NEW g \in FileMap, NEW ks \in KeyMap, NEW c \in Commands, Meant(g, ks)
  PROVE  KeysAfter(g, ks, c) \in KeyMap /\ Meant(g, KeysAfter(g, ks, c))
<1>1. CASE c.op = "set" /\ SetSucceeds(g, ks[c.key], c.type)
  <2>1. KeysAfter(g, ks, c) = [ks EXCEPT ![c.key] = Entry(g, c.type)]
    BY <1>1 DEF KeysAfter
  <2>2. c.key \in Keys /\ c.type \in TypesIn(g)
    BY <1>1, CommandParts DEF SetSucceeds
  <2> QED
    BY <2>1, <2>2, EntryMeant DEF KeyMap, Meant
<1>2. CASE c.op = "del"
  <2>1. KeysAfter(g, ks, c) = [ks EXCEPT ![c.key] = None]
    BY <1>2 DEF KeysAfter
  <2>2. c.key \in Keys
    BY <1>2, CommandParts
  <2> QED
    BY <2>1, <2>2 DEF KeyMap, Meant
<1>3. CASE ~(c.op = "set" /\ SetSucceeds(g, ks[c.key], c.type)) /\ c.op # "del"
  BY <1>3 DEF KeysAfter
<1> QED
  BY <1>1, <1>2, <1>3

LEMMA TasksAfterTyped ==
  ASSUME NEW ts \in FileMap, NEW c \in Commands
  PROVE  TasksAfter(ts, c) \in FileMap
  BY CommandParts DEF TasksAfter, FileMap

\* What a snapshot gives, when its types are known.
LEMMA LoadedKeysMeant ==
  ASSUME NEW g \in FileMap, NEW cs \in Seq(Commands), Readable(g, cs)
  PROVE  LoadedKeys(g, cs) \in KeyMap /\ Meant(g, LoadedKeys(g, cs))
<1> SUFFICES ASSUME NEW k \in Keys, \E i \in DOMAIN cs : cs[i].key = k
             PROVE  LET e == Entry(g, cs[CHOOSE i \in DOMAIN cs : cs[i].key = k].type) IN
                    e \in [type : Types, def : Contents] /\ Gives(g, e.type, e.def)
  BY DEF LoadedKeys, KeyMap, Meant
<1> DEFINE j == CHOOSE i \in DOMAIN cs : cs[i].key = k
<1>1. j \in DOMAIN cs
  OBVIOUS
<1> HIDE DEF j
<1>2. cs[j].type \in TypesIn(g)
  BY <1>1 DEF Readable
<1> QED
  BY <1>2, EntryMeant DEF j

\* A snapshot has a PB.SET for each key, and nothing else.
LEMMA SnapshotOfKeys ==
  ASSUME NEW ks \in KeyMap
  PROVE  /\ Snapshot(ks) \in Seq(Commands)
         /\ \A i \in DOMAIN Snapshot(ks) :
               /\ Snapshot(ks)[i].op = "set"
               /\ \E k \in Keys : /\ ks[k] # None /\ Snapshot(ks)[i].key = k
                                  /\ Snapshot(ks)[i].type = ks[k].type
                                  /\ Snapshot(ks)[i].meant = ks[k].def
         /\ \A k \in Keys : ks[k] # None =>
               \E i \in DOMAIN Snapshot(ks) : Snapshot(ks)[i].key = k
<1> DEFINE held == {j \in Keys : ks[j] # None}
           C(k) == [op |-> "set", key |-> k, type |-> ks[k].type, meant |-> ks[k].def]
           S == {C(k) : k \in held}
<1>1. IsFiniteSet(held)
  BY KeysAssumption, FS_Subset
<1>2. IsFiniteSet(S)
  <2> DEFINE f == [k \in held |-> C(k)]
  <2>1. f \in Surjection(held, S)
    BY DEF Surjection
  <2> HIDE DEF f, held, S
  <2> QED
    BY <1>1, <2>1, FS_Surjection
<1>3. /\ \A s \in S : s.op = "set" /\ \E k \in Keys : /\ ks[k] # None /\ s.key = k
                                                     /\ s.type = ks[k].type
                                                     /\ s.meant = ks[k].def
      /\ \A k \in Keys : ks[k] # None => C(k) \in S /\ C(k).key = k
  OBVIOUS
<1>4. S \subseteq Commands
  BY DEF Commands, KeyMap
<1> HIDE DEF S
<1>5. /\ Cardinality(S) \in Nat
      /\ SetToSeq(S) \in [1..Cardinality(S) -> S] /\ IsInjective(SetToSeq(S))
  <2>1. Cardinality(S) \in Nat /\ ExistsBijection(1..Cardinality(S), S)
    BY <1>2, FS_CardinalityType
  <2>2. \E f \in [1..Cardinality(S) -> S] : IsInjective(f)
    BY <2>1 DEF ExistsBijection, Bijection, Injection, Surjection, IsInjective
  <2> QED
    BY <2>1, <2>2 DEF SetToSeq
<1>6. Snapshot(ks) = SetToSeq(S)
  BY DEF Snapshot, S
<1>7. Snapshot(ks) \in Seq(S) /\ DOMAIN Snapshot(ks) = 1..Cardinality(S)
  BY <1>5, <1>6
<1>8. \A s \in S : \E i \in DOMAIN Snapshot(ks) : Snapshot(ks)[i] = s
  <2> DEFINE n == Cardinality(S)
  <2>1. SetToSeq(S) \in Injection(1..n, S)
    BY <1>5 DEF Injection, IsInjective
  <2>2. Cardinality(1..n) = n
    BY <1>5, FS_Interval
  <2>3. SetToSeq(S) \in Surjection(1..n, S)
    BY <1>2, <2>1, <2>2, FS_Injection
  <2> QED
    BY <1>6, <1>7, <2>3 DEF Surjection
<1> HIDE DEF C
<1> QED
  BY <1>3, <1>4, <1>5, <1>6, <1>7, <1>8

-----------------------------------------------------------------------------
(***************************************************************************)
(* Replaying commands.  A trail of them is what the keys are after each.   *)
(***************************************************************************)

Trail(g, ks, cs, h) ==
    /\ h[0] = ks /\ \A i \in 0..Len(cs) : h[i] \in KeyMap
    /\ \A i \in 1..Len(cs) : h[i] = KeysAfter(g, h[i - 1], cs[i])

\* Directory d gives the type of every PB.SET in cs the definition it had.
SavedMeant(d, cs) ==
    \A i \in DOMAIN cs : cs[i].op = "set" => Gives(d, cs[i].type, cs[i].meant)

LEMMA ReplayIs ==
  ASSUME NEW g, NEW ks, NEW cs \in Seq(Commands), NEW h, Trail(g, ks, cs, h)
  PROVE  Replay(g, ks, cs) = h[Len(cs)]
<1> DEFINE n == Len(cs)
           Is(e) == e = [i \in 0..n |-> IF i = 0 THEN ks ELSE KeysAfter(g, e[i - 1], cs[i])]
           f == CHOOSE e : Is(e)
           t == [i \in 0..n |-> h[i]]
<1>1. n \in Nat
  OBVIOUS
<1>2. Is(t)
  <2>1. \A i \in 0..n : i = 0 \/ (i \in 1..n /\ i - 1 \in 0..n)
    BY <1>1
  <2>2. \A i \in 0..n : h[i] = IF i = 0 THEN ks ELSE KeysAfter(g, t[i - 1], cs[i])
    BY <1>1, <2>1 DEF Trail
  <2> QED
    BY <2>2, Zenon
<1>3. Is(f)
  BY <1>2
<1>4. Replay(g, ks, cs) = f[n]
  BY DEF Replay
<1> HIDE DEF f
<1>5. f[0] = h[0]
  BY <1>1, <1>3 DEF Trail
<1>6. ASSUME NEW i \in 1..n, f[i - 1] = h[i - 1] PROVE f[i] = h[i]
  <2>1. i \in 0..n /\ i # 0
    BY <1>1
  <2>2. f[i] = KeysAfter(g, f[i - 1], cs[i])
    BY <1>3, <2>1
  <2> QED
    BY <1>6, <2>2 DEF Trail
<1> HIDE DEF Is, n
<1>7. f[n] = h[n]
  BY <1>1, <1>5, <1>6, Agree
<1> QED
  BY <1>4, <1>7 DEF n

LEMMA KeysAfterTyped ==
  ASSUME NEW g \in FileMap, NEW ks \in KeyMap, NEW c \in Commands
  PROVE  KeysAfter(g, ks, c) \in KeyMap
<1>1. c.op = "set" /\ SetSucceeds(g, ks[c.key], c.type) =>
        c.key \in Keys /\ Entry(g, c.type) \in [type : Types, def : Contents]
  BY CommandParts, EntryMeant DEF SetSucceeds
<1>2. c.op = "del" => c.key \in Keys
  BY CommandParts
<1> QED
  BY <1>1, <1>2 DEF KeysAfter, KeyMap

LEMMA TrailExists ==
  ASSUME NEW g \in FileMap, NEW ks \in KeyMap, NEW cs \in Seq(Commands)
  PROVE  \E h : Trail(g, ks, cs, h)
<1> DEFINE n == Len(cs)
           step == [i \in 1..n |-> [s \in KeyMap |-> KeysAfter(g, s, cs[i])]]
<1>1. n \in Nat /\ \A i \in 1..n : cs[i] \in Commands
  OBVIOUS
<1>2. \A i \in 1..n : \A s \in KeyMap : step[i][s] = KeysAfter(g, s, cs[i])
  OBVIOUS
<1> HIDE DEF step, n
<1>3. StaysIn(step, n, KeyMap)
  BY <1>1, <1>2, KeysAfterTyped DEF StaysIn
<1>4. PICK h : Follows(h, ks, step, n, KeyMap)
  BY <1>1, <1>3, StepsExist
<1>5. \A i \in 1..n : h[i - 1] \in KeyMap
  <2>1. \A i \in 1..n : i - 1 \in 0..n
    BY <1>1
  <2> QED
    BY <1>4, <2>1 DEF Follows
<1>6. \A i \in 1..n : h[i] = KeysAfter(g, h[i - 1], cs[i])
  BY <1>2, <1>4, <1>5 DEF Follows
<1> QED
  BY <1>4, <1>6 DEF Follows, Trail, n

LEMMA ReplayNothing ==
  ASSUME NEW g, NEW ks \in KeyMap
  PROVE  Replay(g, ks, <<>>) = ks
<1> DEFINE h == [i \in 0..0 |-> ks]
<1>1. <<>> \in Seq(Commands) /\ Len(<<>>) = 0
  OBVIOUS
<1>2. Trail(g, ks, <<>>, h) /\ h[0] = ks
  BY <1>1 DEF Trail
<1> HIDE DEF h
<1>3. Replay(g, ks, <<>>) = h[Len(<<>>)]
  BY <1>1, <1>2, ReplayIs
<1> QED
  BY <1>1, <1>2, <1>3

\* One more command.
LEMMA ReplayAppend ==
  ASSUME NEW g \in FileMap, NEW ks \in KeyMap, NEW cs \in Seq(Commands), NEW c \in Commands
  PROVE  Replay(g, ks, Append(cs, c)) = KeysAfter(g, Replay(g, ks, cs), c)
<1> DEFINE n == Len(cs)
           ds == Append(cs, c)
<1>1. PICK h : Trail(g, ks, cs, h)
  BY TrailExists
<1> DEFINE last == KeysAfter(g, h[n], c)
           e == [i \in 0..(n + 1) |-> IF i <= n THEN h[i] ELSE last]
<1>2. /\ n \in Nat /\ ds \in Seq(Commands) /\ Len(ds) = n + 1
      /\ \A i \in 1..n : ds[i] = cs[i]
      /\ ds[n + 1] = c
  OBVIOUS
<1>3. h[0] = ks /\ h[n] \in KeyMap /\ \A i \in 0..n : h[i] \in KeyMap
  BY <1>1, <1>2 DEF Trail
<1>4. last \in KeyMap
  BY <1>3, KeysAfterTyped
<1> HIDE DEF last
<1>5. /\ \A i \in 0..(n + 1) : e[i] \in KeyMap
      /\ e[0] = ks /\ e[n + 1] = last /\ e[n] = h[n]
      /\ \A i \in 1..n : e[i] = h[i] /\ e[i - 1] = h[i - 1]
  BY <1>2, <1>3, <1>4
<1> HIDE DEF e, ds
<1>6. ASSUME NEW i \in 1..(n + 1) PROVE e[i] = KeysAfter(g, e[i - 1], ds[i])
  <2>1. CASE i = n + 1
    <3>1. i - 1 = n
      BY <1>2, <2>1
    <3> QED
      BY <2>1, <3>1, <1>2, <1>5 DEF last
  <2>2. CASE i # n + 1
    <3>1. i \in 1..n
      BY <1>2, <2>2
    <3> QED
      BY <3>1, <1>1, <1>2, <1>5 DEF Trail
  <2> QED
    BY <2>1, <2>2
<1>7. Trail(g, ks, ds, e)
  BY <1>2, <1>5, <1>6 DEF Trail
<1>8. Replay(g, ks, ds) = last /\ Replay(g, ks, cs) = h[n]
  BY <1>1, <1>2, <1>5, <1>7, ReplayIs
<1> QED
  BY <1>8 DEF ds, last

\* The first of the commands, and then the others.
LEMMA ReplayFirst ==
  ASSUME NEW g \in FileMap, NEW ks \in KeyMap, NEW cs \in Seq(Commands), cs # <<>>
  PROVE  Replay(g, ks, cs) = Replay(g, KeysAfter(g, ks, Head(cs)), Tail(cs))
<1> DEFINE n == Len(cs)
           ds == Tail(cs)
<1>1. PICK h : Trail(g, ks, cs, h)
  BY TrailExists
<1> DEFINE e == [i \in 0..(n - 1) |-> h[i + 1]]
<1>2. /\ n \in Nat \ {0} /\ ds \in Seq(Commands) /\ Len(ds) = n - 1 /\ Head(cs) = cs[1]
      /\ \A i \in 1..(n - 1) : ds[i] = cs[i + 1]
  OBVIOUS
<1>3. h[0] = ks /\ \A i \in 0..n : h[i] \in KeyMap
  BY <1>1, <1>2 DEF Trail
<1>4. 1 \in 1..n /\ 1 - 1 = 0
  BY <1>2
<1>5. h[1] = KeysAfter(g, ks, Head(cs))
  BY <1>1, <1>2, <1>3, <1>4 DEF Trail
<1>6. e[0] = h[1] /\ e[n - 1] = h[n] /\ \A i \in 0..(n - 1) : e[i] \in KeyMap
  BY <1>2, <1>3
<1>7. ASSUME NEW i \in 1..(n - 1) PROVE e[i] = KeysAfter(g, e[i - 1], ds[i])
  <2>1. i + 1 \in 1..n /\ (i + 1) - 1 = i /\ (i - 1) + 1 = i /\ i \in 0..(n - 1) /\ i - 1 \in 0..(n - 1)
    BY <1>2
  <2>2. e[i] = h[i + 1] /\ e[i - 1] = h[i]
    BY <2>1
  <2>3. h[i + 1] = KeysAfter(g, h[i], cs[i + 1])
    BY <1>1, <2>1 DEF Trail
  <2> QED
    BY <1>2, <2>2, <2>3
<1> HIDE DEF e, ds
<1>8. Trail(g, h[1], ds, e)
  BY <1>2, <1>6, <1>7 DEF Trail
<1>9. Replay(g, ks, cs) = h[n] /\ Replay(g, h[1], ds) = e[n - 1]
  BY <1>1, <1>2, <1>8, ReplayIs
<1> QED
  BY <1>5, <1>6, <1>9 DEF ds

\* More files do not change what the saved commands lead to, if they had their types.
LEMMA ReplayGrows ==
  ASSUME NEW g \in FileMap, NEW e \in FileMap, NEW ks \in KeyMap, NEW cs \in Seq(Commands),
         SavedMeant(g, cs), SavedMeant(e, cs)
  PROVE  Replay(e, ks, cs) = Replay(g, ks, cs)
<1>1. PICK h : Trail(g, ks, cs, h)
  BY TrailExists
<1>2. ASSUME NEW i \in 1..Len(cs) PROVE KeysAfter(e, h[i - 1], cs[i]) = KeysAfter(g, h[i - 1], cs[i])
  <2>1. cs[i].op = "set" => Gives(g, cs[i].type, cs[i].meant) /\ Gives(e, cs[i].type, cs[i].meant)
    BY DEF SavedMeant
  <2> QED
    BY <2>1 DEF KeysAfter, SetSucceeds, Gives, Entry
<1>3. Trail(e, ks, cs, h)
  BY <1>1, <1>2 DEF Trail
<1> QED
  BY <1>1, <1>3, ReplayIs

\* Replaying a snapshot, or a rewritten append-only file, gives the keys it was taken of.
LEMMA ReplaySnapshot ==
  ASSUME NEW g \in FileMap, NEW ks \in KeyMap, Meant(g, ks)
  PROVE  Replay(g, NoKeys, Snapshot(ks)) = ks
<1> DEFINE cs == Snapshot(ks)
           n == Len(cs)
           Done(i) == {cs[j].key : j \in 1..i}
           h == [i \in 0..n |-> [k \in Keys |-> IF k \in Done(i) THEN ks[k] ELSE None]]
<1>1. /\ cs \in Seq(Commands)
      /\ \A i \in 1..n : /\ cs[i].op = "set" /\ cs[i].key \in Keys /\ ks[cs[i].key] # None
                         /\ cs[i].type = ks[cs[i].key].type
                         /\ cs[i].meant = ks[cs[i].key].def
      /\ \A k \in Keys : ks[k] # None => \E i \in 1..n : cs[i].key = k
  BY SnapshotOfKeys
<1> HIDE DEF cs
<1>2. n \in Nat /\ n \in 0..n /\ 0 \in 0..n
  BY <1>1
<1> HIDE DEF n
<1>3. h[0] = NoKeys
  <2>1. Done(0) = {}
    OBVIOUS
  <2> HIDE DEF Done
  <2> QED
    BY <1>2, <2>1 DEF NoKeys
<1>4. \A i \in 0..n : h[i] \in KeyMap
  <2> HIDE DEF Done
  <2> QED
    BY DEF KeyMap
<1>5. ASSUME NEW i \in 1..n PROVE h[i] = KeysAfter(g, h[i - 1], cs[i])
  <2> DEFINE k == cs[i].key
  <2>1. i \in 0..n /\ i - 1 \in 0..n /\ Done(i) = Done(i - 1) \cup {k}
    BY <1>2
  <2>2. k \in Keys /\ ks[k] # None /\ cs[i].op = "set" /\ cs[i].type = ks[k].type
    BY <1>1
  <2>3. Gives(g, ks[k].type, ks[k].def) /\ ks[k] \in [type : Types, def : Contents]
    BY <2>2 DEF Meant, KeyMap
  <2>4. Entry(g, cs[i].type) = ks[k]
    BY <2>2, <2>3 DEF Gives, Entry
  <2> HIDE DEF Done, k
  <2>5. h[i - 1][k] \in {None, ks[k]}
    BY <2>1, <2>2
  <2>6. SetSucceeds(g, h[i - 1][k], cs[i].type)
    BY <2>2, <2>3, <2>5 DEF SetSucceeds, Gives
  <2>7. KeysAfter(g, h[i - 1], cs[i]) = [h[i - 1] EXCEPT ![k] = ks[k]]
    BY <2>2, <2>4, <2>6 DEF KeysAfter, k
  <2> QED
    BY <2>1, <2>2, <2>7
<1>6. h[n] = ks
  <2>1. \A k \in Keys : ks[k] # None => k \in Done(n)
    BY <1>1
  <2>2. ks = [k \in Keys |-> ks[k]]
    BY DEF KeyMap
  <2> HIDE DEF Done
  <2> QED
    BY <1>2, <2>1, <2>2
<1> HIDE DEF h
<1>7. Trail(g, NoKeys, cs, h)
  BY <1>3, <1>4, <1>5 DEF Trail, n
<1>8. Replay(g, NoKeys, cs) = h[n]
  BY <1>1, <1>7, ReplayIs DEF n
<1> QED
  BY <1>6, <1>8 DEF cs

-----------------------------------------------------------------------------
(***************************************************************************)
(* The invariant.                                                          *)
(***************************************************************************)

\* A running host serves its directory, which would load, and its keys mean what they
\* meant; one that is down has no keys.
HostsOK ==
    \A h \in Hosts :
        /\ mode[h] # "down" => pool[h] = disk[h] /\ Loadable(disk[h])
        /\ mode[h] = "down" => keys[h] = NoKeys
        /\ Meant(disk[h], keys[h])

\* A snapshot is loaded in one step, and has nothing but messages.
SavedOK ==
    /\ mode["primary"] = "serving" => loaded = 0
    /\ format = "rdb" => /\ loaded = 0
                         /\ mode["primary"] # "loading"
                         /\ \A i \in DOMAIN saved : saved[i].op = "set"
    /\ Loadable(disk["primary"]) => SavedMeant(disk["primary"], saved)

ServersInv == TypeOK /\ HostsOK /\ SavedOK

LEMMA InvSays == ServersInv => TypeOK /\ SavedIsReadable
  BY DEF ServersInv, HostsOK, SavedOK, SavedMeant, Meant, SavedIsReadable, Hosts

LEMMA NoKeysMeant ==
  ASSUME NEW d
  PROVE  NoKeys \in KeyMap /\ Meant(d, NoKeys)
  BY DEF NoKeys, KeyMap, Meant

LEMMA NoFilesLoad == NoFiles \in FileMap /\ Loadable(NoFiles)
  BY DEF NoFiles, FileMap, Loadable, Present

LEMMA ServersInit == Init => ServersInv
<1> SUFFICES ASSUME Init PROVE ServersInv
  OBVIOUS
<1>1. TypeOK
  BY NoFilesLoad, NoKeysMeant, BoundsAssumption
  DEF Init, TypeOK, Each, KeyMap
<1>2. HostsOK
  BY NoFilesLoad, NoKeysMeant DEF Init, HostsOK, Each
<1>3. SavedOK
  BY DEF Init, SavedOK, SavedMeant, Each, Hosts
<1> QED
  BY <1>1, <1>2, <1>3 DEF ServersInv

LEMMA InvUnchanged == ServersInv /\ UNCHANGED vars => ServersInv'
<1> SUFFICES ASSUME ServersInv, UNCHANGED vars PROVE ServersInv'
  OBVIOUS
<1> USE DEF ServersInv, vars, registryVars, savedVars, linkVars, history
<1>1. TypeOK'
  BY DEF TypeOK
<1>2. HostsOK'
  BY DEF HostsOK, Meant
<1>3. SavedOK'
  BY DEF SavedOK, SavedMeant
<1> QED
  BY <1>1, <1>2, <1>3

-----------------------------------------------------------------------------
(***************************************************************************)
(* The loader.                                                             *)
(***************************************************************************)

LEMMA TakeStep == ASSUME ServersInv, NEW h \in Hosts, Take(h) PROVE ServersInv'
<1> USE DEF ServersInv
<1>1. UNCHANGED <<mode, pool, disk, keys, savedVars, linkVars, history, faults>>
  BY DEF Take
<1>2. batch' \in [Hosts -> FileMap] /\ tasks' \in [Hosts -> FileMap]
  BY NoFilesLoad DEF Take, TypeOK
<1>3. TypeOK'
  BY <1>1, <1>2 DEF TypeOK, savedVars, linkVars, history
<1>4. HostsOK'
  BY <1>1 DEF HostsOK, Meant
<1>5. SavedOK'
  BY <1>1 DEF SavedOK, SavedMeant, savedVars
<1> QED
  BY <1>3, <1>4, <1>5

\* One more file changes nothing about the types in use.
LEMMA ImportStep ==
  ASSUME ServersInv, NEW h \in Hosts, NEW f \in Files, ImportFile(h, f)
  PROVE  ServersInv'
<1> USE DEF ServersInv
<1>1. UNCHANGED <<mode, tasks, keys, savedVars, linkVars, history, faults>>
  BY DEF ImportFile
<1>2. batch \in [Hosts -> FileMap] /\ pool \in [Hosts -> FileMap] /\ disk \in [Hosts -> FileMap]
  BY DEF TypeOK
<1>3. batch' \in [Hosts -> FileMap]
  BY <1>2 DEF ImportFile, FileMap
<1>4. mode[h] # "down" /\ pool[h] = disk[h] /\ Loadable(disk[h])
  BY DEF ImportFile, HostsOK
<1>5. CASE ~(pool[h][f] = None /\ BuildsOn(pool[h], batch[h][f]))
  <2>1. UNCHANGED <<pool, disk>>
    BY <1>5 DEF ImportFile
  <2>2. TypeOK'
    BY <1>1, <1>3, <2>1 DEF TypeOK, savedVars, linkVars, history
  <2>3. HostsOK'
    BY <1>1, <2>1 DEF HostsOK, Meant
  <2>4. SavedOK'
    BY <1>1, <2>1 DEF SavedOK, SavedMeant, savedVars
  <2> QED
    BY <2>2, <2>3, <2>4
<1>6. CASE pool[h][f] = None /\ BuildsOn(pool[h], batch[h][f])
  <2> DEFINE d == [disk[h] EXCEPT ![f] = batch[h][f]]
  <2>1. batch[h][f] \in Contents
    BY <1>2 DEF ImportFile, FileMap
  <2>2. d \in FileMap /\ Loadable(d)
    BY <1>2, <1>4, <1>6, <2>1, BuildLoads DEF FileMap
  <2>3. \A e \in Files : disk[h][e] # None => d[e] = disk[h][e]
    BY <1>2, <1>4, <1>6 DEF FileMap
  <2>4. pool' = [pool EXCEPT ![h] = d] /\ disk' = [disk EXCEPT ![h] = d]
    BY <1>2, <1>4, <1>6 DEF ImportFile
  <2> HIDE DEF d
  <2>5. TypeOK'
    <3>1. pool' \in [Hosts -> FileMap] /\ disk' \in [Hosts -> FileMap]
      BY <1>2, <2>2, <2>4
    <3> QED
      BY <1>1, <1>3, <3>1 DEF TypeOK, savedVars, linkVars, history
  <2>6. disk'[h] = d /\ pool'[h] = d
    BY <1>2, <2>4
  <2>7. \A g \in Hosts : g # h => disk'[g] = disk[g] /\ pool'[g] = pool[g]
    BY <1>2, <2>4
  <2>8. \A t, def : Gives(disk[h], t, def) => Gives(d, t, def)
    BY <1>2, <2>2, <2>3, GivesGrows
  <2>9. HostsOK'
    <3> SUFFICES ASSUME NEW g \in Hosts
                 PROVE  /\ mode[g] # "down" => pool'[g] = disk'[g] /\ Loadable(disk'[g])
                        /\ mode[g] = "down" => keys[g] = NoKeys
                        /\ Meant(disk'[g], keys[g])
      BY <1>1 DEF HostsOK, Meant, NoKeys
    <3>1. CASE g = h
      BY <3>1, <1>4, <2>2, <2>6, <2>8 DEF HostsOK, Meant
    <3>2. CASE g # h
      BY <3>2, <2>7 DEF HostsOK
    <3> QED
      BY <3>1, <3>2
  <2>10. SavedOK'
    <3>1. Loadable(disk'["primary"]) => SavedMeant(disk'["primary"], saved)
      <4>1. CASE h = "primary"
        BY <4>1, <1>4, <2>6, <2>8 DEF SavedOK, SavedMeant
      <4>2. CASE h # "primary"
        BY <4>2, <2>7 DEF SavedOK, Hosts
      <4> QED
        BY <4>1, <4>2
    <3> QED
      BY <1>1, <3>1 DEF SavedOK, SavedMeant, savedVars
  <2> QED
    BY <2>5, <2>9, <2>10
<1> QED
  BY <1>5, <1>6

-----------------------------------------------------------------------------
(***************************************************************************)
(* Commands.                                                               *)
(***************************************************************************)

\* A host that runs a command keeps what its keys mean.
LEMMA RunKeeps ==
  ASSUME ServersInv, NEW h \in Hosts, mode[h] # "down", NEW c \in Commands, Run(h, c),
         UNCHANGED <<mode, pool, disk>>
  PROVE  /\ tasks' \in [Hosts -> FileMap]
         /\ keys' \in [Hosts -> KeyMap]
         /\ HostsOK'
<1> USE DEF ServersInv
<1>1. /\ tasks \in [Hosts -> FileMap] /\ keys \in [Hosts -> KeyMap]
      /\ pool \in [Hosts -> FileMap]
  BY DEF TypeOK, KeyMap
<1>2. pool[h] = disk[h] /\ Meant(pool[h], keys[h])
  BY DEF HostsOK
<1> DEFINE ks == KeysAfter(pool[h], keys[h], c)
<1>3. ks \in KeyMap /\ Meant(pool[h], ks)
  BY <1>1, <1>2, KeysAfterMeant
<1>4. keys' = [keys EXCEPT ![h] = ks]
  BY DEF Run
<1> HIDE DEF ks
<1>5. keys' \in [Hosts -> KeyMap]
  BY <1>1, <1>3, <1>4
<1>6. tasks' \in [Hosts -> FileMap]
  BY <1>1, TasksAfterTyped DEF Run
<1>7. keys'[h] = ks /\ \A g \in Hosts : g # h => keys'[g] = keys[g]
  BY <1>1, <1>4
<1>8. HostsOK'
  <2> SUFFICES ASSUME NEW g \in Hosts
               PROVE  /\ mode[g] # "down" => pool[g] = disk[g] /\ Loadable(disk[g])
                      /\ mode[g] = "down" => keys'[g] = NoKeys
                      /\ Meant(disk[g], keys'[g])
    BY DEF HostsOK, Meant, NoKeys
  <2>1. CASE g = h
    BY <2>1, <1>2, <1>3, <1>7 DEF HostsOK
  <2>2. CASE g # h
    BY <2>2, <1>7 DEF HostsOK
  <2> QED
    BY <2>1, <2>2
<1> QED
  BY <1>5, <1>6, <1>8

\* A client's command, of which a PB.SET is saved with the definition its type has now.
LEMMA PerformStep ==
  ASSUME ServersInv, NEW c \in Commands, Perform(c), asked' \in [Files -> SUBSET Contents],
         c.op = "set" => Gives(disk["primary"], c.type, c.meant)
  PROVE  ServersInv'
<1> USE DEF ServersInv
<1>1. /\ UNCHANGED <<mode, batch, pool, disk, format, loaded, link, missed, faults>>
      /\ Run("primary", c) /\ mode["primary"] = "serving"
  BY DEF Perform
<1>2. "primary" \in Hosts
  BY DEF Hosts
<1>3. tasks' \in [Hosts -> FileMap] /\ keys' \in [Hosts -> KeyMap] /\ HostsOK'
  BY <1>1, <1>2, RunKeeps
<1>4. saved \in Seq(Commands) /\ stream \in Seq(Commands) /\ loaded = 0
  BY <1>1 DEF TypeOK, SavedOK
<1>5. saved' = (IF format = "aof" THEN Append(saved, c) ELSE saved)
  BY DEF Perform
<1>6. saved' \in Seq(Commands) /\ loaded' \in 0..Len(saved')
  BY <1>1, <1>4, <1>5
<1>7. stream' \in Seq(Commands) /\ commands' \in 0..MaxCommands
  BY <1>4, BoundsAssumption DEF Perform, TypeOK
<1>8. TypeOK'
  BY <1>1, <1>3, <1>6, <1>7 DEF TypeOK, KeyMap
<1>9. SavedOK'
  <2>1. Loadable(disk["primary"]) => SavedMeant(disk["primary"], saved')
    <3> SUFFICES ASSUME Loadable(disk["primary"]), NEW i \in DOMAIN saved',
                        saved'[i].op = "set"
                 PROVE  Gives(disk["primary"], saved'[i].type, saved'[i].meant)
      BY DEF SavedMeant
    <3>1. CASE format = "aof" /\ i = Len(saved) + 1
      BY <3>1, <1>4, <1>5
    <3>2. CASE ~(format = "aof" /\ i = Len(saved) + 1)
      <4>1. i \in DOMAIN saved /\ saved'[i] = saved[i]
        BY <3>2, <1>4, <1>5
      <4> QED
        BY <4>1 DEF SavedOK, SavedMeant
    <3> QED
      BY <3>1, <3>2
  <2>2. format = "rdb" => \A i \in DOMAIN saved' : saved'[i].op = "set"
    BY <1>5 DEF SavedOK
  <2> QED
    BY <1>1, <1>4, <2>1, <2>2 DEF SavedOK, SavedMeant
<1> QED
  BY <1>3, <1>8, <1>9

\* What a client asks for is a command, and a PB.SET has the definition of its type.
LEMMA ClientCommands ==
  ASSUME ServersInv,
         \/ \E o \in Offers : Import(o[1], o[2])
         \/ \E k \in Keys : Del(k) \/ \E t \in Types : Set(k, t)
  PROVE  \E c \in Commands :
            /\ Perform(c) /\ asked' \in [Files -> SUBSET Contents]
            /\ c.op = "set" => /\ SetSucceeds(pool["primary"], keys["primary"][c.key], c.type)
                               /\ Gives(disk["primary"], c.type, c.meant)
<1> DEFINE Asked == \E c \in Commands :
            /\ Perform(c) /\ asked' \in [Files -> SUBSET Contents]
            /\ c.op = "set" => /\ SetSucceeds(pool["primary"], keys["primary"][c.key], c.type)
                               /\ Gives(disk["primary"], c.type, c.meant)
<1>0. asked \in [Files -> SUBSET Contents]
  BY DEF ServersInv, TypeOK
<1>1. CASE \E o \in Offers : Import(o[1], o[2])
  <2>1. PICK f \in Files, c \in Contents : Import(f, c)
    BY <1>1, OffersAssumption
  <2> DEFINE cmd == [op |-> "import", file |-> f, content |-> c]
  <2>2. cmd \in Commands /\ cmd.op # "set"
    BY DEF Commands
  <2>3. Perform(cmd) /\ asked' \in [Files -> SUBSET Contents]
    BY <1>0, <2>1 DEF Import
  <2> HIDE DEF cmd
  <2> QED
    BY <2>2, <2>3
<1>2. ASSUME NEW k \in Keys, Del(k) PROVE Asked
  <2> DEFINE cmd == [op |-> "del", key |-> k]
  <2>1. cmd \in Commands /\ cmd.op # "set"
    BY DEF Commands
  <2>2. Perform(cmd) /\ UNCHANGED asked
    BY <1>2 DEF Del
  <2> HIDE DEF cmd
  <2> QED
    BY <1>0, <2>1, <2>2
<1>3. ASSUME NEW k \in Keys, NEW t \in Types, Set(k, t) PROVE Asked
  <2> DEFINE g == pool["primary"]
             cmd == [op |-> "set", key |-> k, type |-> t, meant |-> TypeDef(g, t)]
  <2>1. SetSucceeds(g, keys["primary"][k], t) /\ t \in TypesIn(g) /\ Perform(cmd) /\ UNCHANGED asked
    BY <1>3 DEF Set, SetSucceeds
  <2>2. g \in FileMap /\ g = disk["primary"]
    BY <2>1 DEF ServersInv, TypeOK, HostsOK, Perform, Hosts
  <2>3. TypeDef(g, t) \in Contents
    BY <2>1, <2>2, TypeDefIsContent
  <2>4. cmd \in Commands
    BY <2>3 DEF Commands
  <2>5. Gives(disk["primary"], t, TypeDef(g, t))
    BY <2>1, <2>2 DEF Gives
  <2>6. cmd.key = k /\ cmd.type = t /\ cmd.meant = TypeDef(g, t)
    OBVIOUS
  <2> HIDE DEF cmd
  <2> QED
    BY <1>0, <2>1, <2>4, <2>5, <2>6
<1> QED
  BY <1>1, <1>2, <1>3

LEMMA ClientStep ==
  ASSUME ServersInv,
         \/ \E o \in Offers : Import(o[1], o[2])
         \/ \E k \in Keys : Del(k) \/ \E t \in Types : Set(k, t)
  PROVE  ServersInv'
  BY ClientCommands, PerformStep

-----------------------------------------------------------------------------
(***************************************************************************)
(* Saving, and the replica.                                                *)
(***************************************************************************)

LEMMA SaveStep == ASSUME ServersInv, Save PROVE ServersInv'
<1> USE DEF ServersInv
<1> DEFINE ks == keys["primary"]
<1>1. /\ UNCHANGED <<mode, registryVars, keys, format, loaded, linkVars, history, faults>>
      /\ saved' = Snapshot(ks) /\ mode["primary"] = "serving"
  BY DEF Save
<1>2. "primary" \in Hosts /\ ks \in KeyMap /\ loaded = 0
  BY <1>1 DEF Hosts, TypeOK, KeyMap, SavedOK
<1>3. Meant(disk["primary"], ks)
  BY <1>2 DEF HostsOK
<1> HIDE DEF ks
<1>4. /\ saved' \in Seq(Commands)
      /\ \A i \in DOMAIN saved' : saved'[i].op = "set"
      /\ SavedMeant(disk["primary"], saved')
  BY <1>1, <1>2, <1>3, SnapshotOfKeys DEF SavedMeant, Meant
<1>5. TypeOK'
  BY <1>1, <1>2, <1>4 DEF TypeOK, registryVars, linkVars, history
<1>6. HostsOK'
  BY <1>1 DEF HostsOK, Meant, registryVars
<1>7. SavedOK'
  BY <1>1, <1>2, <1>4 DEF SavedOK, SavedMeant, registryVars
<1> QED
  BY <1>5, <1>6, <1>7

LEMMA ReplicaApplyStep ==
  ASSUME ServersInv, mode["replica"] # "down", ReplicaApply
  PROVE  ServersInv'
<1> USE DEF ServersInv
<1> DEFINE c == Head(stream)
<1>1. /\ UNCHANGED <<mode, batch, pool, disk, savedVars, link, history, faults>>
      /\ Run("replica", c) /\ stream' = Tail(stream) /\ stream # <<>>
      /\ missed' = MissedAfter(pool["replica"], keys["replica"], missed, c)
  BY DEF ReplicaApply
<1>2. "replica" \in Hosts /\ stream \in Seq(Commands) /\ missed \subseteq Keys
  BY DEF Hosts, TypeOK
<1>3. c \in Commands /\ stream' \in Seq(Commands)
  BY <1>1, <1>2
<1> HIDE DEF c
<1>4. tasks' \in [Hosts -> FileMap] /\ keys' \in [Hosts -> KeyMap] /\ HostsOK'
  BY <1>1, <1>2, <1>3, RunKeeps
<1>5. missed' \subseteq Keys
  BY <1>1, <1>2, <1>3, CommandParts DEF MissedAfter
<1>6. TypeOK'
  BY <1>1, <1>3, <1>4, <1>5 DEF TypeOK, KeyMap, savedVars, history
<1>7. SavedOK'
  BY <1>1 DEF SavedOK, SavedMeant, savedVars
<1> QED
  BY <1>4, <1>6, <1>7

\* The keys of one host are replaced by others that its directory gives their meaning.
LEMMA KeysReplaced ==
  ASSUME ServersInv, NEW h \in Hosts, mode[h] # "down", NEW ks \in KeyMap,
         Meant(disk[h], ks), keys' = [keys EXCEPT ![h] = ks],
         UNCHANGED <<mode, pool, disk>>
  PROVE  keys' \in [Hosts -> KeyMap] /\ HostsOK'
<1> USE DEF ServersInv
<1>1. keys \in [Hosts -> KeyMap]
  BY DEF TypeOK, KeyMap
<1>2. keys' \in [Hosts -> KeyMap]
  BY <1>1
<1>3. keys'[h] = ks /\ \A g \in Hosts : g # h => keys'[g] = keys[g]
  BY <1>1
<1>4. HostsOK'
  <2> SUFFICES ASSUME NEW g \in Hosts
               PROVE  /\ mode[g] # "down" => pool[g] = disk[g] /\ Loadable(disk[g])
                      /\ mode[g] = "down" => keys'[g] = NoKeys
                      /\ Meant(disk[g], keys'[g])
    BY DEF HostsOK, Meant, NoKeys
  <2>1. CASE g = h
    BY <2>1, <1>3 DEF HostsOK
  <2>2. CASE g # h
    BY <2>2, <1>3 DEF HostsOK
  <2> QED
    BY <2>1, <2>2
<1> QED
  BY <1>2, <1>4

LEMMA SyncStep == ASSUME ServersInv, Sync PROVE ServersInv'
<1> USE DEF ServersInv
<1> DEFINE g == pool["replica"]
           s == Snapshot(keys["primary"])
           ks == IF Readable(g, s) THEN LoadedKeys(g, s) ELSE NoKeys
<1>1. /\ UNCHANGED <<mode, registryVars, savedVars, stream, missed, history, faults>>
      /\ keys' = [keys EXCEPT !["replica"] = ks]
      /\ link' \in BOOLEAN
  BY DEF Sync, TypeOK
<1>2. "replica" \in Hosts /\ mode["replica"] # "down"
  BY DEF Sync, Hosts
<1>3. g \in FileMap /\ g = disk["replica"] /\ keys["primary"] \in KeyMap
  BY <1>2 DEF TypeOK, HostsOK, Hosts, KeyMap
<1>4. s \in Seq(Commands)
  BY <1>3, SnapshotOfKeys
<1>5. ks \in KeyMap /\ Meant(disk["replica"], ks)
  BY <1>3, <1>4, LoadedKeysMeant, NoKeysMeant
<1> HIDE DEF ks
<1>6. keys' \in [Hosts -> KeyMap] /\ HostsOK'
  BY <1>1, <1>2, <1>5, KeysReplaced DEF registryVars
<1>7. TypeOK'
  BY <1>1, <1>6 DEF TypeOK, KeyMap, registryVars, savedVars, history
<1>8. SavedOK'
  BY <1>1 DEF SavedOK, SavedMeant, registryVars, savedVars
<1> QED
  BY <1>6, <1>7, <1>8

LEMMA EmptyIsSeq == \A S : <<>> \in Seq(S)
  OBVIOUS

LEMMA LinkLostStep == ASSUME ServersInv, LinkLost PROVE ServersInv'
<1> USE DEF ServersInv
<1>1. /\ UNCHANGED <<mode, registryVars, keys, savedVars, history>>
      /\ link' = FALSE /\ stream' = <<>> /\ missed' = {}
  BY DEF LinkLost, Unlink
<1>2. /\ faults' \in 0..MaxFaults
      /\ link' \in BOOLEAN /\ stream' \in Seq(Commands) /\ missed' \subseteq Keys
  <2>1. stream' \in Seq(Commands)
    BY <1>1, EmptyIsSeq
  <2>2. faults \in 0..MaxFaults
    BY DEF TypeOK
  <2>3. faults' \in 0..MaxFaults
    BY <2>2, BoundsAssumption DEF LinkLost
  <2> QED
    BY <1>1, <2>1, <2>3
<1>3. TypeOK'
  BY <1>1, <1>2 DEF TypeOK, registryVars, savedVars, history
<1>4. HostsOK'
  BY <1>1 DEF HostsOK, Meant, registryVars
<1>5. SavedOK'
  BY <1>1 DEF SavedOK, SavedMeant, registryVars, savedVars
<1> QED
  BY <1>3, <1>4, <1>5

-----------------------------------------------------------------------------
(***************************************************************************)
(* Crashes and restarts.                                                   *)
(***************************************************************************)

\* What a crash makes of a directory: nothing, or one more file.
LEMMA CrashAddsFile ==
  ASSUME ServersInv, NEW h \in Hosts, Crash(h)
  PROVE  /\ disk' \in [Hosts -> FileMap]
         /\ \A g \in Hosts : g # h => disk'[g] = disk[g]
         /\ \A e \in Files : disk[h][e] # None => disk'[h][e] = disk[h][e]
<1>1. disk \in [Hosts -> FileMap] /\ batch \in [Hosts -> FileMap]
  BY DEF ServersInv, TypeOK
<1>2. CASE UNCHANGED disk
  BY <1>1, <1>2
<1>3. ASSUME NEW f \in Files, NEW c \in {batch[h][f], Empty}, batch[h][f] # None,
             disk[h][f] = None, disk' = [disk EXCEPT ![h][f] = c]
      PROVE  /\ disk' \in [Hosts -> FileMap]
             /\ \A g \in Hosts : g # h => disk'[g] = disk[g]
             /\ \A e \in Files : disk[h][e] # None => disk'[h][e] = disk[h][e]
  <2>1. c \in Contents
    BY <1>1, <1>3, EmptyAssumption DEF FileMap
  <2>2. [disk[h] EXCEPT ![f] = c] \in FileMap
    BY <1>1, <2>1 DEF FileMap
  <2>3. disk' = [disk EXCEPT ![h] = [disk[h] EXCEPT ![f] = c]]
    BY <1>1, <1>3
  <2>4. \A e \in Files : disk[h][e] # None => [disk[h] EXCEPT ![f] = c][e] = disk[h][e]
    BY <1>1, <1>3 DEF FileMap
  <2> QED
    BY <1>1, <2>2, <2>3, <2>4
<1> QED
  BY <1>2, <1>3 DEF Crash

LEMMA CrashStep == ASSUME ServersInv, NEW h \in Hosts, Crash(h) PROVE ServersInv'
<1> USE DEF ServersInv
<1>1. /\ UNCHANGED <<savedVars, history>>
      /\ link' = FALSE /\ stream' = <<>> /\ missed' = {}
      /\ mode[h] # "down"
  BY DEF Crash, Unlink
<1>2. /\ mode' = [mode EXCEPT ![h] = "down"]
      /\ tasks' = [tasks EXCEPT ![h] = NoFiles]
      /\ batch' = [batch EXCEPT ![h] = NoFiles]
      /\ pool' = [pool EXCEPT ![h] = NoFiles]
      /\ keys' = [keys EXCEPT ![h] = NoKeys]
  BY DEF Crash
<1>3. /\ mode \in [Hosts -> {"serving", "loading", "down"}]
      /\ tasks \in [Hosts -> FileMap] /\ batch \in [Hosts -> FileMap]
      /\ pool \in [Hosts -> FileMap] /\ disk \in [Hosts -> FileMap]
      /\ keys \in [Hosts -> KeyMap]
  BY DEF TypeOK, KeyMap
<1>4. /\ mode' \in [Hosts -> {"serving", "loading", "down"}]
      /\ tasks' \in [Hosts -> FileMap] /\ batch' \in [Hosts -> FileMap]
      /\ pool' \in [Hosts -> FileMap]
      /\ keys' \in [Hosts -> KeyMap]
  BY <1>2, <1>3, NoFilesLoad, NoKeysMeant
<1>5. /\ disk' \in [Hosts -> FileMap]
      /\ \A g \in Hosts : g # h => disk'[g] = disk[g]
      /\ \A e \in Files : disk[h][e] # None => disk'[h][e] = disk[h][e]
  BY CrashAddsFile
<1>6. /\ faults' \in 0..MaxFaults
      /\ link' \in BOOLEAN /\ stream' \in Seq(Commands) /\ missed' \subseteq Keys
  <2>1. stream' \in Seq(Commands)
    BY <1>1, EmptyIsSeq
  <2>2. faults \in 0..MaxFaults
    BY DEF TypeOK
  <2>3. faults' \in 0..MaxFaults
    BY <2>2, BoundsAssumption DEF Crash
  <2> QED
    BY <1>1, <2>1, <2>3
<1>7. TypeOK'
  BY <1>1, <1>4, <1>5, <1>6 DEF TypeOK, KeyMap, savedVars, history
<1>8. mode'[h] = "down" /\ keys'[h] = NoKeys
  BY <1>2, <1>3
<1>9. \A g \in Hosts : g # h => mode'[g] = mode[g] /\ keys'[g] = keys[g] /\ pool'[g] = pool[g]
  BY <1>2, <1>3
<1>10. HostsOK'
  <2> SUFFICES ASSUME NEW g \in Hosts
               PROVE  /\ mode'[g] # "down" => pool'[g] = disk'[g] /\ Loadable(disk'[g])
                      /\ mode'[g] = "down" => keys'[g] = NoKeys
                      /\ Meant(disk'[g], keys'[g])
    BY DEF HostsOK, Meant, NoKeys
  <2>1. CASE g = h
    BY <2>1, <1>8, NoKeysMeant
  <2>2. CASE g # h
    BY <2>2, <1>5, <1>9 DEF HostsOK
  <2> QED
    BY <2>1, <2>2
<1>11. SavedOK'
  <2>1. Loadable(disk'["primary"]) => SavedMeant(disk'["primary"], saved)
    <3> SUFFICES ASSUME Loadable(disk'["primary"]) PROVE SavedMeant(disk'["primary"], saved)
      OBVIOUS
    <3>1. CASE h = "primary"
      <4>1. SavedMeant(disk[h], saved)
        BY <3>1, <1>1 DEF HostsOK, SavedOK
      <4>2. \A t, def : Gives(disk[h], t, def) => Gives(disk'[h], t, def)
        BY <3>1, <1>3, <1>5, GivesGrows
      <4> QED
        BY <3>1, <4>1, <4>2 DEF SavedMeant
    <3>2. CASE h # "primary"
      BY <3>2, <1>5 DEF SavedOK, Hosts
    <3> QED
      BY <3>1, <3>2
  <2>2. mode'["primary"] \in {mode["primary"], "down"}
    BY <1>8, <1>9 DEF Hosts
  <2> QED
    BY <1>1, <2>1, <2>2 DEF SavedOK, SavedMeant, savedVars
<1> QED
  BY <1>7, <1>10, <1>11

\* A host that reads its directory serves it.
LEMMA Reads ==
  ASSUME ServersInv, NEW h \in Hosts, Loadable(disk[h]), mode[h] = "down",
         NEW m \in {"serving", "loading"}, mode' = [mode EXCEPT ![h] = m],
         pool' = [pool EXCEPT ![h] = disk[h]],
         NEW ks \in KeyMap, Meant(disk[h], ks), keys' = [keys EXCEPT ![h] = ks],
         UNCHANGED disk
  PROVE  /\ mode' \in [Hosts -> {"serving", "loading", "down"}]
         /\ pool' \in [Hosts -> FileMap]
         /\ keys' \in [Hosts -> KeyMap]
         /\ HostsOK'
<1> USE DEF ServersInv
<1>1. /\ mode \in [Hosts -> {"serving", "loading", "down"}]
      /\ pool \in [Hosts -> FileMap] /\ disk \in [Hosts -> FileMap]
      /\ keys \in [Hosts -> KeyMap]
  BY DEF TypeOK, KeyMap
<1>2. /\ mode' \in [Hosts -> {"serving", "loading", "down"}]
      /\ pool' \in [Hosts -> FileMap]
      /\ keys' \in [Hosts -> KeyMap]
  BY <1>1
<1>3. mode'[h] = m /\ pool'[h] = disk[h] /\ keys'[h] = ks
  BY <1>1
<1>4. \A g \in Hosts : g # h => mode'[g] = mode[g] /\ keys'[g] = keys[g] /\ pool'[g] = pool[g]
  BY <1>1
<1>5. HostsOK'
  <2> SUFFICES ASSUME NEW g \in Hosts
               PROVE  /\ mode'[g] # "down" => pool'[g] = disk[g] /\ Loadable(disk[g])
                      /\ mode'[g] = "down" => keys'[g] = NoKeys
                      /\ Meant(disk[g], keys'[g])
    BY DEF HostsOK, Meant, NoKeys
  <2>1. CASE g = h
    BY <2>1, <1>3
  <2>2. CASE g # h
    BY <2>2, <1>4 DEF HostsOK
  <2> QED
    BY <2>1, <2>2
<1> QED
  BY <1>2, <1>5

\* What was saved is loaded with the types of the directory.
LEMMA RestartPrimaryStep == ASSUME ServersInv, RestartPrimary PROVE ServersInv'
<1> USE DEF ServersInv
<1> DEFINE d == disk["primary"]
<1>1. /\ mode["primary"] = "down" /\ Loadable(d) /\ pool' = [pool EXCEPT !["primary"] = d]
      /\ UNCHANGED <<tasks, batch, disk, format, saved, linkVars, history, faults>>
  BY DEF RestartPrimary
<1>2. /\ "primary" \in Hosts /\ d \in FileMap /\ saved \in Seq(Commands)
      /\ keys \in [Hosts -> KeyMap] /\ keys["primary"] = NoKeys
  BY <1>1 DEF Hosts, TypeOK, HostsOK, KeyMap
<1>3. PICK m \in {"serving", "loading"}, ks \in KeyMap :
        /\ mode' = [mode EXCEPT !["primary"] = m] /\ keys' = [keys EXCEPT !["primary"] = ks]
        /\ Meant(d, ks) /\ loaded' = 0 /\ (format = "rdb" => m = "serving")
  <2>1. CASE /\ format = "rdb" /\ Readable(d, saved)
             /\ mode' = [mode EXCEPT !["primary"] = "serving"]
             /\ keys' = [keys EXCEPT !["primary"] = LoadedKeys(d, saved)]
             /\ UNCHANGED loaded
    <3>1. LoadedKeys(d, saved) \in KeyMap /\ Meant(d, LoadedKeys(d, saved))
      BY <1>2, <2>1, LoadedKeysMeant
    <3>2. loaded' = 0
      BY <2>1 DEF SavedOK
    <3> QED
      BY <2>1, <3>1, <3>2
  <2>2. CASE /\ format = "aof"
             /\ mode' = [mode EXCEPT !["primary"] = "loading"]
             /\ loaded' = 0
             /\ UNCHANGED keys
    <3>1. keys' = [keys EXCEPT !["primary"] = NoKeys]
      BY <1>2, <2>2
    <3> QED
      BY <2>2, <3>1, NoKeysMeant
  <2> QED
    BY <2>1, <2>2 DEF RestartPrimary
<1>4. /\ mode' \in [Hosts -> {"serving", "loading", "down"}]
      /\ pool' \in [Hosts -> FileMap] /\ keys' \in [Hosts -> KeyMap] /\ HostsOK'
  BY <1>1, <1>2, <1>3, Reads
<1>5. loaded' \in 0..Len(saved) /\ mode'["primary"] = m
  BY <1>2, <1>3 DEF TypeOK
<1> HIDE DEF d
<1>6. TypeOK'
  BY <1>1, <1>4, <1>5 DEF TypeOK, KeyMap, linkVars, history
<1>7. SavedOK'
  BY <1>1, <1>3, <1>5 DEF SavedOK, SavedMeant
<1> QED
  BY <1>4, <1>6, <1>7

LEMMA LoadCommandStep == ASSUME ServersInv, LoadCommand PROVE ServersInv'
<1> USE DEF ServersInv
<1> DEFINE c == saved[loaded + 1]
<1>1. /\ UNCHANGED <<mode, batch, pool, disk, format, saved, linkVars, history, faults>>
      /\ mode["primary"] = "loading" /\ Run("primary", c)
      /\ loaded < Len(saved) /\ loaded' = loaded + 1
  BY DEF LoadCommand
<1>2. "primary" \in Hosts /\ saved \in Seq(Commands) /\ loaded \in 0..Len(saved)
  BY DEF Hosts, TypeOK
<1>3. c \in Commands /\ loaded' \in 0..Len(saved)
  BY <1>1, <1>2
<1> HIDE DEF c
<1>4. tasks' \in [Hosts -> FileMap] /\ keys' \in [Hosts -> KeyMap] /\ HostsOK'
  BY <1>1, <1>2, <1>3, RunKeeps
<1>5. TypeOK'
  BY <1>1, <1>3, <1>4 DEF TypeOK, KeyMap, linkVars, history
<1>6. SavedOK'
  BY <1>1 DEF SavedOK, SavedMeant
<1> QED
  BY <1>4, <1>5, <1>6

LEMMA LoadDoneStep == ASSUME ServersInv, LoadDone PROVE ServersInv'
<1> USE DEF ServersInv
<1>1. /\ UNCHANGED <<registryVars, keys, format, saved, linkVars, history, faults>>
      /\ mode["primary"] = "loading" /\ loaded' = 0
      /\ mode' = [mode EXCEPT !["primary"] = "serving"]
  BY DEF LoadDone
<1>2. saved \in Seq(Commands) /\ mode \in [Hosts -> {"serving", "loading", "down"}]
  BY DEF TypeOK
<1>3. /\ mode' \in [Hosts -> {"serving", "loading", "down"}] /\ loaded' \in 0..Len(saved)
      /\ \A h \in Hosts : (mode'[h] = "down" <=> mode[h] = "down")
      /\ mode'["primary"] = "serving"
  BY <1>1, <1>2 DEF Hosts
<1>4. TypeOK'
  BY <1>1, <1>3 DEF TypeOK, registryVars, linkVars, history
<1>5. HostsOK'
  BY <1>1, <1>3 DEF HostsOK, Meant, registryVars
<1>6. SavedOK'
  BY <1>1, <1>3 DEF SavedOK, SavedMeant, registryVars
<1> QED
  BY <1>4, <1>5, <1>6

LEMMA RestartReplicaStep == ASSUME ServersInv, RestartReplica PROVE ServersInv'
<1> USE DEF ServersInv
<1>1. /\ mode["replica"] = "down" /\ Loadable(disk["replica"])
      /\ mode' = [mode EXCEPT !["replica"] = "serving"]
      /\ pool' = [pool EXCEPT !["replica"] = disk["replica"]]
      /\ UNCHANGED <<tasks, batch, disk, keys, savedVars, linkVars, history, faults>>
  BY DEF RestartReplica
<1>2. /\ "replica" \in Hosts /\ keys \in [Hosts -> KeyMap] /\ keys["replica"] = NoKeys
      /\ mode \in [Hosts -> {"serving", "loading", "down"}]
  BY <1>1 DEF Hosts, TypeOK, HostsOK, KeyMap
<1>3. keys' = [keys EXCEPT !["replica"] = NoKeys]
  BY <1>1, <1>2
<1>4. /\ mode' \in [Hosts -> {"serving", "loading", "down"}]
      /\ pool' \in [Hosts -> FileMap] /\ HostsOK'
  BY <1>1, <1>2, <1>3, NoKeysMeant, Reads
<1>5. TypeOK'
  BY <1>1, <1>4 DEF TypeOK, savedVars, linkVars, history
<1>6. mode'["primary"] = mode["primary"]
  BY <1>1, <1>2 DEF Hosts
<1>7. SavedOK'
  BY <1>1, <1>6 DEF SavedOK, SavedMeant, savedVars
<1> QED
  BY <1>4, <1>5, <1>7

-----------------------------------------------------------------------------
(***************************************************************************)
(* Every step keeps the invariant.                                         *)
(***************************************************************************)

\* Both ends of a connection run.
Linked ==
    /\ mode \in [Hosts -> {"serving", "loading", "down"}]
    /\ link => \A h \in Hosts : mode[h] # "down"

LEMMA LinkedStep == Linked /\ [Next]_vars => Linked'
<1> SUFFICES ASSUME Linked, [Next]_vars PROVE Linked'
  OBVIOUS
<1>1. ASSUME NEW h \in Hosts, LoaderStep(h) \/ Crash(h) PROVE Linked'
  <2>1. CASE LoaderStep(h)
    BY <2>1 DEF LoaderStep, Take, ImportFile, linkVars, Linked
  <2>2. CASE Crash(h)
    BY <2>2 DEF Crash, Unlink, Linked
  <2> QED
    BY <1>1, <2>1, <2>2
<1>2. CASE \/ \E o \in Offers : Import(o[1], o[2])
           \/ \E k \in Keys : Del(k) \/ \E t \in Types : Set(k, t)
  <2>1. UNCHANGED <<mode, link>>
    BY <1>2 DEF Import, Del, Set, Perform
  <2> QED
    BY <2>1 DEF Linked
<1>3. CASE Save \/ ReplicaApply \/ LoadCommand
  BY <1>3 DEF Save, ReplicaApply, LoadCommand, linkVars, Linked
<1>4. CASE Sync
  BY <1>4 DEF Sync, Linked
<1>5. CASE LinkLost
  BY <1>5 DEF LinkLost, Unlink, Linked
<1>6. CASE RestartPrimary \/ RestartReplica \/ LoadDone
  <2>1. UNCHANGED link /\ \E h \in Hosts, m \in {"serving", "loading"} : mode' = [mode EXCEPT ![h] = m]
    BY <1>6 DEF RestartPrimary, RestartReplica, LoadDone, linkVars, Hosts
  <2> QED
    BY <2>1 DEF Linked
<1>7. CASE UNCHANGED vars
  BY <1>7 DEF vars, linkVars, Linked
<1> QED
  BY <1>1, <1>2, <1>3, <1>4, <1>5, <1>6, <1>7 DEF Next

LEMMA InvStep == ServersInv /\ Linked /\ [Next]_vars => ServersInv'
<1> SUFFICES ASSUME ServersInv, Linked, [Next]_vars PROVE ServersInv'
  OBVIOUS
<1>1. ASSUME NEW h \in Hosts, LoaderStep(h) \/ Crash(h) PROVE ServersInv'
  BY <1>1, TakeStep, ImportStep, CrashStep DEF LoaderStep
<1>2. CASE \/ \E o \in Offers : Import(o[1], o[2])
           \/ \E k \in Keys : Del(k) \/ \E t \in Types : Set(k, t)
  BY <1>2, ClientStep
<1>3. CASE ReplicaApply
  <2>1. mode["replica"] # "down"
    BY <1>3 DEF ReplicaApply, Linked, Hosts
  <2> QED
    BY <1>3, <2>1, ReplicaApplyStep
<1>4. CASE Save \/ Sync \/ LinkLost \/ RestartPrimary \/ LoadCommand \/ LoadDone \/ RestartReplica
  BY <1>4, SaveStep, SyncStep, LinkLostStep, RestartPrimaryStep, LoadCommandStep,
     LoadDoneStep, RestartReplicaStep
<1>5. CASE UNCHANGED vars
  BY <1>5, InvUnchanged
<1> QED
  BY <1>1, <1>2, <1>3, <1>4, <1>5 DEF Next

LEMMA AlwaysInv == Spec => []ServersInv
<1>1. Init => Linked
  BY DEF Init, Each, Linked
<1> QED
  BY <1>1, ServersInit, LinkedStep, InvStep, PTL DEF Spec

-----------------------------------------------------------------------------
(***************************************************************************)
(* The append-only file leads to what clients were told.                   *)
(***************************************************************************)

\* What is left of the file once the first n commands have been replayed.
Left(cs, n) == SubSeq(cs, n + 1, Len(cs))

LEMMA LeftParts ==
  ASSUME NEW cs \in Seq(Commands), NEW n \in 0..Len(cs)
  PROVE  /\ Left(cs, n) \in Seq(Commands) /\ Left(cs, 0) = cs /\ Left(cs, Len(cs)) = <<>>
         /\ n < Len(cs) => /\ Left(cs, n) # <<>> /\ Head(Left(cs, n)) = cs[n + 1]
                           /\ Tail(Left(cs, n)) = Left(cs, n + 1)
<1>1. Left(cs, n) \in Seq(Commands) /\ Left(cs, 0) = cs /\ Left(cs, Len(cs)) = <<>>
  BY DEF Left
<1>2. ASSUME n < Len(cs)
      PROVE  /\ Left(cs, n) # <<>> /\ Head(Left(cs, n)) = cs[n + 1]
             /\ Tail(Left(cs, n)) = Left(cs, n + 1)
  <2>1. n + 1 \in 1..Len(cs) /\ Len(cs) \in (n + 1)..Len(cs) /\ n + 1 <= Len(cs)
    BY <1>2
  <2>2. Head(Left(cs, n)) = cs[n + 1] /\ Tail(Left(cs, n)) = Left(cs, n + 1)
    <3>1. Tail(Left(cs, n)) = SubSeq(cs, (n + 1) + 1, Len(cs))
      BY <2>1, HeadTailOfSubSeq DEF Left
    <3> QED
      BY <3>1, <2>1, HeadTailOfSubSeq DEF Left
  <2>3. Len(Left(cs, n)) # 0
    BY <2>1 DEF Left
  <2> QED
    BY <2>2, <2>3
<1> QED
  BY <1>1, <1>2

\* The primary replays its file with the types of its directory, of which there may be
\* more than there were.
LEMMA LosesNothingKept ==
  ASSUME ServersInv, ServersInv', CrashLosesNothing, mode'["primary"] # "down",
         mode'["primary"] = mode["primary"], keys'["primary"] = keys["primary"],
         UNCHANGED savedVars
  PROVE  CrashLosesNothing'
<1> DEFINE d == disk["primary"]
           e == disk'["primary"]
<1>1. /\ d \in FileMap /\ e \in FileMap /\ saved \in Seq(Commands)
      /\ keys["primary"] \in KeyMap /\ loaded \in 0..Len(saved)
  BY DEF ServersInv, TypeOK, Hosts, KeyMap
<1>2. /\ pool["primary"] = d /\ Loadable(d) /\ SavedMeant(d, saved)
      /\ pool'["primary"] = e /\ SavedMeant(e, saved)
  BY DEF ServersInv, HostsOK, SavedOK, Hosts, savedVars, SavedMeant
<1>3. SavedMeant(d, Left(saved, loaded)) /\ SavedMeant(e, Left(saved, loaded))
  <2>1. \A i \in DOMAIN Left(saved, loaded) :
            i + loaded \in DOMAIN saved /\ Left(saved, loaded)[i] = saved[i + loaded]
    BY <1>1 DEF Left
  <2> QED
    BY <1>2, <2>1 DEF SavedMeant
<1>4. Left(saved, loaded) \in Seq(Commands) /\ NoKeys \in KeyMap
  BY <1>1, LeftParts, NoKeysMeant
<1> HIDE DEF d, e
<1>5. /\ Replay(e, NoKeys, saved) = Replay(d, NoKeys, saved)
      /\ Replay(e, keys["primary"], Left(saved, loaded))
            = Replay(d, keys["primary"], Left(saved, loaded))
  BY <1>1, <1>2, <1>3, <1>4, ReplayGrows
<1> QED
  BY <1>2, <1>5 DEF CrashLosesNothing, Left, savedVars, d, e

LEMMA LosesNothingPerform ==
  ASSUME ServersInv, CrashLosesNothing, NEW c \in Commands, Perform(c)
  PROVE  CrashLosesNothing'
<1> SUFFICES ASSUME format = "aof" PROVE CrashLosesNothing'
  BY DEF Perform, CrashLosesNothing
<1> DEFINE d == disk["primary"]
<1>1. /\ UNCHANGED <<mode, pool, disk, format, loaded>> /\ Run("primary", c)
      /\ mode["primary"] = "serving" /\ saved' = Append(saved, c)
  BY DEF Perform
<1>2. "primary" \in Hosts /\ saved \in Seq(Commands) /\ keys \in [Hosts -> KeyMap]
      /\ d \in FileMap /\ pool["primary"] = d
  BY <1>1 DEF ServersInv, TypeOK, HostsOK, Hosts, KeyMap
<1>3. keys'["primary"] = KeysAfter(d, keys["primary"], c)
  BY <1>1, <1>2 DEF Run
<1>4. keys["primary"] = Replay(d, NoKeys, saved)
  BY <1>1 DEF CrashLosesNothing
<1>5. Replay(d, NoKeys, saved') = KeysAfter(d, Replay(d, NoKeys, saved), c)
  BY <1>1, <1>2, ReplayAppend, NoKeysMeant
<1> QED
  BY <1>1, <1>3, <1>4, <1>5 DEF CrashLosesNothing

LEMMA LosesNothingClient ==
  ASSUME ServersInv, CrashLosesNothing,
         \/ \E o \in Offers : Import(o[1], o[2])
         \/ \E k \in Keys : Del(k) \/ \E t \in Types : Set(k, t)
  PROVE  CrashLosesNothing'
  BY ClientCommands, LosesNothingPerform

LEMMA LosesNothingSave ==
  ASSUME ServersInv, CrashLosesNothing, Save
  PROVE  CrashLosesNothing'
<1> DEFINE d == disk["primary"]
           ks == keys["primary"]
<1>1. /\ UNCHANGED <<mode, registryVars, keys>> /\ mode["primary"] = "serving"
      /\ saved' = Snapshot(ks)
  BY DEF Save
<1>2. d \in FileMap /\ ks \in KeyMap /\ Meant(d, ks)
  BY DEF ServersInv, TypeOK, HostsOK, Hosts, KeyMap
<1>3. Replay(d, NoKeys, saved') = ks
  BY <1>1, <1>2, ReplaySnapshot
<1> QED
  BY <1>1, <1>3 DEF CrashLosesNothing, registryVars

LEMMA LosesNothingRestart ==
  ASSUME ServersInv, RestartPrimary
  PROVE  CrashLosesNothing'
<1> SUFFICES ASSUME format = "aof" PROVE CrashLosesNothing'
  BY DEF RestartPrimary, CrashLosesNothing
<1> DEFINE d == disk["primary"]
<1>1. /\ mode["primary"] = "down" /\ pool' = [pool EXCEPT !["primary"] = d]
      /\ mode' = [mode EXCEPT !["primary"] = "loading"]
      /\ loaded' = 0 /\ UNCHANGED <<disk, keys, format, saved>>
  BY DEF RestartPrimary
<1>2. pool'["primary"] = d /\ mode'["primary"] = "loading" /\ keys["primary"] = NoKeys
  BY <1>1 DEF ServersInv, TypeOK, HostsOK, Hosts
<1>3. saved \in Seq(Commands) /\ Left(saved, 0) = saved
  <2>1. saved \in Seq(Commands) /\ 0 \in 0..Len(saved)
    BY DEF ServersInv, TypeOK
  <2> QED
    BY <2>1, LeftParts
<1> QED
  BY <1>1, <1>2, <1>3 DEF CrashLosesNothing, Left

LEMMA LosesNothingLoad ==
  ASSUME ServersInv, CrashLosesNothing, LoadCommand
  PROVE  CrashLosesNothing'
<1> SUFFICES ASSUME format = "aof" PROVE CrashLosesNothing'
  BY DEF LoadCommand, CrashLosesNothing
<1> DEFINE g == pool["primary"]
           ks == keys["primary"]
           rest == Left(saved, loaded)
           c == saved[loaded + 1]
<1>1. /\ UNCHANGED <<mode, pool, disk, format, saved>> /\ mode["primary"] = "loading"
      /\ loaded < Len(saved) /\ Run("primary", c) /\ loaded' = loaded + 1
  BY DEF LoadCommand
<1>2. g \in FileMap /\ ks \in KeyMap /\ saved \in Seq(Commands) /\ loaded \in 0..Len(saved)
  BY DEF ServersInv, TypeOK, Hosts, KeyMap
<1>3. keys'["primary"] = KeysAfter(g, ks, c)
  BY <1>1 DEF Run, ServersInv, TypeOK, Hosts
<1>4. rest \in Seq(Commands) /\ rest # <<>> /\ Head(rest) = c /\ Tail(rest) = Left(saved, loaded')
  BY <1>1, <1>2, LeftParts
<1> HIDE DEF g, ks, rest, c
<1>5. Replay(g, ks, rest) = Replay(g, KeysAfter(g, ks, c), Left(saved, loaded'))
  BY <1>2, <1>4, ReplayFirst
<1>6. Replay(g, ks, rest) = Replay(disk["primary"], NoKeys, saved)
  BY <1>1 DEF CrashLosesNothing, Left, g, ks, rest
<1> QED
  BY <1>1, <1>3, <1>5, <1>6 DEF CrashLosesNothing, Left, g

LEMMA LosesNothingDone ==
  ASSUME ServersInv, CrashLosesNothing, LoadDone
  PROVE  CrashLosesNothing'
<1>1. /\ UNCHANGED <<registryVars, keys, format, saved>> /\ mode["primary"] = "loading"
      /\ loaded = Len(saved) /\ mode' = [mode EXCEPT !["primary"] = "serving"]
  BY DEF LoadDone
<1>2. /\ keys["primary"] \in KeyMap /\ saved \in Seq(Commands) /\ loaded \in 0..Len(saved)
      /\ mode'["primary"] = "serving"
  BY <1>1 DEF ServersInv, TypeOK, Hosts, KeyMap
<1>3. Left(saved, loaded) = <<>>
  BY <1>1, <1>2, LeftParts
<1>4. Replay(pool["primary"], keys["primary"], Left(saved, loaded)) = keys["primary"]
  BY <1>2, <1>3, ReplayNothing
<1> QED
  BY <1>1, <1>2, <1>4 DEF CrashLosesNothing, Left, registryVars

LEMMA LosesNothingStep ==
  ServersInv /\ ServersInv' /\ CrashLosesNothing /\ [Next]_vars => CrashLosesNothing'
<1> SUFFICES ASSUME ServersInv, ServersInv', CrashLosesNothing, [Next]_vars
             PROVE  CrashLosesNothing'
  OBVIOUS
<1>0. CASE mode'["primary"] = "down"
  BY <1>0 DEF CrashLosesNothing
<1> SUFFICES ASSUME mode'["primary"] # "down" PROVE CrashLosesNothing'
  BY <1>0
<1>1. ASSUME NEW h \in Hosts, LoaderStep(h) \/ Crash(h) PROVE CrashLosesNothing'
  <2>1. UNCHANGED savedVars
    BY <1>1 DEF LoaderStep, Take, ImportFile, Crash
  <2>2. CASE LoaderStep(h)
    BY <2>1, <2>2, LosesNothingKept DEF LoaderStep, Take, ImportFile
  <2>3. CASE Crash(h)
    <3>1. mode' = [mode EXCEPT ![h] = "down"] /\ keys' = [keys EXCEPT ![h] = NoKeys]
      BY <2>3 DEF Crash
    <3>2. mode \in [Hosts -> {"serving", "loading", "down"}] /\ keys \in [Hosts -> KeyMap]
      BY DEF ServersInv, TypeOK, KeyMap
    <3>3. h # "primary"
      BY <3>1, <3>2
    <3>4. mode'["primary"] = mode["primary"] /\ keys'["primary"] = keys["primary"]
      BY <3>1, <3>2, <3>3 DEF Hosts
    <3> QED
      BY <2>1, <3>4, LosesNothingKept
  <2> QED
    BY <1>1, <2>2, <2>3
<1>2. CASE \/ \E o \in Offers : Import(o[1], o[2])
           \/ \E k \in Keys : Del(k) \/ \E t \in Types : Set(k, t)
  BY <1>2, LosesNothingClient
<1>3. CASE Save \/ RestartPrimary \/ LoadCommand \/ LoadDone
  BY <1>3, LosesNothingSave, LosesNothingRestart, LosesNothingLoad, LosesNothingDone
<1>4. CASE ReplicaApply \/ Sync
  <2>1. UNCHANGED <<mode, savedVars>>
    BY <1>4 DEF ReplicaApply, Sync
  <2>2. \E ks : keys' = [keys EXCEPT !["replica"] = ks]
    BY <1>4 DEF ReplicaApply, Run, Sync
  <2>3. keys'["primary"] = keys["primary"]
    BY <2>2 DEF ServersInv, TypeOK, Hosts
  <2> QED
    BY <2>1, <2>3, LosesNothingKept
<1>5. CASE LinkLost
  BY <1>5, LosesNothingKept DEF LinkLost
<1>6. CASE RestartReplica
  <2>1. mode' = [mode EXCEPT !["replica"] = "serving"] /\ UNCHANGED <<keys, savedVars>>
    BY <1>6 DEF RestartReplica
  <2>2. mode'["primary"] = mode["primary"]
    BY <2>1 DEF ServersInv, TypeOK, Hosts
  <2> QED
    BY <2>1, <2>2, LosesNothingKept
<1>7. CASE UNCHANGED vars
  BY <1>7, LosesNothingKept DEF vars
<1> QED
  BY <1>1, <1>2, <1>3, <1>4, <1>5, <1>6, <1>7 DEF Next

LEMMA LosesNothingInit == Init => CrashLosesNothing
<1> SUFFICES ASSUME Init PROVE CrashLosesNothing
  OBVIOUS
<1>1. saved = <<>> /\ mode["primary"] = "serving" /\ keys["primary"] = NoKeys
  BY DEF Init, Each, Hosts
<1>2. Replay(disk["primary"], NoKeys, <<>>) = NoKeys
  BY ReplayNothing, NoKeysMeant
<1> QED
  BY <1>1, <1>2 DEF CrashLosesNothing

-----------------------------------------------------------------------------
(***************************************************************************)
(* The replica follows.  What the primary held when it sent each command   *)
(* leads from what the replica holds to what the primary holds.            *)
(***************************************************************************)

\* A primary that held p sent c, and then held q.
Sent(c, p, q) ==
    CASE c.op = "set" ->
            /\ p[c.key] # None => p[c.key].type = c.type
            /\ q = [p EXCEPT ![c.key] = [type |-> c.type, def |-> c.meant]]
      [] c.op = "del" -> q = [p EXCEPT ![c.key] = None]
      [] OTHER -> q = p

\* A replica that holds r and has passed over m has the keys of p, but for those in m, and
\* no key with another type.
Alike(r, m, p) ==
    \A k \in Keys : /\ r[k] # None => p[k] # None /\ r[k].type = p[k].type
                    /\ k \notin m => (r[k] = None <=> p[k] = None)

LEMMA AlikeStep ==
  ASSUME NEW g \in FileMap, NEW r \in KeyMap, NEW m \in SUBSET Keys, NEW c \in Commands,
         NEW p \in KeyMap, NEW q \in KeyMap, Sent(c, p, q), Alike(r, m, p)
  PROVE  Alike(KeysAfter(g, r, c), MissedAfter(g, r, m, c), q)
<1>1. c.op = "import" \/ c.op = "set" \/ c.op = "del"
  BY CommandParts
<1>2. CASE c.op = "import"
  BY <1>2 DEF KeysAfter, MissedAfter, Sent
<1>3. CASE c.op = "del"
  <2>1. c.key \in Keys
    BY <1>3, CommandParts
  <2>2. /\ KeysAfter(g, r, c) = [r EXCEPT ![c.key] = None] /\ q = [p EXCEPT ![c.key] = None]
        /\ MissedAfter(g, r, m, c) = m \ {c.key}
    BY <1>3 DEF KeysAfter, MissedAfter, Sent
  <2> QED
    BY <2>1, <2>2 DEF KeyMap, Alike
<1>4. CASE c.op = "set"
  <2> DEFINE k == c.key
             e == [type |-> c.type, def |-> c.meant]
  <2>1. k \in Keys /\ e \in [type : Types, def : Contents] /\ e.type = c.type
    BY <1>4, CommandParts
  <2>2. (p[k] # None => p[k].type = c.type) /\ q = [p EXCEPT ![k] = e]
    BY <1>4 DEF Sent
  <2>3. e # None
    BY <2>1, NoneIsNoEntry
  <2> HIDE DEF e, k
  <2>4. q[k] = e /\ \A j \in Keys \ {k} : q[j] = p[j]
    BY <2>1, <2>2 DEF KeyMap
  <2>5. CASE SetSucceeds(g, r[k], c.type)
    <3>1. /\ KeysAfter(g, r, c) = [r EXCEPT ![k] = Entry(g, c.type)]
          /\ MissedAfter(g, r, m, c) = m \ {k}
      BY <1>4, <2>5 DEF KeysAfter, MissedAfter, k
    <3>2. Entry(g, c.type) # None /\ Entry(g, c.type).type = c.type
      BY <2>5, EntryMeant, NoneIsNoEntry DEF SetSucceeds, Entry
    <3> HIDE DEF Entry
    <3>3. /\ KeysAfter(g, r, c)[k] = Entry(g, c.type)
          /\ \A j \in Keys \ {k} : KeysAfter(g, r, c)[j] = r[j]
      BY <2>1, <3>1 DEF KeyMap
    <3> QED
      BY <2>1, <2>3, <2>4, <3>1, <3>2, <3>3 DEF Alike
  <2>6. CASE ~SetSucceeds(g, r[k], c.type)
    <3>1. KeysAfter(g, r, c) = r /\ MissedAfter(g, r, m, c) = m \cup {k}
      BY <1>4, <2>6 DEF KeysAfter, MissedAfter, k
    <3>2. r[k] # None => r[k].type = c.type
      BY <2>1, <2>2 DEF Alike
    <3> QED
      BY <2>1, <2>3, <2>4, <3>1, <3>2 DEF Alike
  <2> QED
    BY <2>5, <2>6
<1> QED
  BY <1>1, <1>2, <1>3, <1>4

\* What the primary held: p[i] after the first i commands that are on their way.
Past(p) ==
    /\ \A i \in 0..Len(stream) : p[i] \in KeyMap
    /\ \A i \in 1..Len(stream) : Sent(stream[i], p[i - 1], p[i])
    /\ p[Len(stream)] = keys["primary"]
    /\ Alike(keys["replica"], missed, p[0])

Following ==
    /\ link => mode["primary"] = "serving" /\ \E p : Past(p)
    /\ ~link => stream = <<>> /\ missed = {}

\* What becomes of the replica along its stream.
Arrival(h) ==
    /\ h[0] = [keys |-> keys["replica"], missed |-> missed]
    /\ \A i \in 0..Len(stream) : h[i] \in [keys : KeyMap, missed : SUBSET Keys]
    /\ \A i \in 1..Len(stream) : h[i] = Applied(pool["replica"], h[i - 1], stream[i])

LEMMA AtEndIs ==
  ASSUME stream \in Seq(Commands), NEW h, Arrival(h)
  PROVE  AtEnd = h[Len(stream)]
<1> DEFINE n == Len(stream)
           b == [keys |-> keys["replica"], missed |-> missed]
           Is(e) == e = [i \in 0..n |->
                           IF i = 0 THEN b ELSE Applied(pool["replica"], e[i - 1], stream[i])]
           f == CHOOSE e : Is(e)
           t == [i \in 0..n |-> h[i]]
<1>1. n \in Nat
  OBVIOUS
<1>2. Is(t)
  <2>1. \A i \in 0..n : i = 0 \/ (i \in 1..n /\ i - 1 \in 0..n)
    BY <1>1
  <2> HIDE DEF b
  <2>2. \A i \in 0..n : h[i] = IF i = 0 THEN b ELSE Applied(pool["replica"], t[i - 1], stream[i])
    BY <1>1, <2>1 DEF Arrival, b
  <2> QED
    BY <2>2, Zenon
<1>3. Is(f)
  BY <1>2
<1>4. AtEnd = f[n]
  BY DEF AtEnd
<1> HIDE DEF f, b
<1>5. f[0] = h[0]
  BY <1>1, <1>3 DEF Arrival, b
<1>6. ASSUME NEW i \in 1..n, f[i - 1] = h[i - 1] PROVE f[i] = h[i]
  <2>1. i \in 0..n /\ i # 0
    BY <1>1
  <2>2. f[i] = Applied(pool["replica"], f[i - 1], stream[i])
    BY <1>3, <2>1
  <2> QED
    BY <1>6, <2>2 DEF Arrival
<1> HIDE DEF Is, n
<1>7. f[n] = h[n]
  BY <1>1, <1>5, <1>6, Agree
<1> QED
  BY <1>4, <1>7 DEF n

LEMMA AppliedTyped ==
  ASSUME NEW g \in FileMap, NEW s \in [keys : KeyMap, missed : SUBSET Keys], NEW c \in Commands
  PROVE  Applied(g, s, c) \in [keys : KeyMap, missed : SUBSET Keys]
<1>1. s.keys \in KeyMap /\ s.missed \subseteq Keys
  OBVIOUS
<1>2. KeysAfter(g, s.keys, c) \in KeyMap
  BY <1>1, KeysAfterTyped
<1>3. MissedAfter(g, s.keys, s.missed, c) \subseteq Keys
  BY <1>1, CommandParts DEF MissedAfter
<1> QED
  BY <1>2, <1>3 DEF Applied

LEMMA ArrivalExists ==
  ASSUME TypeOK
  PROVE  \E h : Arrival(h)
<1> DEFINE n == Len(stream)
           g == pool["replica"]
           S == [keys : KeyMap, missed : SUBSET Keys]
           b == [keys |-> keys["replica"], missed |-> missed]
           step == [i \in 1..n |-> [s \in S |-> Applied(g, s, stream[i])]]
<1>1. n \in Nat /\ g \in FileMap /\ b \in S /\ \A i \in 1..n : stream[i] \in Commands
  BY DEF TypeOK, Hosts, KeyMap
<1>2. \A i \in 1..n : \A s \in S : step[i][s] = Applied(g, s, stream[i])
  OBVIOUS
<1> HIDE DEF step, n, S, b, g
<1>3. StaysIn(step, n, S)
  BY <1>1, <1>2, AppliedTyped DEF StaysIn, S
<1>4. PICK h : Follows(h, b, step, n, S)
  BY <1>1, <1>3, StepsExist
<1>5. \A i \in 1..n : h[i - 1] \in S
  <2>1. \A i \in 1..n : i - 1 \in 0..n
    BY <1>1
  <2> QED
    BY <1>4, <2>1 DEF Follows
<1>6. \A i \in 1..n : h[i] = Applied(g, h[i - 1], stream[i])
  BY <1>2, <1>4, <1>5 DEF Follows
<1> QED
  BY <1>4, <1>6 DEF Follows, Arrival, n, S, b, g

\* So at the end of its stream the replica is like the primary.
LEMMA EndAlike ==
  ASSUME TypeOK, HostsOK, mode["replica"] # "down", NEW p, Past(p)
  PROVE  /\ AtEnd.keys \in KeyMap /\ Meant(pool["replica"], AtEnd.keys)
         /\ Alike(AtEnd.keys, AtEnd.missed, keys["primary"])
<1> DEFINE n == Len(stream)
           g == pool["replica"]
<1>1. PICK h : Arrival(h)
  BY ArrivalExists
<1>2. n \in Nat /\ g \in FileMap /\ g = disk["replica"] /\ \A i \in 1..n : stream[i] \in Commands
  BY DEF TypeOK, HostsOK, Hosts
<1> DEFINE T == {i \in 0..n : Meant(g, h[i].keys) /\ Alike(h[i].keys, h[i].missed, p[i])}
<1>3. 0 \in T
  BY <1>1, <1>2 DEF Arrival, Past, HostsOK, Hosts
<1>4. ASSUME NEW i \in 1..n, i - 1 \in T PROVE i \in T
  <2>1. i \in 0..n /\ i - 1 \in 0..n
    BY <1>2
  <2>2. /\ h[i - 1].keys \in KeyMap /\ h[i - 1].missed \subseteq Keys
        /\ p[i - 1] \in KeyMap /\ p[i] \in KeyMap /\ Sent(stream[i], p[i - 1], p[i])
        /\ Meant(g, h[i - 1].keys) /\ Alike(h[i - 1].keys, h[i - 1].missed, p[i - 1])
    BY <1>1, <1>4, <2>1 DEF Arrival, Past
  <2>3. /\ h[i].keys = KeysAfter(g, h[i - 1].keys, stream[i])
        /\ h[i].missed = MissedAfter(g, h[i - 1].keys, h[i - 1].missed, stream[i])
    <3>1. h[i] = Applied(g, h[i - 1], stream[i])
      BY <1>1 DEF Arrival
    <3> QED
      BY <3>1 DEF Applied
  <2>4. Meant(g, h[i].keys)
    BY <1>2, <2>2, <2>3, KeysAfterMeant
  <2>5. Alike(h[i].keys, h[i].missed, p[i])
    BY <1>2, <2>2, <2>3, AlikeStep
  <2> QED
    BY <2>1, <2>4, <2>5
<1> HIDE DEF T
<1>5. \A i \in 0..n : i \in T
  BY <1>2, <1>3, <1>4, InductTo
<1>6. AtEnd = h[n]
  BY <1>1, AtEndIs DEF TypeOK
<1>7. n \in 0..n /\ n \in T
  BY <1>2, <1>5
<1>8. h[n].keys \in KeyMap /\ p[n] = keys["primary"]
  BY <1>1, <1>7 DEF Arrival, Past
<1> QED
  BY <1>6, <1>7, <1>8 DEF T

LEMMA FollowingSays == ServersInv /\ Linked /\ Following => ReplicaFollows
<1> SUFFICES ASSUME ServersInv, Linked, Following, link, NEW k \in Keys, k \notin AtEnd.missed
             PROVE  \/ keys["primary"][k] = AtEnd.keys[k]
                    \/ /\ keys["primary"][k] # None /\ AtEnd.keys[k] # None
                       /\ keys["primary"][k].type = AtEnd.keys[k].type
                       /\ \E f \in Files : pool["primary"][f] # pool["replica"][f]
  BY Zenon DEF ReplicaFollows
<1> DEFINE here == keys["primary"][k]
           there == AtEnd.keys[k]
<1>1. mode["primary"] # "down" /\ mode["replica"] # "down"
  BY DEF Linked, Hosts
<1>2. PICK p : Past(p)
  BY DEF Following
<1>3. /\ AtEnd.keys \in KeyMap /\ Meant(pool["replica"], AtEnd.keys)
      /\ Alike(AtEnd.keys, AtEnd.missed, keys["primary"])
  BY <1>1, <1>2, EndAlike DEF ServersInv
<1>4. /\ keys["primary"] \in KeyMap /\ Meant(pool["primary"], keys["primary"])
      /\ pool["primary"] \in FileMap /\ pool["replica"] \in FileMap
  BY <1>1 DEF ServersInv, TypeOK, HostsOK, Hosts, KeyMap
<1>5. /\ there = None <=> here = None
      /\ there # None => there.type = here.type
  BY <1>3 DEF Alike
<1>6. CASE pool["primary"] = pool["replica"]
  <2>1. here # None => here.def = there.def
    BY <1>3, <1>4, <1>5, <1>6 DEF Meant, Gives
  <2>2. here \in [type : Types, def : Contents] \cup {None} /\ there \in [type : Types, def : Contents] \cup {None}
    BY <1>3, <1>4 DEF KeyMap
  <2> HIDE DEF here, there
  <2>3. here = there
    BY <1>5, <2>1, <2>2
  <2> QED
    BY <2>3 DEF here, there
<1>7. CASE pool["primary"] # pool["replica"]
  <2>1. \E f \in Files : pool["primary"][f] # pool["replica"][f]
    BY <1>4, <1>7 DEF FileMap
  <2> QED
    BY <1>5, <2>1
<1> QED
  BY <1>6, <1>7

LEMMA FollowingInit == Init => Following
<1> SUFFICES ASSUME Init PROVE Following
  OBVIOUS
<1>1. /\ link /\ stream = <<>> /\ missed = {} /\ mode["primary"] = "serving"
      /\ keys["primary"] = NoKeys /\ keys["replica"] = NoKeys
  BY DEF Init, Each, Hosts
<1> DEFINE p == [i \in 0..0 |-> NoKeys]
<1>2. p[0] = NoKeys /\ Len(stream) = 0 /\ NoKeys \in KeyMap
  BY <1>1, NoKeysMeant
<1> HIDE DEF p
<1>3. Alike(NoKeys, {}, NoKeys)
  BY DEF Alike
<1>4. Past(p)
  BY <1>1, <1>2, <1>3 DEF Past
<1> QED
  BY <1>1, <1>4 DEF Following

\* A step that sends nothing to the replica.
LEMMA FollowingKept ==
  ASSUME Following, UNCHANGED linkVars,
         link => mode'["primary"] = mode["primary"] /\ UNCHANGED keys
  PROVE  Following'
  BY DEF Following, Past, linkVars

LEMMA FollowingPerform ==
  ASSUME ServersInv, Following, NEW c \in Commands, Perform(c),
         c.op = "set" => /\ SetSucceeds(pool["primary"], keys["primary"][c.key], c.type)
                         /\ Gives(disk["primary"], c.type, c.meant)
  PROVE  Following'
<1>1. /\ UNCHANGED <<mode, pool, disk, link, missed>> /\ Run("primary", c)
      /\ mode["primary"] = "serving"
      /\ stream' = IF link THEN Append(stream, c) ELSE stream
  BY DEF Perform
<1> SUFFICES ASSUME link PROVE \E q : Past(q)'
  BY <1>1 DEF Following
<1> DEFINE n == Len(stream)
           ks == keys["primary"]
           new == keys'["primary"]
<1>2. /\ stream \in Seq(Commands) /\ n \in Nat /\ ks \in KeyMap /\ pool["primary"] \in FileMap
      /\ pool["primary"] = disk["primary"]
      /\ keys \in [Hosts -> KeyMap]
  BY <1>1 DEF ServersInv, TypeOK, HostsOK, Hosts, KeyMap
<1>3. new = KeysAfter(pool["primary"], ks, c) /\ keys'["replica"] = keys["replica"]
  BY <1>1, <1>2 DEF Run, Hosts
<1>4. new \in KeyMap
  BY <1>2, <1>3, KeysAfterTyped
<1>5. Sent(c, ks, new)
  <2>1. CASE c.op = "set"
    <3>1. new = [ks EXCEPT ![c.key] = Entry(pool["primary"], c.type)]
      BY <1>3, <2>1 DEF KeysAfter
    <3>2. Entry(pool["primary"], c.type) = [type |-> c.type, def |-> c.meant]
      BY <1>2, <2>1 DEF Gives, Entry
    <3>3. ks[c.key] # None => ks[c.key].type = c.type
      BY <2>1 DEF SetSucceeds
    <3> QED
      BY <2>1, <3>1, <3>2, <3>3 DEF Sent
  <2>2. CASE c.op = "del" \/ c.op = "import"
    BY <1>3, <2>2 DEF KeysAfter, Sent
  <2> QED
    BY <2>1, <2>2, CommandParts
<1>6. PICK p : Past(p)
  BY DEF Following
<1> DEFINE q == [i \in 0..(n + 1) |-> IF i <= n THEN p[i] ELSE new]
<1>7. /\ Len(stream') = n + 1 /\ stream'[n + 1] = c
      /\ \A i \in 1..n : stream'[i] = stream[i]
  BY <1>1, <1>2
<1>8. p[n] = ks /\ \A i \in 0..n : p[i] \in KeyMap
  BY <1>6 DEF Past
<1> HIDE DEF new, ks
<1>9. /\ q[0] = p[0] /\ q[n] = ks /\ q[n + 1] = new
      /\ \A i \in 1..n : q[i] = p[i] /\ q[i - 1] = p[i - 1]
  BY <1>2, <1>8
<1>10. \A i \in 0..(n + 1) : q[i] \in KeyMap
  BY <1>2, <1>4, <1>8
<1> HIDE DEF q
<1>11. ASSUME NEW i \in 1..(n + 1) PROVE Sent(stream'[i], q[i - 1], q[i])
  <2>1. CASE i = n + 1
    <3>1. i - 1 = n
      BY <1>2, <2>1
    <3> QED
      BY <2>1, <3>1, <1>5, <1>7, <1>9
  <2>2. CASE i # n + 1
    <3>1. i \in 1..n
      BY <1>2, <2>2
    <3> QED
      BY <3>1, <1>6, <1>7, <1>9 DEF Past
  <2> QED
    BY <2>1, <2>2
<1>12. Alike(keys'["replica"], missed', q[0])
  BY <1>1, <1>3, <1>6, <1>9 DEF Past
<1>13. PICK e : e = q
  OBVIOUS
<1>14. Past(e)'
  BY <1>7, <1>9, <1>10, <1>11, <1>12, <1>13 DEF Past, new
<1> QED
  BY <1>14

LEMMA FollowingClient ==
  ASSUME ServersInv, Following,
         \/ \E o \in Offers : Import(o[1], o[2])
         \/ \E k \in Keys : Del(k) \/ \E t \in Types : Set(k, t)
  PROVE  Following'
  BY ClientCommands, FollowingPerform

LEMMA FollowingApply ==
  ASSUME ServersInv, Following, ReplicaApply
  PROVE  Following'
<1> DEFINE n == Len(stream)
           c == stream[1]
           g == pool["replica"]
<1>1. /\ UNCHANGED <<mode, link>> /\ link /\ stream # <<>>
      /\ Run("replica", Head(stream)) /\ stream' = Tail(stream)
      /\ missed' = MissedAfter(g, keys["replica"], missed, Head(stream))
  BY DEF ReplicaApply
<1>2. /\ stream \in Seq(Commands) /\ g \in FileMap /\ keys \in [Hosts -> KeyMap]
      /\ missed \in SUBSET Keys
  BY DEF ServersInv, TypeOK, Hosts, KeyMap
<1>3. /\ n \in Nat \ {0} /\ Head(stream) = c /\ c \in Commands /\ Len(stream') = n - 1
      /\ \A i \in 1..(n - 1) : stream'[i] = stream[i + 1]
  BY <1>1, <1>2
<1>4. /\ keys'["replica"] = KeysAfter(g, keys["replica"], c) /\ keys'["primary"] = keys["primary"]
      /\ keys["replica"] \in KeyMap
  BY <1>1, <1>2, <1>3 DEF Run, Hosts
<1>5. PICK p : Past(p)
  BY <1>1 DEF Following
<1>6. /\ 1 \in 1..n /\ 1 - 1 = 0 /\ 0 \in 0..n /\ 1 \in 0..n
      /\ (n - 1) + 1 = n /\ n - 1 \in 0..(n - 1) /\ 0 \in 0..(n - 1)
  BY <1>3
<1>7. /\ Sent(c, p[0], p[1]) /\ p[0] \in KeyMap /\ p[1] \in KeyMap
      /\ Alike(keys["replica"], missed, p[0])
  BY <1>5, <1>6 DEF Past
<1>8. Alike(keys'["replica"], missed', p[1])
  BY <1>1, <1>2, <1>3, <1>4, <1>7, AlikeStep
<1> DEFINE q == [i \in 0..(n - 1) |-> p[i + 1]]
<1>9. q[0] = p[1] /\ q[n - 1] = p[n]
  BY <1>6
<1>10. ASSUME NEW i \in 0..(n - 1) PROVE q[i] \in KeyMap
  <2>1. i + 1 \in 0..n
    BY <1>3
  <2> QED
    BY <1>5, <2>1 DEF Past
<1>11. ASSUME NEW i \in 1..(n - 1) PROVE Sent(stream'[i], q[i - 1], q[i])
  <2>1. i + 1 \in 1..n /\ (i + 1) - 1 = i /\ (i - 1) + 1 = i /\ i \in 0..(n - 1) /\ i - 1 \in 0..(n - 1)
    BY <1>3
  <2>2. q[i] = p[i + 1] /\ q[i - 1] = p[i]
    BY <2>1
  <2>3. Sent(stream[i + 1], p[i], p[i + 1])
    BY <1>5, <2>1 DEF Past
  <2> QED
    BY <1>3, <2>2, <2>3
<1> HIDE DEF q
<1>12. PICK e : e = q
  OBVIOUS
<1>13. e[n - 1] = keys'["primary"]
  BY <1>4, <1>5, <1>9, <1>12 DEF Past
<1>14. Past(e)'
  BY <1>3, <1>8, <1>9, <1>10, <1>11, <1>12, <1>13 DEF Past
<1> QED
  BY <1>1, <1>14 DEF Following

\* A replica that has just loaded the primary's snapshot.
LEMMA FollowingSync ==
  ASSUME ServersInv, Following, Sync
  PROVE  Following'
<1>1. ~link /\ stream = <<>> /\ missed = {} /\ UNCHANGED <<mode, stream, missed>>
      /\ mode["primary"] = "serving"
  BY DEF Sync, Following, Hosts
<1> SUFFICES ASSUME link' PROVE \E q : Past(q)'
  BY <1>1 DEF Following
<1> DEFINE ks == keys["primary"]
           g == pool["replica"]
           cs == Snapshot(ks)
           r == LoadedKeys(g, cs)
<1>2. ks \in KeyMap /\ keys \in [Hosts -> KeyMap]
  BY DEF ServersInv, TypeOK, Hosts, KeyMap
<1>3. keys' = [keys EXCEPT !["replica"] = r] /\ Readable(g, cs)
  BY <1>1 DEF Sync
<1>4. keys'["replica"] = r /\ keys'["primary"] = ks
  BY <1>2, <1>3 DEF Hosts
<1>5. ASSUME NEW k \in Keys PROVE /\ r[k] = None <=> ks[k] = None
                                  /\ r[k] # None => r[k].type = ks[k].type
  <2>1. CASE ks[k] = None
    <3>1. ~ \E i \in DOMAIN cs : cs[i].key = k
      BY <1>2, <2>1, SnapshotOfKeys
    <3> QED
      BY <2>1, <3>1 DEF LoadedKeys
  <2>2. CASE ks[k] # None
    <3> DEFINE j == CHOOSE i \in DOMAIN cs : cs[i].key = k
    <3>1. j \in DOMAIN cs /\ cs[j].key = k
      BY <1>2, <2>2, SnapshotOfKeys
    <3>2. r[k] = Entry(g, cs[j].type)
      BY <3>1 DEF LoadedKeys
    <3> HIDE DEF j
    <3>3. cs[j].type = ks[k].type
      BY <1>2, <3>1, SnapshotOfKeys
    <3>4. cs[j].type \in TypesIn(g) /\ g \in FileMap
      BY <1>3, <3>1 DEF Readable, ServersInv, TypeOK, Hosts
    <3>5. Entry(g, cs[j].type) # None
      BY <3>4, EntryMeant, NoneIsNoEntry
    <3> QED
      BY <2>2, <3>2, <3>3, <3>5 DEF Entry
  <2> QED
    BY <2>1, <2>2
<1> HIDE DEF r, ks
<1>6. Alike(r, {}, ks)
  BY <1>5 DEF Alike
<1> DEFINE q == [i \in 0..0 |-> ks]
<1>7. q[0] = ks /\ Len(stream) = 0
  BY <1>1
<1> HIDE DEF q
<1>8. PICK e : e = q
  OBVIOUS
<1>9. Past(e)'
  BY <1>1, <1>2, <1>4, <1>6, <1>7, <1>8 DEF Past
<1> QED
  BY <1>9

LEMMA FollowingStep ==
  ServersInv /\ Following /\ [Next]_vars => Following'
<1> SUFFICES ASSUME ServersInv, Following, [Next]_vars PROVE Following'
  OBVIOUS
<1>1. ASSUME NEW h \in Hosts, LoaderStep(h) \/ Crash(h) PROVE Following'
  <2>1. CASE LoaderStep(h)
    BY <2>1, FollowingKept DEF LoaderStep, Take, ImportFile
  <2>2. CASE Crash(h)
    BY <2>2 DEF Crash, Unlink, Following
  <2> QED
    BY <1>1, <2>1, <2>2
<1>2. CASE \/ \E o \in Offers : Import(o[1], o[2])
           \/ \E k \in Keys : Del(k) \/ \E t \in Types : Set(k, t)
  BY <1>2, FollowingClient
<1>3. CASE Save
  BY <1>3, FollowingKept DEF Save
<1>4. CASE ReplicaApply
  BY <1>4, FollowingApply
<1>5. CASE Sync
  BY <1>5, FollowingSync
<1>6. CASE LinkLost
  BY <1>6 DEF LinkLost, Unlink, Following
<1>7. CASE RestartPrimary \/ LoadCommand \/ LoadDone
  <2>1. UNCHANGED linkVars /\ mode["primary"] # "serving"
    BY <1>7 DEF RestartPrimary, LoadCommand, LoadDone
  <2> QED
    BY <2>1, FollowingKept DEF Following
<1>8. CASE RestartReplica
  <2>1. mode' = [mode EXCEPT !["replica"] = "serving"] /\ UNCHANGED <<keys, linkVars>>
    BY <1>8 DEF RestartReplica
  <2>2. mode'["primary"] = mode["primary"]
    BY <2>1 DEF ServersInv, TypeOK, Hosts
  <2> QED
    BY <2>1, <2>2, FollowingKept
<1>9. CASE UNCHANGED vars
  BY <1>9, FollowingKept DEF vars
<1> QED
  BY <1>1, <1>2, <1>3, <1>4, <1>5, <1>6, <1>7, <1>8, <1>9 DEF Next

-----------------------------------------------------------------------------
(***************************************************************************)
(* Where a simple file is, while nothing has failed.                       *)
(***************************************************************************)

\* Host h has been asked to import content c as file f, and has not given it up.
OnItsWay(h, f, c) == c \in {tasks[h][f], batch[h][f], pool[h][f]}

InStream(f, c) ==
    \E i \in 1..Len(stream) : /\ stream[i].op = "import"
                              /\ stream[i].file = f /\ stream[i].content = c

\* What is imported is what clients asked for.
OnlyAsked ==
    /\ \A h \in Hosts, f \in Files :
          {tasks[h][f], batch[h][f], pool[h][f]} \subseteq asked[f] \cup {None}
    /\ \A i \in 1..Len(stream) :
          stream[i].op = "import" => stream[i].content \in asked[stream[i].file]

SimpleOnTheirWay ==
    \A f \in Files, c \in Contents : Simple(f, c) =>
        /\ OnItsWay("primary", f, c)
        /\ OnItsWay("replica", f, c) \/ InStream(f, c)

Arriving ==
    faults = 0 => /\ link /\ \A h \in Hosts : mode[h] = "serving"
                  /\ OnlyAsked
                  /\ SimpleOnTheirWay

LEMMA ArrivingSays == ServersInv /\ Arriving => SimpleFilesArrive
<1> SUFFICES ASSUME ServersInv, Arriving, Quiet, faults = 0, NEW f \in Files, NEW c \in Contents,
                    Simple(f, c), NEW h \in Hosts
             PROVE  pool[h][f] = c /\ disk[h][f] = c
  BY DEF SimpleFilesArrive
<1>1. c # None
  BY NoneAssumption
<1>2. tasks[h][f] = None /\ batch[h][f] = None /\ stream = <<>>
  BY DEF Quiet, Present
<1>3. ~InStream(f, c)
  BY <1>2 DEF InStream
<1>4. OnItsWay(h, f, c)
  BY <1>3 DEF Arriving, SimpleOnTheirWay, Hosts
<1>5. pool[h] = disk[h]
  BY DEF Arriving, ServersInv, HostsOK
<1> QED
  BY <1>1, <1>2, <1>4, <1>5 DEF OnItsWay

LEMMA ArrivingInit == Init => Arriving
<1> SUFFICES ASSUME Init PROVE Arriving
  OBVIOUS
<1>1. OnlyAsked
  BY DEF Init, Each, NoFiles, OnlyAsked
<1>2. \A f \in Files, c \in Contents : ~Simple(f, c)
  BY DEF Init, Simple
<1> QED
  BY <1>1, <1>2 DEF Init, Each, Arriving, SimpleOnTheirWay

\* A step of the loader of one host, or of nobody.
LEMMA ArrivingTake ==
  ASSUME ServersInv, Arriving, NEW h \in Hosts, Take(h)
  PROVE  Arriving'
<1>1. UNCHANGED <<mode, pool, linkVars, history, faults>>
  BY DEF Take
<1> SUFFICES ASSUME faults = 0 PROVE Arriving'
  BY <1>1 DEF Arriving
<1>2. tasks \in [Hosts -> FileMap] /\ batch \in [Hosts -> FileMap]
  BY DEF ServersInv, TypeOK
<1>3. /\ batch'[h] = tasks[h] /\ tasks'[h] = NoFiles
      /\ \A g \in Hosts : g # h => batch'[g] = batch[g] /\ tasks'[g] = tasks[g]
      /\ \A f \in Files : batch[h][f] = None
  BY <1>2 DEF Take, Present
<1>4. OnlyAsked /\ SimpleOnTheirWay
  BY DEF Arriving
<1>5. ASSUME NEW g \in Hosts, NEW f \in Files, NEW c \in Contents, OnItsWay(g, f, c)
      PROVE  OnItsWay(g, f, c)'
  <2>1. c # None
    BY NoneAssumption
  <2> QED
    BY <1>1, <1>3, <1>5, <2>1 DEF OnItsWay
<1>6. OnlyAsked'
  <2>1. \A g \in Hosts, f \in Files :
            {tasks'[g][f], batch'[g][f], pool'[g][f]} \subseteq asked[f] \cup {None}
    BY <1>1, <1>3, <1>4 DEF OnlyAsked, NoFiles
  <2> QED
    BY <1>1, <1>4, <2>1 DEF OnlyAsked, linkVars, history
<1>7. SimpleOnTheirWay'
  BY <1>1, <1>4, <1>5 DEF SimpleOnTheirWay, Simple, InStream, linkVars, history, Hosts
<1> QED
  BY <1>1, <1>6, <1>7 DEF Arriving, linkVars

LEMMA ArrivingImportFile ==
  ASSUME ServersInv, Arriving, NEW h \in Hosts, NEW e \in Files, ImportFile(h, e)
  PROVE  Arriving'
<1>1. UNCHANGED <<mode, tasks, linkVars, history, faults>>
  BY DEF ImportFile
<1> SUFFICES ASSUME faults = 0 PROVE Arriving'
  BY <1>1 DEF Arriving
<1>2. batch \in [Hosts -> FileMap] /\ pool \in [Hosts -> FileMap]
  BY DEF ServersInv, TypeOK
<1>3. OnlyAsked /\ SimpleOnTheirWay
  BY DEF Arriving
<1>4. /\ batch[h][e] # None /\ batch'[h][e] = None
      /\ \A g \in Hosts, f \in Files : g # h \/ f # e => batch'[g][f] = batch[g][f]
  BY <1>2 DEF ImportFile, FileMap
<1>5. /\ \A g \in Hosts, f \in Files : g # h \/ f # e => pool'[g][f] = pool[g][f]
      /\ pool'[h][e] = IF pool[h][e] = None /\ BuildsOn(pool[h], batch[h][e])
                       THEN batch[h][e] ELSE pool[h][e]
  <2>1. CASE pool[h][e] = None /\ BuildsOn(pool[h], batch[h][e])
    BY <1>2, <2>1 DEF ImportFile, FileMap
  <2>2. CASE ~(pool[h][e] = None /\ BuildsOn(pool[h], batch[h][e]))
    BY <1>2, <2>2 DEF ImportFile, FileMap
  <2> QED
    BY <2>1, <2>2
<1>6. ASSUME NEW g \in Hosts, NEW f \in Files, NEW c \in Contents, OnItsWay(g, f, c), Simple(f, c)
      PROVE  OnItsWay(g, f, c)'
  <2>1. CASE g # h \/ f # e
    BY <1>1, <1>4, <1>5, <1>6, <2>1 DEF OnItsWay
  <2>2. CASE g = h /\ f = e
    <3>1. batch[h][f] = c
      BY <1>3, <1>4, <1>6, <2>2 DEF OnlyAsked, Simple
    <3>2. pool[h][f] \in {None, c}
      BY <1>3, <1>6, <2>2 DEF OnlyAsked, Simple
    <3>3. ASSUME pool[h][f] = None PROVE BuildsOn(pool[h], c)
      <4>1. ASSUME NEW d \in Present(pool[h]) PROVE Defines[c] \cap Defines[pool[h][d]] = {}
        <5>1. d \in Files \ {f} /\ pool[h][d] \in asked[d]
          BY <1>3, <3>3, <4>1 DEF Present, OnlyAsked
        <5> QED
          BY <1>6, <5>1 DEF Simple
      <4>2. Defines[c] \cap TypesIn(pool[h]) = {}
        BY <4>1 DEF TypesIn
      <4> QED
        BY <1>6, <4>2 DEF Simple, BuildsOn
    <3>4. pool'[h][f] = c
      BY <1>5, <2>2, <3>1, <3>2, <3>3
    <3> QED
      BY <2>2, <3>4 DEF OnItsWay
  <2> QED
    BY <2>1, <2>2
<1>7. OnlyAsked'
  <2>1. ASSUME NEW g \in Hosts, NEW f \in Files
        PROVE  {tasks'[g][f], batch'[g][f], pool'[g][f]} \subseteq asked[f] \cup {None}
    <3>1. {tasks[g][f], batch[g][f], pool[g][f]} \subseteq asked[f] \cup {None}
      BY <1>3 DEF OnlyAsked
    <3>2. batch'[g][f] \in {batch[g][f], None} /\ pool'[g][f] \in {pool[g][f], batch[g][f]}
      BY <1>4, <1>5
    <3> QED
      BY <1>1, <3>1, <3>2
  <2> QED
    BY <1>1, <1>3, <2>1 DEF OnlyAsked, linkVars, history
<1>8. SimpleOnTheirWay'
  BY <1>1, <1>3, <1>6 DEF SimpleOnTheirWay, Simple, InStream, linkVars, history, Hosts
<1> QED
  BY <1>1, <1>7, <1>8 DEF Arriving, linkVars

\* What a host that runs a command is asked to import.
LEMMA RunTasks ==
  ASSUME TypeOK, NEW h \in Hosts, NEW c \in Commands, Run(h, c), UNCHANGED <<batch, pool>>
  PROVE  /\ \A g \in Hosts, f \in Files :
               IF g = h /\ c.op = "import" /\ c.file = f
               THEN tasks'[g][f] = c.content ELSE tasks'[g][f] = tasks[g][f]
  BY CommandParts DEF Run, TasksAfter, TypeOK, FileMap

LEMMA ArrivingApply ==
  ASSUME ServersInv, Arriving, ReplicaApply
  PROVE  Arriving'
<1> DEFINE n == Len(stream)
           c == stream[1]
<1>1. /\ UNCHANGED <<mode, batch, pool, link, history, faults>> /\ stream # <<>>
      /\ Run("replica", Head(stream)) /\ stream' = Tail(stream)
  BY DEF ReplicaApply
<1> SUFFICES ASSUME faults = 0 PROVE Arriving'
  BY <1>1 DEF Arriving
<1>2. stream \in Seq(Commands)
  BY DEF ServersInv, TypeOK
<1>3. /\ n \in Nat \ {0} /\ Head(stream) = c /\ c \in Commands /\ Len(stream') = n - 1
      /\ \A i \in 1..(n - 1) : stream'[i] = stream[i + 1]
  BY <1>1, <1>2
<1>4. OnlyAsked /\ SimpleOnTheirWay
  BY DEF Arriving
<1>5. \A g \in Hosts, f \in Files :
          IF g = "replica" /\ c.op = "import" /\ c.file = f
          THEN tasks'[g][f] = c.content ELSE tasks'[g][f] = tasks[g][f]
  BY <1>1, <1>3, RunTasks DEF ServersInv, Hosts
<1>6. 1 \in 1..n /\ \A i \in 1..(n - 1) : i + 1 \in 1..n
  BY <1>3
<1>7. c.op = "import" => c.content \in asked[c.file]
  BY <1>4, <1>6 DEF OnlyAsked
<1>8. OnlyAsked'
  <2>1. \A g \in Hosts, f \in Files :
            {tasks'[g][f], batch'[g][f], pool'[g][f]} \subseteq asked[f] \cup {None}
    BY <1>1, <1>4, <1>5, <1>7 DEF OnlyAsked
  <2>2. \A i \in 1..(n - 1) :
            stream'[i].op = "import" => stream'[i].content \in asked[stream'[i].file]
    BY <1>3, <1>4, <1>6 DEF OnlyAsked
  <2> QED
    BY <1>1, <1>3, <2>1, <2>2 DEF OnlyAsked, history
<1>9. ASSUME NEW f \in Files, NEW d \in Contents, Simple(f, d)
      PROVE  OnItsWay("primary", f, d)' /\ (OnItsWay("replica", f, d)' \/ InStream(f, d)')
  <2>1. /\ OnItsWay("primary", f, d)
        /\ OnItsWay("replica", f, d) \/ InStream(f, d)
    BY <1>4, <1>9 DEF SimpleOnTheirWay
  <2>2. OnItsWay("primary", f, d)'
    BY <1>1, <1>5, <2>1 DEF OnItsWay, Hosts
  <2>3. CASE c.op = "import" /\ c.file = f
    <3>1. c.content = d
      BY <1>7, <1>9, <2>3 DEF Simple
    <3>2. tasks'["replica"][f] = d
      BY <1>5, <2>3, <3>1 DEF Hosts
    <3> QED
      BY <2>2, <3>2 DEF OnItsWay
  <2>4. CASE ~(c.op = "import" /\ c.file = f)
    <3>1. OnItsWay("replica", f, d) => OnItsWay("replica", f, d)'
      BY <1>1, <1>5, <2>4 DEF OnItsWay, Hosts
    <3>2. InStream(f, d) => InStream(f, d)'
      <4> SUFFICES ASSUME NEW i \in 1..n, stream[i].op = "import",
                          stream[i].file = f, stream[i].content = d
                   PROVE  InStream(f, d)'
        BY DEF InStream
      <4>1. i # 1
        BY <2>4
      <4>2. i - 1 \in 1..(n - 1) /\ (i - 1) + 1 = i
        BY <1>3, <4>1
      <4>3. stream'[i - 1] = stream[i]
        BY <1>3, <4>2
      <4> QED
        BY <1>3, <4>2, <4>3 DEF InStream
    <3> QED
      BY <2>1, <2>2, <3>1, <3>2
  <2> QED
    BY <2>3, <2>4
<1>10. SimpleOnTheirWay'
  BY <1>1, <1>9 DEF SimpleOnTheirWay, Simple, history
<1> QED
  BY <1>1, <1>8, <1>10 DEF Arriving

\* A command of a client, and what it has been asked for since.
LEMMA ArrivingPerform ==
  ASSUME ServersInv, Arriving, NEW c \in Commands, Perform(c),
         asked' \in [Files -> SUBSET Contents],
         \A f \in Files : asked'[f] = IF c.op = "import" /\ c.file = f
                                      THEN asked[f] \cup {c.content} ELSE asked[f]
  PROVE  Arriving'
<1> DEFINE n == Len(stream)
<1>1. /\ UNCHANGED <<mode, batch, pool, link, faults>> /\ Run("primary", c)
      /\ stream' = IF link THEN Append(stream, c) ELSE stream
  BY DEF Perform
<1> SUFFICES ASSUME faults = 0 PROVE Arriving'
  BY <1>1 DEF Arriving
<1>2. /\ OnlyAsked /\ SimpleOnTheirWay /\ link
      /\ asked \in [Files -> SUBSET Contents] /\ stream \in Seq(Commands)
  BY DEF Arriving, ServersInv, TypeOK
<1>3. /\ n \in Nat /\ Len(stream') = n + 1 /\ stream'[n + 1] = c
      /\ \A i \in 1..n : stream'[i] = stream[i]
  BY <1>1, <1>2
<1>4. \A i \in 1..(n + 1) : i = n + 1 \/ i \in 1..n
  BY <1>3
<1>5. n + 1 \in 1..(n + 1) /\ \A i \in 1..n : i \in 1..(n + 1)
  BY <1>3
<1> HIDE DEF n
<1>6. \A g \in Hosts, f \in Files :
          IF g = "primary" /\ c.op = "import" /\ c.file = f
          THEN tasks'[g][f] = c.content ELSE tasks'[g][f] = tasks[g][f]
  BY <1>1, RunTasks DEF ServersInv, Hosts
<1>7. c.op = "import" => c.file \in Files
  BY CommandParts
<1>8. \A i \in 1..n : stream[i].op = "import" => stream[i].file \in Files
  <2>1. \A i \in 1..n : stream[i] \in Commands
    BY <1>2 DEF n
  <2> QED
    BY <2>1, CommandParts
<1>9. OnlyAsked'
  <2>1. \A g \in Hosts, f \in Files :
            {tasks'[g][f], batch'[g][f], pool'[g][f]} \subseteq asked'[f] \cup {None}
    BY <1>1, <1>2, <1>6 DEF OnlyAsked
  <2>2. \A i \in 1..(n + 1) :
            stream'[i].op = "import" => stream'[i].content \in asked'[stream'[i].file]
    BY <1>2, <1>3, <1>4, <1>7, <1>8 DEF OnlyAsked, n
  <2> QED
    BY <1>3, <2>1, <2>2 DEF OnlyAsked
<1>10. ASSUME NEW f \in Files, NEW d \in Contents, Simple(f, d)'
       PROVE  OnItsWay("primary", f, d)' /\ (OnItsWay("replica", f, d)' \/ InStream(f, d)')
  <2>1. asked'[f] = {d}
    BY <1>10 DEF Simple
  <2>2. CASE c.op = "import" /\ c.file = f
    <3>1. c.content = d
      BY <2>1, <2>2
    <3>2. tasks'["primary"][f] = d
      BY <1>6, <2>2, <3>1 DEF Hosts
    <3>3. InStream(f, d)'
      BY <1>3, <1>5, <2>2, <3>1 DEF InStream
    <3> QED
      BY <3>2, <3>3 DEF OnItsWay
  <2>3. CASE ~(c.op = "import" /\ c.file = f)
    <3>1. asked[f] = {d} /\ \A g \in Files : asked[g] \subseteq asked'[g]
      BY <2>1, <2>3
    <3>2. Simple(f, d)
      BY <1>10, <3>1 DEF Simple
    <3>3. OnItsWay("primary", f, d) /\ (OnItsWay("replica", f, d) \/ InStream(f, d))
      BY <1>2, <3>2 DEF SimpleOnTheirWay
    <3>4. \A g \in Hosts : OnItsWay(g, f, d) => OnItsWay(g, f, d)'
      BY <1>1, <1>6, <2>3 DEF OnItsWay
    <3>5. InStream(f, d) => InStream(f, d)'
      BY <1>3, <1>5 DEF InStream, n
    <3> QED
      BY <3>3, <3>4, <3>5 DEF Hosts
  <2> QED
    BY <2>2, <2>3
<1>11. SimpleOnTheirWay'
  BY <1>10 DEF SimpleOnTheirWay
<1> QED
  BY <1>1, <1>2, <1>9, <1>11 DEF Arriving

LEMMA ArrivingClient ==
  ASSUME ServersInv, Arriving,
         \/ \E o \in Offers : Import(o[1], o[2])
         \/ \E k \in Keys : Del(k) \/ \E t \in Types : Set(k, t)
  PROVE  Arriving'
<1>0. asked \in [Files -> SUBSET Contents]
  BY DEF ServersInv, TypeOK
<1>1. CASE \E o \in Offers : Import(o[1], o[2])
  <2>1. PICK f \in Files, d \in Contents : Import(f, d)
    BY <1>1, OffersAssumption
  <2> DEFINE c == [op |-> "import", file |-> f, content |-> d]
  <2>2. c \in Commands /\ c.op = "import" /\ c.file = f /\ c.content = d
    BY DEF Commands
  <2>3. Perform(c) /\ asked' = [asked EXCEPT ![f] = @ \cup {d}]
    BY <2>1 DEF Import
  <2> HIDE DEF c
  <2>4. /\ asked' \in [Files -> SUBSET Contents]
        /\ \A e \in Files : asked'[e] = IF c.op = "import" /\ c.file = e
                                        THEN asked[e] \cup {c.content} ELSE asked[e]
    BY <1>0, <2>2, <2>3
  <2> QED
    BY <2>2, <2>3, <2>4, ArrivingPerform
<1>2. CASE \E k \in Keys : Del(k) \/ \E t \in Types : Set(k, t)
  <2>1. PICK c \in Commands : Perform(c) /\ c.op # "import" /\ UNCHANGED asked
    <3>1. ASSUME NEW k \in Keys, Del(k)
          PROVE  \E c \in Commands : Perform(c) /\ c.op # "import" /\ UNCHANGED asked
      <4> DEFINE c == [op |-> "del", key |-> k]
      <4>1. c \in Commands /\ c.op # "import"
        BY DEF Commands
      <4>2. Perform(c) /\ UNCHANGED asked
        BY <3>1 DEF Del
      <4> HIDE DEF c
      <4> QED
        BY <4>1, <4>2
    <3>2. ASSUME NEW k \in Keys, NEW t \in Types, Set(k, t)
          PROVE  \E c \in Commands : Perform(c) /\ c.op # "import" /\ UNCHANGED asked
      <4> DEFINE c == [op |-> "set", key |-> k, type |-> t,
                       meant |-> TypeDef(pool["primary"], t)]
      <4>1. TypeDef(pool["primary"], t) \in Contents
        BY <3>2, TypeDefIsContent DEF Set, SetSucceeds, ServersInv, TypeOK, Hosts
      <4>2. c \in Commands /\ c.op # "import"
        BY <4>1 DEF Commands
      <4>3. Perform(c) /\ UNCHANGED asked
        BY <3>2 DEF Set
      <4> HIDE DEF c
      <4> QED
        BY <4>2, <4>3
    <3> QED
      BY <1>2, <3>1, <3>2
  <2> QED
    BY <1>0, <2>1, ArrivingPerform
<1> QED
  BY <1>1, <1>2

LEMMA ArrivingStep ==
  ServersInv /\ Arriving /\ [Next]_vars => Arriving'
<1> SUFFICES ASSUME ServersInv, Arriving, [Next]_vars PROVE Arriving'
  OBVIOUS
<1>0. faults \in Nat
  BY BoundsAssumption DEF ServersInv, TypeOK
<1>1. ASSUME NEW h \in Hosts, LoaderStep(h) \/ Crash(h) PROVE Arriving'
  <2>1. CASE LoaderStep(h)
    BY <2>1, ArrivingTake, ArrivingImportFile DEF LoaderStep
  <2>2. CASE Crash(h)
    BY <1>0, <2>2 DEF Crash, Arriving
  <2> QED
    BY <1>1, <2>1, <2>2
<1>2. CASE \/ \E o \in Offers : Import(o[1], o[2])
           \/ \E k \in Keys : Del(k) \/ \E t \in Types : Set(k, t)
  BY <1>2, ArrivingClient
<1>3. CASE ReplicaApply
  BY <1>3, ArrivingApply
<1>4. CASE LinkLost
  BY <1>0, <1>4 DEF LinkLost, Arriving
<1>5. CASE Sync \/ RestartPrimary \/ LoadCommand \/ LoadDone \/ RestartReplica
  <2>1. faults # 0 /\ UNCHANGED faults
    BY <1>5 DEF Sync, RestartPrimary, LoadCommand, LoadDone, RestartReplica, Arriving, Hosts
  <2> QED
    BY <2>1 DEF Arriving
<1>6. CASE Save \/ UNCHANGED vars
  <2>1. UNCHANGED <<mode, registryVars, linkVars, history, faults>>
    BY <1>6 DEF Save, vars
  <2> QED
    BY <2>1 DEF Arriving, OnlyAsked, SimpleOnTheirWay, Simple, OnItsWay, InStream,
                registryVars, linkVars, history
<1> QED
  BY <1>1, <1>2, <1>3, <1>4, <1>5, <1>6 DEF Next

-----------------------------------------------------------------------------
(***************************************************************************)
(* The theorems.                                                           *)
(***************************************************************************)

\* Every variable keeps its type: what the directories of both hosts, their keys, the
\* append-only file or snapshot and the stream hold are files, entries and commands of
\* Commands, and no more of the saved commands are replayed than there are.
THEOREM TypesKept == Spec => []TypeOK
  BY AlwaysInv, InvSays, PTL

\* What RedisProtobuf::_rdb_save and the append-only file have kept, and what the keys
\* hold, can be read again with the types of the proto_dir alone, and means what it
\* meant: RedisProtobuf::_rdb_load finds every type that a key has, with the definition
\* it was parsed with, whatever files are imported in whatever order, and whenever the
\* server crashes, unless the crash leaves a proto_dir that ProtoFactory refuses to load.
THEOREM SavedStaysReadable == Spec => []SavedIsReadable
  BY AlwaysInv, InvSays, PTL

\* With an append-only file no crash of the server loses a key or changes one: replaying
\* the file from its start gives what the clients were told, and while Redis replays it,
\* with the loader at work beside, what is left of it leads there from what has been
\* loaded.  The PB.IMPORTs in the file need not be done for that.
THEOREM CrashesLoseNothing == Spec => []CrashLosesNothing
<1>1. Init => Linked
  BY DEF Init, Each, Linked
<1> QED
  BY <1>1, ServersInit, LinkedStep, InvStep, LosesNothingInit, LosesNothingStep, PTL DEF Spec

\* As long as the replica is connected, it holds what its primary holds, once it has read
\* its stream, but for the keys of which it has passed over a PB.SET; and where both hold
\* a key of one type with different definitions, they have imported different files.
THEOREM ReplicaKeepsUp == Spec => []ReplicaFollows
<1>1. Init => Linked
  BY DEF Init, Each, Linked
<1> QED
  BY <1>1, ServersInit, LinkedStep, InvStep, FollowingInit, FollowingStep, FollowingSays, PTL
  DEF Spec

\* While no server crashes and no connection is lost, a file whose definition does not
\* depend on when it is imported is served, and kept, by both servers once nothing is
\* under way, however the loaders of both interleave with the commands and the stream.
THEOREM SimpleFilesServed == Spec => []SimpleFilesArrive
<1>1. Init => Linked
  BY DEF Init, Each, Linked
<1> QED
  BY <1>1, ServersInit, LinkedStep, InvStep, ArrivingInit, ArrivingStep, ArrivingSays, PTL
  DEF Spec
=============================================================================
