---------------------------- MODULE ReplicatedStoreProofs ----------------------------
(***************************************************************************)
(* That the replica follows the primary, for all keys, commands and        *)
(* message types and for streams of every length.                          *)
(*                                                                         *)
(* What the commands on the way make of the replica is a trail: what it    *)
(* holds, and what it would hold after each.  A step of the primary puts a *)
(* command behind the last only if that command goes through, and what it  *)
(* leaves in the primary's key is then what it leaves in the last of the   *)
(* trail.  A step of the replica takes the first away.                     *)
(***************************************************************************)
EXTENDS ReplicatedStore, StoreProofs, SequenceTheorems

Native == {[op |-> "native set"], [op |-> "native del"]}

\* What is put on the stream.
Sent == [key : Keys, cmd : Writes \cup Native]

IsNative(c) == c.op \in {"native set", "native del"}

\* Entry p goes through on keys that hold ks.
GoesThrough(ks, p) == ~IsNative(p.cmd) => Execute(ks[p.key], p.cmd).reply.kind = "number"

\* From ks on, h is what is held after each of ps, and each of them goes through.
Trail(ks, ps, h) ==
    /\ h[0] = ks
    /\ \A i \in 1..Len(ps) : h[i] = Replay(h[i - 1], ps[i])
    /\ \A i \in 1..Len(ps) : GoesThrough(h[i - 1], ps[i])

\* Of a replica that holds ks, with ps on the way to it: what they make of it is what the
\* primary holds, if the two are the same.
OnTheWay(ks, ps, held, same, h) ==
    /\ Trail(ks, ps, h)
    /\ same => h[Len(ps)] = held

\* The inductive invariant.
Keeps(ks, ps, held, same) ==
    /\ ps \in Seq(Sent)
    /\ held = [k \in Keys |-> held[k]]
    /\ \E h : OnTheWay(ks, ps, held, same, h)

Same == up /\ diverged = "no"

RInv == Keeps(replica, pending, db, Same)

-----------------------------------------------------------------------------
(***************************************************************************)
(* Trails.                                                                 *)
(***************************************************************************)

LEMMA ReplayedIs ==
  ASSUME pending \in Seq(Sent), NEW h, Trail(replica, pending, h)
  PROVE  Replayed = h[Len(pending)]
<1> DEFINE n == Len(pending)
           Is(e) == e = [i \in 0..n |-> IF i = 0 THEN replica ELSE Replay(e[i - 1], pending[i])]
           f == CHOOSE e : Is(e)
           t == [i \in 0..n |-> h[i]]
<1>1. n \in Nat
  OBVIOUS
<1>2. Is(t)
  <2>1. \A i \in 0..n : i = 0 \/ (i \in 1..n /\ i - 1 \in 0..n)
    BY <1>1
  <2>2. \A i \in 0..n : h[i] = IF i = 0 THEN replica ELSE Replay(t[i - 1], pending[i])
    BY <1>1, <2>1 DEF Trail
  <2> QED
    BY <2>2, Zenon
<1>3. Is(f)
  BY <1>2
<1>4. Replayed = f[n]
  BY DEF Replayed
<1> HIDE DEF f
<1>5. f[0] = h[0]
  BY <1>1, <1>3 DEF Trail
<1>6. ASSUME NEW i \in 1..n, f[i - 1] = h[i - 1] PROVE f[i] = h[i]
  <2>1. i \in 0..n /\ i # 0
    BY <1>1
  <2>2. f[i] = Replay(f[i - 1], pending[i])
    BY <1>3, <2>1
  <2> QED
    BY <1>6, <2>2 DEF Trail
<1> HIDE DEF Is, n
<1>7. f[n] = h[n]
  BY <1>1, <1>5, <1>6, Agree
<1> QED
  BY <1>4, <1>7 DEF n

\* One more command behind the last.
LEMMA TrailAppend ==
  ASSUME NEW ks, NEW ps \in Seq(Sent), NEW h, Trail(ks, ps, h), NEW p \in Sent,
         GoesThrough(h[Len(ps)], p)
  PROVE  \E e : Trail(ks, Append(ps, p), e) /\ e[Len(ps) + 1] = Replay(h[Len(ps)], p)
<1> DEFINE n == Len(ps)
           q == Append(ps, p)
           e == [i \in 0..(n + 1) |-> IF i = n + 1 THEN Replay(h[n], p) ELSE h[i]]
<1>1. n \in Nat /\ Len(q) = n + 1 /\ q[n + 1] = p
  OBVIOUS
<1>2. ASSUME NEW i \in 1..n PROVE q[i] = ps[i] /\ e[i] = h[i] /\ e[i - 1] = h[i - 1]
  BY <1>1
<1>3. e[0] = h[0] /\ e[n + 1] = Replay(h[n], p) /\ e[(n + 1) - 1] = h[n]
  BY <1>1
<1>4. \A i \in 1..(n + 1) : i = n + 1 \/ i \in 1..n
  BY <1>1
<1> HIDE DEF e, q, n
<1>5. ASSUME NEW i \in 1..(n + 1) PROVE e[i] = Replay(e[i - 1], q[i]) /\ GoesThrough(e[i - 1], q[i])
  <2>1. CASE i = n + 1
    BY <1>1, <1>3, <2>1 DEF n
  <2>2. CASE i \in 1..n
    BY <1>2, <2>2 DEF Trail, n
  <2> QED
    BY <1>4, <2>1, <2>2
<1>6. Trail(ks, q, e)
  BY <1>1, <1>3, <1>5 DEF Trail
<1> QED
  BY <1>3, <1>6 DEF q, n

\* The first taken away.
LEMMA TrailTail ==
  ASSUME NEW ks, NEW ps \in Seq(Sent), ps # <<>>, NEW h, Trail(ks, ps, h)
  PROVE  /\ GoesThrough(ks, Head(ps))
         /\ \E e : /\ Trail(Replay(ks, Head(ps)), Tail(ps), e)
                   /\ e[Len(Tail(ps))] = h[Len(ps)]
<1> DEFINE n == Len(ps)
           q == Tail(ps)
           e == [i \in 0..(n - 1) |-> h[i + 1]]
<1>1. n \in Nat /\ n >= 1 /\ Len(q) = n - 1 /\ Head(ps) = ps[1]
  OBVIOUS
<1>2. ASSUME NEW i \in 1..(n - 1)
      PROVE  q[i] = ps[i + 1] /\ e[i] = h[i + 1] /\ e[i - 1] = h[(i + 1) - 1] /\ i + 1 \in 1..n
  BY <1>1
<1>3. e[0] = h[1] /\ e[n - 1] = h[n] /\ 1 \in 1..n /\ 1 - 1 = 0
  BY <1>1
<1> HIDE DEF e, q
<1>4. GoesThrough(ks, ps[1]) /\ h[1] = Replay(ks, ps[1])
  BY <1>3 DEF Trail
<1> HIDE DEF n
<1>5. ASSUME NEW i \in 1..(n - 1) PROVE e[i] = Replay(e[i - 1], q[i]) /\ GoesThrough(e[i - 1], q[i])
  BY <1>2 DEF Trail, n
<1>6. Trail(Replay(ks, Head(ps)), q, e)
  BY <1>1, <1>3, <1>4, <1>5 DEF Trail
<1> QED
  BY <1>1, <1>3, <1>4, <1>6 DEF q, n

LEMMA NoTrail == ASSUME NEW ks PROVE Trail(ks, <<>>, [i \in {0} |-> ks])
  BY DEF Trail

-----------------------------------------------------------------------------
(***************************************************************************)
(* The steps.                                                              *)
(***************************************************************************)

LEMMA RInvInit == RInit => RInv
<1> SUFFICES ASSUME RInit PROVE RInv
  OBVIOUS
<1>1. OnTheWay(replica, pending, db, Same, [i \in {0} |-> replica])
  BY NoTrail DEF RInit, OnTheWay, Same
<1> QED
  BY <1>1 DEF RInv, Keeps, RInit, Init

\* A step that writes key k, and puts an entry that says so on the stream.
LEMMA SendStep ==
  ASSUME RInv, CanWrite, up, NEW k \in Keys, NEW c \in Writes \cup Native, Send(k, c),
         GoesThrough(db, [key |-> k, cmd |-> c]), db' = Replay(db, [key |-> k, cmd |-> c]),
         UNCHANGED replica
  PROVE  RInv'
<1> DEFINE p == [key |-> k, cmd |-> c]
<1>1. p \in Sent /\ p.key = k
  BY DEF Sent
<1>2. PICK h : OnTheWay(replica, pending, db, Same, h)
  BY DEF RInv, Keeps
<1>3. h[Len(pending)] = db /\ pending \in Seq(Sent) /\ pending' = Append(pending, p)
  BY <1>2 DEF OnTheWay, Same, CanWrite, RInv, Keeps, Send
<1>4. Trail(replica, pending, h)
  BY <1>2 DEF OnTheWay, Same
<1>5. db' = [j \in Keys |-> db'[j]]
  BY <1>1 DEF RInv, Keeps, Replay
<1> HIDE DEF p
<1>6. PICK e : Trail(replica, Append(pending, p), e) /\ e[Len(pending) + 1] = Replay(db, p)
  BY <1>1, <1>3, <1>4, TrailAppend DEF p
<1>7. Append(pending, p) \in Seq(Sent) /\ Len(Append(pending, p)) = Len(pending) + 1
  BY <1>1, <1>3
<1>8. db' = Replay(db, p)
  BY DEF p
<1>9. OnTheWay(replica', pending', db', Same', e)
  BY <1>3, <1>6, <1>7, <1>8 DEF OnTheWay, Same
<1> QED
  BY <1>3, <1>5, <1>7, <1>9 DEF RInv, Keeps

LEMMA WriteStep ==
  ASSUME RInv, NEW k \in Keys, NEW c \in Writes, Write(k, c)
  PROVE  RInv'
<1> DEFINE r == Execute(db[k], c)
<1>1. Went(r) \/ Failed(r) \/ (c.op = "MERGE" /\ db[k] = Missing /\ Unsaid(r))
  BY ExecuteResult
<1>2. ~IsNative(c)
  BY WritesAssumption DEF IsNative
<1> HIDE DEF r
<1>3. WriteEffect(k, c, r)
  BY DEF Write, r
<1>4. CanWrite /\ up /\ Effect(k, r) /\ UNCHANGED replica
  BY <1>3 DEF WriteEffect, Effect
<1>5. CASE Went(r)
  <2>1. db' = [db EXCEPT ![k] = r.entry] /\ up'
    <3>1. r.reply # Abort
      BY <1>5 DEF Went, Abort
    <3> QED
      BY <1>4, <3>1 DEF Effect
  <2>2. GoesThrough(db, [key |-> k, cmd |-> c]) /\ Send(k, c)
    BY <1>3, <1>5 DEF GoesThrough, Went, r, WriteEffect
  <2>3. db' = Replay(db, [key |-> k, cmd |-> c])
    BY <1>2, <2>1 DEF Replay, r, IsNative
  <2> QED
    BY <1>4, <2>2, <2>3, SendStep
<1>6. CASE ~Went(r)
  <2>1. r.logged = FALSE /\ UNCHANGED pending
    BY <1>1, <1>3, <1>6 DEF Failed, Unsaid, WriteEffect
  <2>2. PICK h : OnTheWay(replica, pending, db, Same, h)
    BY DEF RInv, Keeps
  <2>3. CASE r.reply = Abort
    <3>1. up' = FALSE /\ db' = [j \in Keys |-> Missing]
      BY <1>4, <2>3 DEF Effect
    <3>2. OnTheWay(replica', pending', db', Same', h)
      BY <1>4, <2>1, <2>2, <3>1 DEF OnTheWay, Same
    <3> QED
      BY <2>1, <3>1, <3>2 DEF RInv, Keeps
  <2>4. CASE r.reply # Abort /\ r.entry = db[k]
    <3>1. db' = [db EXCEPT ![k] = db[k]]
      BY <1>4, <2>4 DEF Effect
    <3>2. db' = db
      BY <3>1 DEF RInv, Keeps
    <3>3. OnTheWay(replica', pending', db', Same', h)
      BY <1>4, <2>1, <2>2, <3>2 DEF OnTheWay, Same, CanWrite
    <3> QED
      BY <2>1, <3>2, <3>3 DEF RInv, Keeps
  <2>5. CASE r.reply # Abort /\ r.entry # db[k]
    <3>1. db' = [db EXCEPT ![k] = r.entry]
      BY <1>4, <2>5 DEF Effect
    <3>2. db' = [j \in Keys |-> db'[j]]
      BY <3>1 DEF RInv, Keeps
    <3>3. r.reply.kind = "error" \/ (c.op = "MERGE" /\ db[k] = Missing)
      BY <1>1, <1>6, <2>5 DEF Failed
    <3>4. diverged' # "no"
      BY <1>3, <2>1, <2>5, <3>3 DEF WriteEffect
    <3>5. OnTheWay(replica', pending', db', Same', h)
      BY <1>4, <2>1, <2>2, <3>4 DEF OnTheWay, Same
    <3> QED
      BY <2>1, <3>2, <3>5 DEF RInv, Keeps
  <2> QED
    BY <2>3, <2>4, <2>5
<1> QED
  BY <1>5, <1>6

LEMMA NativeStep ==
  ASSUME RInv, NEW k \in Keys, NativeWrite(k)
  PROVE  RInv'
<1>1. CanWrite /\ UNCHANGED replica
  BY DEF NativeWrite
<1>2. CASE NativeSet(k) /\ Send(k, [op |-> "native set"])
  BY <1>1, <1>2, SendStep DEF NativeSet, Native, GoesThrough, IsNative, Replay
<1>3. CASE NativeDel(k) /\ Send(k, [op |-> "native del"])
  BY <1>1, <1>3, SendStep DEF NativeDel, Native, GoesThrough, IsNative, Replay
<1>4. CASE Expire(k) /\ Send(k, [op |-> "native del"])
  BY <1>1, <1>4, SendStep DEF Expire, Native, GoesThrough, IsNative, Replay
<1> QED
  BY <1>2, <1>3, <1>4 DEF NativeWrite

LEMMA ApplyStep == ASSUME RInv, ReplicaApply PROVE RInv'
<1>1. PICK h : OnTheWay(replica, pending, db, Same, h)
  BY DEF RInv, Keeps
<1>2. pending \in Seq(Sent) /\ pending # <<>> /\ pending' = Tail(pending)
  BY DEF RInv, Keeps, ReplicaApply
<1>3. Trail(replica, pending, h)
  BY <1>1 DEF OnTheWay, Same
<1>4. PICK e : /\ Trail(Replay(replica, Head(pending)), Tail(pending), e)
               /\ e[Len(Tail(pending))] = h[Len(pending)]
  BY <1>2, <1>3, TrailTail
<1>5. OnTheWay(replica', pending', db', Same', e)
  BY <1>1, <1>2, <1>4 DEF OnTheWay, Same, ReplicaApply
<1>6. pending' \in Seq(Sent)
  BY <1>2
<1>7. UNCHANGED db
  BY DEF ReplicaApply
<1> QED
  BY <1>5, <1>6, <1>7 DEF RInv, Keeps

LEMMA ResyncStep == ASSUME RInv, FullResync PROVE RInv'
<1>1. PICK e : e = [i \in {0} |-> db]
  OBVIOUS
<1>2. pending' = <<>> /\ replica' = db /\ UNCHANGED db
  BY DEF FullResync
<1>3. Trail(db, <<>>, e)
  BY <1>1, NoTrail
<1>4. OnTheWay(replica', pending', db', Same', e)
  BY <1>1, <1>2, <1>3 DEF OnTheWay, Same
<1>5. \A S : <<>> \in Seq(S)
  OBVIOUS
<1>6. pending' \in Seq(Sent)
  BY <1>2, <1>5
<1> QED
  BY <1>2, <1>4, <1>6 DEF RInv, Keeps

LEMMA RInvStep == RInv /\ [RNext]_vars => RInv'
<1> SUFFICES ASSUME RInv, [RNext]_vars PROVE RInv'
  OBVIOUS
<1>1. ASSUME NEW k \in Keys, NativeWrite(k) PROVE RInv'
  BY <1>1, NativeStep
<1>2. ASSUME NEW k \in Keys, NEW c \in Writes, Write(k, c) PROVE RInv'
  BY <1>2, WriteStep
<1>3. CASE ReplicaApply
  BY <1>3, ApplyStep
<1>4. CASE FullResync
  BY <1>4, ResyncStep
<1>5. CASE UNCHANGED vars
  <2>1. pending' = pending /\ db' = db /\ replica' = replica /\ (Same' => Same)
    BY <1>5 DEF vars, Same
  <2>2. PICK h : OnTheWay(replica, pending, db, Same, h)
    BY DEF RInv, Keeps
  <2>3. OnTheWay(replica', pending', db', Same', h)
    BY <2>1, <2>2 DEF OnTheWay
  <2> QED
    BY <2>1, <2>3 DEF RInv, Keeps
<1> QED
  BY <1>1, <1>2, <1>3, <1>4, <1>5 DEF RNext

-----------------------------------------------------------------------------

\* For all keys, commands and message types, and however long the stream: with the
\* commands on the way to it the replica holds what the primary holds, as long as no
\* command failed half-way and none was a PB.MERGE of a missing key.
THEOREM ReplicaIsPrimary == RSpec => []ReplicaFollows
<1>1. RInv => ReplicaFollows
  BY ReplayedIs DEF RInv, Keeps, OnTheWay, Same, ReplicaFollows
<1> QED
  BY <1>1, RInvInit, RInvStep, PTL DEF RSpec

\* The command that waits to be replayed next goes through on the replica, however late its
\* turn comes and whatever the primary did since.
THEOREM StreamGoesThrough == RSpec => []ReplaySucceeds
<1>1. RInv => ReplaySucceeds
  <2> SUFFICES ASSUME RInv, pending # <<>> PROVE GoesThrough(replica, Head(pending))
    BY DEF ReplaySucceeds, GoesThrough, IsNative
  <2>1. PICK h : OnTheWay(replica, pending, db, Same, h)
    BY DEF RInv, Keeps
  <2> QED
    BY <2>1, TrailTail DEF RInv, Keeps, OnTheWay
<1> QED
  BY <1>1, RInvInit, RInvStep, PTL DEF RSpec
=============================================================================
