---------------------------- MODULE ReplicatedStore ----------------------------
(***************************************************************************)
(* A primary and what follows it by replaying its command stream: a        *)
(* replica, or the append-only file.  A handler that calls                 *)
(* RedisModule_ReplicateVerbatim puts its command on the stream as it      *)
(* was received; Redis puts its own commands and expiries there.  Both     *)
(* sides know the same message types.                                      *)
(***************************************************************************)
EXTENDS Store

CONSTANT MaxPending   \* bound: commands on the way to the replica

VARIABLES
    replica,   \* what the replica holds at each key
    pending,   \* the commands on the way to it, oldest first
    diverged   \* why the primary changed a key without telling: "no", "error", "merge"

vars == <<db, up, replica, pending, diverged>>

RInit ==
    /\ Init
    /\ replica = db
    /\ pending = <<>>
    /\ diverged = "no"

Send(k, c) == pending' = Append(pending, [key |-> k, cmd |-> c])

\* After a step that changed a key behind the replica's back the two differ until the
\* next resynchronisation, so nothing more is tried until then.
CanWrite == Len(pending) < MaxPending /\ diverged = "no"

WriteEffect(k, c, r) ==
    /\ CanWrite
    /\ Effect(k, r)
    /\ IF r.logged THEN Send(k, c) ELSE UNCHANGED pending
    /\ diverged' = CASE r.logged \/ r.entry = db[k] -> "no"
                     [] ~r.logged /\ r.entry # db[k] /\ r.reply.kind = "error" -> "error"
                     [] ~r.logged /\ r.entry # db[k] /\ c.op = "MERGE" /\ db[k] = Missing -> "merge"
                     [] OTHER -> "no"
    /\ UNCHANGED replica

Write(k, c) == WriteEffect(k, c, Execute(db[k], c))

NativeWrite(k) ==
    /\ CanWrite
    /\ \/ NativeSet(k) /\ Send(k, [op |-> "native set"])
       \/ NativeDel(k) /\ Send(k, [op |-> "native del"])
       \/ Expire(k) /\ Send(k, [op |-> "native del"])
    /\ UNCHANGED <<replica, diverged>>

\* What the replica does with a command of the stream.
Replay(held, entry) ==
    [held EXCEPT ![entry.key] =
        CASE entry.cmd.op = "native set" -> Foreign
          [] entry.cmd.op = "native del" -> Missing
          [] OTHER -> Execute(@, entry.cmd).entry]

ReplicaApply ==
    /\ pending # <<>>
    /\ replica' = Replay(replica, Head(pending))
    /\ pending' = Tail(pending)
    /\ UNCHANGED <<db, up, diverged>>

\* The replica loads a snapshot of the primary.
FullResync ==
    /\ up
    /\ replica' = db
    /\ pending' = <<>>
    /\ diverged' = "no"
    /\ UNCHANGED <<db, up>>

RNext == \/ \E k \in Keys : NativeWrite(k) \/ \E c \in Writes : Write(k, c)
         \/ ReplicaApply
         \/ FullResync

RSpec == RInit /\ [][RNext]_vars

-----------------------------------------------------------------------------

Replayed ==
    LET after[i \in 0..Len(pending)] ==
            IF i = 0 THEN replica ELSE Replay(after[i - 1], pending[i])
    IN  after[Len(pending)]

\* What the replica holds, with the commands on the way to it, is what the primary
\* holds.  Only two things break that: a command that failed half-way, and PB.MERGE of a
\* missing key.
ReplicaFollows == up /\ diverged = "no" => Replayed = db

\* A command that succeeded on the primary never fails on the replica.
ReplaySucceeds ==
    (diverged = "no" /\ pending # <<>>) =>
        LET c == Head(pending) IN
        c.cmd.op \notin {"native set", "native del"} =>
            Execute(replica[c.key], c.cmd).reply.kind = "number"

\* A change the client was told about reaches the replica.
AcknowledgedIsReplicated == up /\ diverged # "error" => Replayed = db
=============================================================================
