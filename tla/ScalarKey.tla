------------------------------- MODULE ScalarKey -------------------------------
(***************************************************************************)
(* A key that holds a message with one number, from the words of PB.SET    *)
(* and PB.GET to the reply: the arguments, the conversion of the value to  *)
(* the field's type and back, the expiry on a clock, and the append-only   *)
(* file, from which the same words are run again at a later time.          *)
(*                                                                         *)
(* The message type is "T" and its field f; "{}" is a message with nothing *)
(* set.  A value that is kept is the content of the field.                 *)
(***************************************************************************)
EXTENDS Arguments

CONSTANTS
    LoadLists,     \* the words that may follow the module's name in redis.conf
    Lists,         \* the words of the commands clients send
    MaxCalls,      \* bound: commands
    MaxClock,      \* bound: the clock
    MaxRestarts    \* bound: restarts

ASSUME ListsAssumption ==
    /\ LoadLists \subseteq Seq(Words)
    /\ Lists \subseteq (Calls \ {"load"}) \X Seq(Words)

ASSUME BoundsAssumption == MaxCalls \in Nat /\ MaxClock \in Nat /\ MaxRestarts \in Nat

Kinds == {"int32", "int64", "uint32", "uint64", "bool"}

VARIABLES
    kind,       \* the type of the field
    clock,      \* milliseconds
    held,       \* the content of the field, or None if there is no key
    deadline,   \* when the key expires, or None
    log,        \* the append-only file: what was called, and "expired"
    reply,      \* the last reply: <<"set", n>>, <<"number", n>>, <<"error">>, <<"nil">> or <<"message">>
    calls,      \* commands so far (only for the bound)
    restarts,   \* restarts so far (only for the bound)
    made,       \* has there been a key? (history)
    given,      \* the word the field was last set to, or None (history)
    due         \* when the key should be gone, or None for never (history)

keyVars     == <<held, deadline>>
historyVars == <<made, given, due>>
outerVars   == <<kind, clock, log, reply, calls, restarts>>
allVars     == <<argVars, keyVars, historyVars, outerVars>>

-----------------------------------------------------------------------------
(***************************************************************************)
(* What a command does.                                                    *)
(***************************************************************************)

\* SetCommand::_set_int32 and the others.
Convert(k, w) ==
    CASE k = "int32" -> sv_to_int32(w)
      [] k = "int64" -> sv_to_int64(w)
      [] k = "uint32" -> sv_to_uint32(w)
      [] k = "uint64" -> sv_to_uint64(w)
      [] OTHER -> sv_to_bool(w)

\* Mutant: 32 bits are thought to be enough for a reply.
ShownNarrow(n) == Signed(n, Span32)

\* GetCommand::_get_scalar_field: every integer is replied as a signed one of 64 bits.
Shown(n) == Signed(n, Span64)

IsField(p, fs) == /\ Len(fs) = 1
                  /\ SubSeq(Chars[p], fs[1].from + 1, fs[1].to) = <<"f">>

\* The arguments that were parsed.
Parsing == [opt |-> opt, expire |-> expire, type |-> Arg(idx), path |-> path,
            fields |-> fields, val |-> Arg(Argc - 1)]

\* RedisModule_SetExpire: relative to the clock.
DeadlineAfter(now, ms) == Signed(now + ms, Span64)

Unset == [held |-> None, deadline |-> None, reply |-> <<>>]

\* SetCommand::_run on a key that holds n and expires at d, at time now; k is the type
\* of the field.  A new message starts with 0, and
\* is not kept when something is wrong; replacing the message drops the expiry.
SetRun(k, n, d, a, now) ==
    LET value == IF a.path = None THEN (IF a.val = "{}" THEN 0 ELSE None)
                 ELSE IF IsField(a.path, a.fields) THEN Convert(k, a.val)
                 ELSE None
        kept  == IF a.path = None THEN None ELSE d
    IN  CASE a.opt = (IF n = None THEN "--XX" ELSE "--NX") ->
                 [held |-> n, deadline |-> d, reply |-> <<"set", 0>>]
          [] a.opt # (IF n = None THEN "--XX" ELSE "--NX") /\ (a.type # "T" \/ value = None) ->
                 [held |-> n, deadline |-> d, reply |-> <<"error">>]
          [] OTHER ->
                 [held |-> value,
                  deadline |-> IF a.expire > 0 THEN DeadlineAfter(now, a.expire) ELSE kept,
                  reply |-> <<"set", 1>>]

\* A key past its deadline is deleted by the next command that opens it.
Expired == held # None /\ deadline # None /\ deadline < clock

Present == IF Expired THEN None ELSE held
Until   == IF Expired THEN None ELSE deadline

LogOpened == IF Expired THEN Append(log, [op |-> "expired"]) ELSE log

-----------------------------------------------------------------------------
(***************************************************************************)
(* Calls.                                                                  *)
(***************************************************************************)

Begin(c, ws) ==
    /\ pc = "idle"
    /\ calls < MaxCalls
    /\ calls' = calls + 1
    /\ call' = c
    /\ argv' = ws
    /\ pc' = "arity"
    /\ UNCHANGED <<optionVars, pathVars, error, keyVars, historyVars, kind, clock, log,
                   reply, restarts>>

Parse ==
    /\ ParseStep
    /\ UNCHANGED <<keyVars, historyVars, outerVars>>

Return ==
    /\ pc' = "idle"
    /\ call' = None /\ argv' = <<>>
    /\ idx' = 0 /\ opt' = "none" /\ expire' = 0 /\ format' = "none" /\ dir' = None
    /\ path' = None /\ at' = 0 /\ start' = 0 /\ fields' = <<>>
    /\ error' = None

\* RedisProtobuf::load goes on, and the server serves.  When the options are refused the
\* module is not loaded, and nothing more happens.
Loaded ==
    /\ call = "load"
    /\ pc = "parsed"
    /\ Return
    /\ UNCHANGED <<keyVars, historyVars, outerVars>>

Refuse ==
    /\ call # "load"
    /\ pc = "failed"
    /\ reply' = <<"error">>
    /\ Return
    /\ UNCHANGED <<keyVars, historyVars, kind, clock, log, calls, restarts>>

\* When the key should be gone, after a PB.SET with arguments a that replied 1; n is
\* what its option says, with nothing lost.
DueAfter(a, n) ==
    CASE n # 0 -> clock + n
      [] n = 0 /\ (a.path = None \/ Present = None) -> None
      [] OTHER -> due

\* What the words of the command ask for, in milliseconds.
AskedFor ==
    IF \E i \in 2..(idx - 2) : ExpiryAt(i)
    THEN LET i == CHOOSE j \in 2..(idx - 2) : ExpiryAt(j)
             n == sv_to_int64(Arg(i + 1))
         IN  IF Name[Arg(i)] = "--EX" THEN n * Second ELSE n
    ELSE 0

\* Mutant: only a PB.SET that sets the whole message is saved.
RunSetUnlogged ==
    /\ call = "PB.SET"
    /\ pc = "parsed"
    /\ LET r == SetRun(kind, Present, Until, Parsing, clock) IN
       /\ held' = r.held
       /\ deadline' = r.deadline
       /\ reply' = r.reply
       /\ log' = IF r.reply = <<"error">> \/ path # None THEN LogOpened
                 ELSE Append(LogOpened, [op |-> "set", args |-> Parsing])
       /\ IF r.reply = <<"set", 1>>
          THEN /\ made' = TRUE
               /\ given' = IF path = None THEN None ELSE Arg(Argc - 1)
               /\ due' = DueAfter(Parsing, AskedFor)
          ELSE UNCHANGED historyVars
    /\ Return
    /\ UNCHANGED <<kind, clock, calls, restarts>>

\* SetCommand::run.
RunSet ==
    /\ call = "PB.SET"
    /\ pc = "parsed"
    /\ LET r == SetRun(kind, Present, Until, Parsing, clock) IN
       /\ held' = r.held
       /\ deadline' = r.deadline
       /\ reply' = r.reply
       /\ log' = IF r.reply = <<"error">> THEN LogOpened
                 ELSE Append(LogOpened, [op |-> "set", args |-> Parsing])
       /\ IF r.reply = <<"set", 1>>
          THEN /\ made' = TRUE
               /\ given' = IF path = None THEN None ELSE Arg(Argc - 1)
               /\ due' = DueAfter(Parsing, AskedFor)
          ELSE UNCHANGED historyVars
    /\ Return
    /\ UNCHANGED <<kind, clock, calls, restarts>>

\* GetCommand::_reply_with_nil and _reply_with_msg.
GetReply ==
    CASE Present = None -> <<"nil">>
      [] Present # None /\ Arg(idx) # "T" -> <<"error">>
      [] Present # None /\ Arg(idx) = "T" /\ path = None ->
             IF format = "none" THEN <<"error">> ELSE <<"message">>
      [] OTHER -> IF IsField(path, fields) THEN <<"number", Shown(Present)>> ELSE <<"error">>

\* GetCommand::run.
RunGet ==
    /\ call = "PB.GET"
    /\ pc = "parsed"
    /\ reply' = GetReply
    /\ held' = Present
    /\ deadline' = Until
    /\ log' = LogOpened
    /\ Return
    /\ UNCHANGED <<historyVars, kind, clock, calls, restarts>>

\* The clock of the server, which commands do not hold up for a millisecond.
Tick ==
    /\ pc = "idle"
    /\ clock < MaxClock
    /\ clock' = clock + 1
    /\ UNCHANGED <<argVars, keyVars, historyVars, kind, log, reply, calls, restarts>>

\* Redis looks for expired keys now and then.
ExpireKey ==
    /\ pc = "idle"
    /\ Expired
    /\ held' = None
    /\ deadline' = None
    /\ log' = LogOpened
    /\ UNCHANGED <<argVars, historyVars, kind, clock, reply, calls, restarts>>

\* What the entry e of the append-only file makes of the key in state s, at time now.
Redone(k, s, e, now) ==
    IF e.op = "expired" THEN Unset ELSE SetRun(k, s.held, s.deadline, e.args, now)

\* What the append-only file l makes of an empty server at time now: nothing expires
\* while it is loaded, and a time to live counts from now.
Replay(k, l, now) ==
    LET state[i \in 0..Len(l)] ==
            IF i = 0 THEN Unset ELSE Redone(k, state[i - 1], l[i], now)
    IN  state[Len(l)]

Replayed(now) == Replay(kind, log, now)

Restart ==
    /\ pc = "idle"
    /\ restarts < MaxRestarts
    /\ restarts' = restarts + 1
    /\ held' = Replayed(clock).held
    /\ deadline' = Replayed(clock).deadline
    /\ UNCHANGED <<argVars, historyVars, kind, clock, log, reply, calls>>

-----------------------------------------------------------------------------
Init ==
    /\ call = "load" /\ argv \in LoadLists /\ pc = "arity"
    /\ Clean
    /\ kind \in Kinds
    /\ clock = 0
    /\ held = None /\ deadline = None
    /\ log = <<>>
    /\ reply = <<>>
    /\ calls = 0 /\ restarts = 0
    /\ made = FALSE /\ given = None /\ due = None

Execute == Loaded \/ Refuse \/ RunSet \/ RunGet

Next ==
    \/ \E l \in Lists : Begin(l[1], l[2])
    \/ Parse
    \/ Execute
    \/ Tick
    \/ ExpireKey
    \/ Restart

\* The server works on the command it has begun.
Spec == Init /\ [][Next]_allVars /\ WF_allVars(Parse \/ Execute)

-----------------------------------------------------------------------------
(***************************************************************************)
(* Properties.                                                             *)
(***************************************************************************)

\* The type of every variable.
TypeOK ==
    /\ call \in Calls \cup {None} /\ argv \in Seq(Words)
    /\ pc \in {"idle", "arity", "options", "path", "parsed", "failed", "crashed"}
    /\ idx \in Nat /\ opt \in Conditions \cup {"none"} /\ expire \in ValuesOf(Span64)
    /\ format \in Formats \cup {"none"} /\ dir \in Words \cup {None}
    /\ path \in Words \cup {None} /\ at \in Nat /\ start \in Nat
    /\ fields \in Seq([from : Nat, to : Nat])
    /\ kind \in Kinds /\ clock \in 0..MaxClock
    /\ held \in Int \cup {None} /\ deadline \in ValuesOf(Span64) \cup {None}
    /\ calls \in 0..MaxCalls /\ restarts \in 0..MaxRestarts
    /\ made \in BOOLEAN /\ given \in Words \cup {None} /\ due \in Int \cup {None}

Max64 == Span64 \div 2 - 1

\* The numbers a field can hold and PB.GET can show.
Holds(k) ==
    CASE k = "int32" -> ValuesOf(Span32)
      [] k = "int64" -> ValuesOf(Span64)
      [] k = "uint32" -> 0..(Span32 - 1)
      [] k = "uint64" -> 0..Max64
      [] OTHER -> {0, 1}

\* A number within the range of the field is read back as it was given, at any later
\* time, after any refused command, and after a restart.
NumbersInRangeKept ==
    (given # None /\ Leading[given] \in Holds(kind)) =>
        /\ Present # None => Shown(Present) = Leading[given]
        /\ (reply # <<>> /\ reply[1] = "number") => reply[2] = Leading[given]

\* "the value string should be converted to the corresponding integer" (README.md:406),
\* or an error be replied when it "doesn't match the type of the field" (README.md:430).
NumbersKept ==
    (Present # None /\ given # None /\ kind # "bool" /\ Leading[given] # None) =>
        Shown(Present) = Leading[given]

\* A key with an expiry in range is there until it is due, and, unless the server was
\* restarted in between, no longer: a replay counts the time anew.
ExpiryAsAsked ==
    /\ (made /\ due = None) => Present # None
    /\ (due # None /\ due + clock <= Max64) =>
          /\ clock <= due => Present # None
          /\ (clock > due /\ restarts = 0) => Present = None

\* The append-only file gives the key that is there, and none where there is none,
\* unless it has expired and nobody has noticed.
ReplayRestores ==
    /\ held # None => Replayed(clock).held = held
    /\ held = None => Replayed(clock).held = None

\* A command that has begun is replied to, whatever its words.
Replies == (pc # "idle" /\ call # "load") ~> (pc = "idle")
=============================================================================
