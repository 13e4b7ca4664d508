-------------------------------- MODULE Servers --------------------------------
(***************************************************************************)
(* Keys, message types and persistence together: a primary that saves to   *)
(* an append-only file or to snapshots, and a replica.  Types reach a      *)
(* server only through its own proto_dir: a snapshot has none, and a       *)
(* PB.IMPORT on the stream, or in the append-only file, is handed to the   *)
(* loader and done later.                                                  *)
(*                                                                         *)
(* Each host has a registry as ImportService promises it, without the      *)
(* results; what a key holds is its type and the definition it was parsed  *)
(* with.  Disks do not fail, and the compiler gives no warnings.           *)
(***************************************************************************)
EXTENDS ProtoCompiler, Naturals, Sequences, SequencesExt

CONSTANTS
    Keys,          \* names of keys
    Offers,        \* the files clients import, each with a content
    MaxCommands,   \* bound: commands of clients
    MaxFaults      \* bound: crashes and lost connections

ASSUME KeysAssumption == IsFiniteSet(Keys)

ASSUME BoundsAssumption == MaxCommands \in Nat /\ MaxFaults \in Nat

ASSUME OffersAssumption == Offers \subseteq Files \X (Contents \ {Empty})

ASSUME NoneIsNoEntry == None \notin [type : Types, def : Contents]

ASSUME NoWarningsAssumption == \A c \in Contents : Kind[c] # "warn"

Hosts == {"primary", "replica"}

VARIABLES
    mode,      \* host -> "serving", "loading" its append-only file, or "down"
    tasks,     \* host -> the files accepted (_tasks)
    batch,     \* host -> the files its loader works on
    pool,      \* host -> the files whose types it serves
    disk,      \* host -> the files under its proto_dir
    keys,      \* host -> key -> what it holds
    format,    \* how the primary saves: "aof" or "rdb"
    saved,     \* the commands in its append-only file, or those that make up its snapshot
    loaded,    \* how many of them it has replayed since it was started
    link,      \* is the replica connected?
    stream,    \* the commands on the way to it, oldest first
    missed,    \* the keys of which the replica has passed over a PB.SET
    asked,     \* file -> the contents clients gave it (history)
    commands,  \* commands of clients so far (only for the bound)
    faults     \* crashes and lost connections so far (only for the bound)

registryVars == <<tasks, batch, pool, disk>>
savedVars    == <<format, saved, loaded>>
linkVars     == <<link, stream, missed>>
history      == <<asked, commands>>
vars         == <<mode, registryVars, keys, savedVars, linkVars, history, faults>>

NoKeys == [k \in Keys |-> None]

-----------------------------------------------------------------------------
(***************************************************************************)
(* What a command does, given the types a host serves.                     *)
(***************************************************************************)

\* The definition of type t that pool g serves.
TypeDef(g, t) == g[CHOOSE f \in Present(g) : t \in Defines[g[f]]]

Entry(g, t) == [type |-> t, def |-> TypeDef(g, t)]

\* PB.SET of the whole message: the type must be known, and the key's if it has one.
SetSucceeds(g, held, t) == t \in TypesIn(g) /\ (held # None => held.type = t)

KeysAfter(g, ks, c) ==
    CASE c.op = "set" /\ SetSucceeds(g, ks[c.key], c.type) ->
            [ks EXCEPT ![c.key] = Entry(g, c.type)]
      [] c.op = "del" -> [ks EXCEPT ![c.key] = None]
      [] OTHER -> ks

TasksAfter(ts, c) == IF c.op = "import" THEN [ts EXCEPT ![c.file] = c.content] ELSE ts

\* A host runs a command, whoever sent it.
Run(h, c) ==
    /\ tasks' = [tasks EXCEPT ![h] = TasksAfter(@, c)]
    /\ keys' = [keys EXCEPT ![h] = KeysAfter(pool[h], @, c)]

\* The keys a PB.SET of which has been passed over, once c has been run.
MissedAfter(g, ks, m, c) ==
    CASE c.op = "import" -> m
      [] c.op = "set" /\ ~SetSucceeds(g, ks[c.key], c.type) -> m \cup {c.key}
      [] OTHER -> m \ {c.key}

\* A snapshot, and a rewritten append-only file, have one PB.SET for each key.
Snapshot(ks) ==
    SetToSeq({[op |-> "set", key |-> k, type |-> ks[k].type, meant |-> ks[k].def]
                : k \in {j \in Keys : ks[j] # None}})

Replay(g, ks, cs) ==
    LET after[i \in 0..Len(cs)] ==
            IF i = 0 THEN ks ELSE KeysAfter(g, after[i - 1], cs[i])
    IN  after[Len(cs)]

\* Redis loads a snapshot: _rdb_load makes a message of each value in it.
LoadedKeys(g, cs) ==
    [k \in Keys |-> IF \E i \in DOMAIN cs : cs[i].key = k
                    THEN Entry(g, cs[CHOOSE i \in DOMAIN cs : cs[i].key = k].type)
                    ELSE None]

\* _rdb_load gives nothing for a type that is not known, and then Redis gives up.
Readable(g, cs) == \A i \in DOMAIN cs : cs[i].type \in TypesIn(g)

-----------------------------------------------------------------------------
(***************************************************************************)
(* The loader of each host.                                                *)
(***************************************************************************)

Take(h) ==
    /\ mode[h] # "down"
    /\ Present(batch[h]) = {}
    /\ Present(tasks[h]) # {}
    /\ batch' = [batch EXCEPT ![h] = tasks[h]]
    /\ tasks' = [tasks EXCEPT ![h] = NoFiles]
    /\ UNCHANGED <<mode, pool, disk, keys, savedVars, linkVars, history, faults>>

\* Mutant: the file is imported from memory and never written.
ImportUnwritten(h, f) ==
    /\ mode[h] # "down"
    /\ batch[h][f] # None
    /\ batch' = [batch EXCEPT ![h][f] = None]
    /\ IF pool[h][f] = None /\ BuildsOn(pool[h], batch[h][f])
       THEN pool' = [pool EXCEPT ![h][f] = batch[h][f]]
       ELSE UNCHANGED pool
    /\ UNCHANGED <<mode, tasks, disk, keys, savedVars, linkVars, history, faults>>

\* Mutant: a file that does not compile is left in the batch.
ImportRetried(h, f) ==
    /\ mode[h] # "down"
    /\ batch[h][f] # None
    /\ IF pool[h][f] = None /\ BuildsOn(pool[h], batch[h][f])
       THEN /\ pool' = [pool EXCEPT ![h][f] = batch[h][f]]
            /\ disk' = [disk EXCEPT ![h][f] = batch[h][f]]
            /\ batch' = [batch EXCEPT ![h][f] = None]
       ELSE UNCHANGED <<pool, disk, batch>>
    /\ UNCHANGED <<mode, tasks, keys, savedVars, linkVars, history, faults>>

\* The next file of the batch, in whatever order its hash table has it.  One that does
\* not build, because what it imports comes later, is not tried again.
ImportFile(h, f) ==
    /\ mode[h] # "down"
    /\ batch[h][f] # None
    /\ batch' = [batch EXCEPT ![h][f] = None]
    /\ IF pool[h][f] = None /\ BuildsOn(pool[h], batch[h][f])
       THEN /\ pool' = [pool EXCEPT ![h][f] = batch[h][f]]
            /\ disk' = [disk EXCEPT ![h][f] = batch[h][f]]
       ELSE UNCHANGED <<pool, disk>>
    /\ UNCHANGED <<mode, tasks, keys, savedVars, linkVars, history, faults>>

LoaderStep(h) == Take(h) \/ \E f \in Files : ImportFile(h, f)

-----------------------------------------------------------------------------
(***************************************************************************)
(* Clients, and what becomes of their commands.                            *)
(***************************************************************************)

\* Mutant: only PB.SET asks Redis to save it and send it on.
PerformUnsent(c) ==
    /\ mode["primary"] = "serving"
    /\ commands < MaxCommands
    /\ commands' = commands + 1
    /\ Run("primary", c)
    /\ saved' = IF format = "aof" /\ c.op = "set" THEN Append(saved, c) ELSE saved
    /\ stream' = IF link /\ c.op = "set" THEN Append(stream, c) ELSE stream
    /\ UNCHANGED <<mode, batch, pool, disk, format, loaded, link, missed, faults>>

\* A command that succeeds is replied to, saved and sent on, in that order, before the
\* next one; a PB.IMPORT before its file is imported.
Perform(c) ==
    /\ mode["primary"] = "serving"
    /\ commands < MaxCommands
    /\ commands' = commands + 1
    /\ Run("primary", c)
    /\ saved' = IF format = "aof" THEN Append(saved, c) ELSE saved
    /\ stream' = IF link THEN Append(stream, c) ELSE stream
    /\ UNCHANGED <<mode, batch, pool, disk, format, loaded, link, missed, faults>>

\* Mutant: the two arguments the wrong way round.
ImportSwapped(f, c) ==
    /\ Perform([op |-> "import", file |-> c, content |-> f])
    /\ asked' = [asked EXCEPT ![f] = @ \cup {c}]

Import(f, c) ==
    /\ Perform([op |-> "import", file |-> f, content |-> c])
    /\ asked' = [asked EXCEPT ![f] = @ \cup {c}]

Set(k, t) ==
    LET g == pool["primary"] IN
    /\ SetSucceeds(g, keys["primary"][k], t)
    /\ Perform([op |-> "set", key |-> k, type |-> t, meant |-> TypeDef(g, t)])
    /\ UNCHANGED asked

\* Mutant: PB.DEL does not ask Redis to save it and send it on.
DelUnsent(k) ==
    /\ keys["primary"][k] # None
    /\ mode["primary"] = "serving"
    /\ commands < MaxCommands
    /\ commands' = commands + 1
    /\ Run("primary", [op |-> "del", key |-> k])
    /\ UNCHANGED <<mode, batch, pool, disk, savedVars, linkVars, asked, faults>>

Del(k) ==
    /\ keys["primary"][k] # None
    /\ Perform([op |-> "del", key |-> k])
    /\ UNCHANGED asked

\* BGSAVE, or BGREWRITEAOF.
Save ==
    /\ mode["primary"] = "serving"
    /\ saved' = Snapshot(keys["primary"])
    /\ saved' # saved
    /\ UNCHANGED <<mode, registryVars, keys, format, loaded, linkVars, history, faults>>

ReplicaApply ==
    /\ link
    /\ stream # <<>>
    /\ LET c == Head(stream) IN
       /\ Run("replica", c)
       /\ missed' = MissedAfter(pool["replica"], keys["replica"], missed, c)
    /\ stream' = Tail(stream)
    /\ UNCHANGED <<mode, batch, pool, disk, savedVars, link, history, faults>>

\* A replica that connects loads a snapshot, with the types it has itself.
Sync ==
    /\ ~link
    /\ \A h \in Hosts : mode[h] = "serving"
    /\ LET s == Snapshot(keys["primary"]) IN
       IF Readable(pool["replica"], s)
       THEN /\ keys' = [keys EXCEPT !["replica"] = LoadedKeys(pool["replica"], s)]
            /\ link' = TRUE
       ELSE /\ keys' = [keys EXCEPT !["replica"] = NoKeys]
            /\ UNCHANGED link
    /\ UNCHANGED <<mode, registryVars, savedVars, stream, missed, history, faults>>

-----------------------------------------------------------------------------
(***************************************************************************)
(* Lost connections, crashes and restarts.                                 *)
(***************************************************************************)

Unlink ==
    /\ link' = FALSE
    /\ stream' = <<>>
    /\ missed' = {}

LinkLost ==
    /\ link
    /\ faults < MaxFaults
    /\ faults' = faults + 1
    /\ Unlink
    /\ UNCHANGED <<mode, registryVars, keys, savedVars, history>>

\* A crash leaves the directory, where the file being worked on may have been opened or
\* written (ImportService!GoDown), and what was saved.
Crash(h) ==
    /\ mode[h] # "down"
    /\ faults < MaxFaults
    /\ faults' = faults + 1
    /\ mode' = [mode EXCEPT ![h] = "down"]
    /\ tasks' = [tasks EXCEPT ![h] = NoFiles]
    /\ batch' = [batch EXCEPT ![h] = NoFiles]
    /\ pool' = [pool EXCEPT ![h] = NoFiles]
    /\ keys' = [keys EXCEPT ![h] = NoKeys]
    /\ \/ UNCHANGED disk
       \/ \E f \in Files : \E c \in {batch[h][f], Empty} :
             /\ batch[h][f] # None
             /\ disk[h][f] = None
             /\ disk' = [disk EXCEPT ![h][f] = c]
    /\ Unlink
    /\ UNCHANGED <<savedVars, history>>

\* Mutant: what was saved is loaded before the module has read its directory.
RestartUnready ==
    /\ mode["primary"] = "down"
    /\ Loadable(disk["primary"])
    /\ mode' = [mode EXCEPT !["primary"] = "serving"]
    /\ pool' = [pool EXCEPT !["primary"] = disk["primary"]]
    /\ keys' = [keys EXCEPT !["primary"] = Replay(NoFiles, NoKeys, saved)]
    /\ loaded' = Len(saved)
    /\ UNCHANGED <<tasks, batch, disk, format, saved, linkVars, history, faults>>

\* The module reads its directory, which starts the loader, and then Redis loads what was
\* saved: a snapshot at once, an append-only file command by command.
RestartPrimary ==
    /\ mode["primary"] = "down"
    /\ Loadable(disk["primary"])
    /\ pool' = [pool EXCEPT !["primary"] = disk["primary"]]
    /\ \/ /\ format = "rdb"
          /\ Readable(disk["primary"], saved)
          /\ mode' = [mode EXCEPT !["primary"] = "serving"]
          /\ keys' = [keys EXCEPT !["primary"] = LoadedKeys(disk["primary"], saved)]
          /\ UNCHANGED loaded
       \/ /\ format = "aof"
          /\ mode' = [mode EXCEPT !["primary"] = "loading"]
          /\ loaded' = 0
          /\ UNCHANGED keys
    /\ UNCHANGED <<tasks, batch, disk, format, saved, linkVars, history, faults>>

\* Errors of the commands in the append-only file are ignored.
LoadCommand ==
    /\ mode["primary"] = "loading"
    /\ loaded < Len(saved)
    /\ Run("primary", saved[loaded + 1])
    /\ loaded' = loaded + 1
    /\ UNCHANGED <<mode, batch, pool, disk, format, saved, linkVars, history, faults>>

LoadDone ==
    /\ mode["primary"] = "loading"
    /\ loaded = Len(saved)
    /\ mode' = [mode EXCEPT !["primary"] = "serving"]
    /\ loaded' = 0
    /\ UNCHANGED <<registryVars, keys, format, saved, linkVars, history, faults>>

\* The replica keeps no keys: it asks for a snapshot.
RestartReplica ==
    /\ mode["replica"] = "down"
    /\ Loadable(disk["replica"])
    /\ mode' = [mode EXCEPT !["replica"] = "serving"]
    /\ pool' = [pool EXCEPT !["replica"] = disk["replica"]]
    /\ UNCHANGED <<tasks, batch, disk, keys, savedVars, linkVars, history, faults>>

-----------------------------------------------------------------------------
Each(v) == [h \in Hosts |-> v]

Init ==
    /\ mode = Each("serving")
    /\ tasks = Each(NoFiles)
    /\ batch = Each(NoFiles)
    /\ pool = Each(NoFiles)
    /\ disk = Each(NoFiles)
    /\ keys = Each(NoKeys)
    /\ format \in {"aof", "rdb"}
    /\ saved = <<>>
    /\ loaded = 0
    /\ link = TRUE
    /\ stream = <<>>
    /\ missed = {}
    /\ asked = [f \in Files |-> {}]
    /\ commands = 0
    /\ faults = 0

Next ==
    \/ \E h \in Hosts : LoaderStep(h) \/ Crash(h)
    \/ \E o \in Offers : Import(o[1], o[2])
    \/ \E k \in Keys : Del(k) \/ \E t \in Types : Set(k, t)
    \/ Save
    \/ ReplicaApply
    \/ Sync
    \/ LinkLost
    \/ RestartPrimary
    \/ LoadCommand
    \/ LoadDone
    \/ RestartReplica

\* Loader threads run, a connected replica reads its stream, and Redis loads what it has
\* begun to load.  Nothing is assumed of clients, faults, restarts or connections.
Fairness ==
    /\ \A h \in Hosts : WF_vars(LoaderStep(h))
    /\ WF_vars(ReplicaApply)
    /\ WF_vars(LoadCommand \/ LoadDone)

Spec == Init /\ [][Next]_vars /\ Fairness

-----------------------------------------------------------------------------
(***************************************************************************)
(* Properties.                                                             *)
(***************************************************************************)

FileMap == [Files -> Contents \cup {None}]

Commands ==
    [op : {"import"}, file : Files, content : Contents]
    \cup [op : {"set"}, key : Keys, type : Types, meant : Contents]
    \cup [op : {"del"}, key : Keys]

\* The type of every variable.
TypeOK ==
    /\ mode \in [Hosts -> {"serving", "loading", "down"}]
    /\ tasks \in [Hosts -> FileMap] /\ batch \in [Hosts -> FileMap]
    /\ pool \in [Hosts -> FileMap] /\ disk \in [Hosts -> FileMap]
    /\ keys \in [Hosts -> [Keys -> [type : Types, def : Contents] \cup {None}]]
    /\ format \in {"aof", "rdb"} /\ saved \in Seq(Commands)
    /\ loaded \in 0..Len(saved)
    /\ link \in BOOLEAN /\ stream \in Seq(Commands) /\ missed \subseteq Keys
    /\ asked \in [Files -> SUBSET Contents]
    /\ commands \in 0..MaxCommands /\ faults \in 0..MaxFaults

\* Directory d gives type t the definition def.
Gives(d, t, def) == t \in TypesIn(d) /\ TypeDef(d, t) = def

\* Whatever was saved, and whatever a host would save now, can be read again with the
\* types in its directory alone, and means what it meant: RDB loading never meets an
\* unknown type, and never parses a message with another definition of its type.  A
\* crash can spoil that only by leaving a directory the module refuses to load.
SavedIsReadable ==
    /\ \A h \in Hosts : mode[h] # "down" =>
          /\ Loadable(disk[h])
          /\ \A k \in Keys : keys[h][k] # None =>
                Gives(disk[h], keys[h][k].type, keys[h][k].def)
    /\ Loadable(disk["primary"]) =>
          \A i \in DOMAIN saved : saved[i].op = "set" =>
              Gives(disk["primary"], saved[i].type, saved[i].meant)

\* With an append-only file a crash at any moment loses no key and changes none: replaying
\* it from the start gives what the clients were told, and, while it is being replayed
\* with the loader at work beside, what is left of it still leads there.
CrashLosesNothing ==
    format = "aof" =>
        LET full == Replay(disk["primary"], NoKeys, saved) IN
        /\ mode["primary"] = "serving" => keys["primary"] = full
        /\ mode["primary"] = "loading" =>
              Replay(pool["primary"], keys["primary"], SubSeq(saved, loaded + 1, Len(saved)))
                  = full

\* What command c makes of what a replica holds and has passed over.
Applied(g, s, c) ==
    [keys   |-> KeysAfter(g, s.keys, c),
     missed |-> MissedAfter(g, s.keys, s.missed, c)]

\* What the replica holds at the end of its stream, if it served no more types than now.
AtEnd ==
    LET after[i \in 0..Len(stream)] ==
            IF i = 0 THEN [keys |-> keys["replica"], missed |-> missed]
                     ELSE Applied(pool["replica"], after[i - 1], stream[i])
    IN  after[Len(stream)]

\* A replica differs from its primary only in keys of which it passed over a PB.SET, and
\* in what it takes a type to be, where it imported the file of another PB.IMPORT.
ReplicaFollows ==
    link =>
        \A k \in Keys \ AtEnd.missed :
            LET here == keys["primary"][k]  there == AtEnd.keys[k] IN
            \/ here = there
            \/ /\ here # None /\ there # None /\ here.type = there.type
               /\ \E f \in Files : pool["primary"][f] # pool["replica"][f]

\* Nothing is under way.
Quiet ==
    /\ \A h \in Hosts : Present(tasks[h]) = {} /\ Present(batch[h]) = {}
    /\ mode["primary"] # "loading"
    /\ stream = <<>>

\* The definition in content c of file f does not depend on when it is imported: clients
\* gave the file no other content, it imports none, and no other file has its types.
Simple(f, c) ==
    /\ asked[f] = {c}
    /\ Kind[c] = "good" /\ Deps[c] = {}
    /\ \A g \in Files \ {f} : \A d \in asked[g] : Defines[c] \cap Defines[d] = {}

\* As long as nothing fails, such a file is served by both hosts when all has been done.
SimpleFilesArrive ==
    (Quiet /\ faults = 0) =>
        \A f \in Files, c \in Contents : Simple(f, c) =>
            \A h \in Hosts : pool[h][f] = c /\ disk[h][f] = c

\* Clients and faults come to an end, and then so does all they started: imports, the
\* stream, and the loading of an append-only file.
Settles == []<>Quiet
=============================================================================
