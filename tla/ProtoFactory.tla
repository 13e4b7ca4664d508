------------------------------ MODULE ProtoFactory ------------------------------
(***************************************************************************)
(* The registry of .proto files (proto_factory.cpp) and the two threads    *)
(* that work on it: the Redis main thread, which runs PB.IMPORT,           *)
(* PB.LASTIMPORT, the lookups of every other command and the destructor,   *)
(* and the loader thread (_async_load), which writes the accepted files    *)
(* to proto_dir and imports them into protobuf's descriptor pool.          *)
(*                                                                         *)
(* One action is one step no other thread can observe half done: a         *)
(* critical section of _mtx, a file-system call, or a call into the pool,  *)
(* which has a mutex of its own.                                           *)
(***************************************************************************)
EXTENDS ProtoCompiler, Naturals, FiniteSets

CONSTANTS
    DiskFaults,  \* may opening or writing a file fail?
    MaxImports,  \* bound: accepted PB.IMPORT commands
    MaxCrashes   \* bound: crashes of the server

ASSUME BoundsAssumption ==
    DiskFaults \in BOOLEAN /\ MaxImports \in Nat /\ MaxCrashes \in Nat

VARIABLES
    mpc,          \* where the main thread is; "down" and "failed" when there is no process
    arg,          \* the file and content of the PB.IMPORT being run
    lpc,          \* where the loader thread is
    mtx,          \* _mtx: the thread that holds it, or None
    stopLoader,   \* _stop_loader
    tasks,        \* _tasks
    batch,        \* the loader's local `tasks': what is left of its batch
    cur,          \* the file of the batch the loader works on
    outcome,      \* the status _load(filename, content) is about to produce
    status,       \* the loader's local `status'
    lastLoaded,   \* _last_loaded_files
    loadedFiles,  \* _loaded_files
    pool,         \* the importer's descriptor pool, by file
    cache,        \* _descriptor_cache
    disk,         \* the files under proto_dir
    imports,      \* PB.IMPORT commands accepted so far (only for the bound)
    crashes       \* crashes so far (only for the bound)

mainVars   == <<mpc, arg>>
loaderVars == <<lpc, batch, cur, outcome, status>>
shared     == <<mtx, stopLoader, tasks, lastLoaded>>
registry   == <<loadedFiles, pool, disk>>
bounds     == <<imports, crashes>>
vars       == <<mainVars, loaderVars, shared, registry, cache, bounds>>

Statuses == {"OK", "ERR already", "ERR open", "ERR load"}
Up       == mpc \notin {"down", "failed"}

\* What Importer::Import decides about content c, given the factory's own pool.
Builds(c) == BuildsOn(pool, c)

-----------------------------------------------------------------------------
(***************************************************************************)
(* The constructor, the destructor and crashes.                            *)
(***************************************************************************)

MemoryReset ==
    /\ arg' = None
    /\ batch' = NoFiles
    /\ cur' = None
    /\ outcome' = None
    /\ status' = NoFiles
    /\ mtx' = None
    /\ stopLoader' = FALSE
    /\ tasks' = NoFiles
    /\ lastLoaded' = NoFiles
    /\ cache' = {}

Init ==
    /\ mpc = "idle"
    /\ arg = None
    /\ lpc = "top"
    /\ mtx = None
    /\ stopLoader = FALSE
    /\ tasks = NoFiles
    /\ batch = NoFiles
    /\ cur = None
    /\ outcome = None
    /\ status = NoFiles
    /\ lastLoaded = NoFiles
    /\ loadedFiles = {}
    /\ pool = NoFiles
    /\ cache = {}
    /\ disk = NoFiles
    /\ imports = 0
    /\ crashes = 0

\* The process is gone: everything but the directory is lost.
Halt ==
    /\ MemoryReset
    /\ mpc' = "down"
    /\ lpc' = "exited"
    /\ loadedFiles' = {}
    /\ pool' = NoFiles
    /\ UNCHANGED <<disk, imports>>

Crash ==
    /\ Up
    /\ crashes < MaxCrashes
    /\ crashes' = crashes + 1
    /\ Halt

\* OnLoad: every .proto file of the directory is imported before the loader
\* thread starts; the first failure makes Redis refuse the module, however often
\* it is started again.
Restart ==
    /\ ~Up
    /\ MemoryReset
    /\ IF Loadable(disk)
       THEN /\ mpc' = "idle"
            /\ lpc' = "top"
            /\ loadedFiles' = Present(disk)
            /\ pool' = disk
       ELSE /\ mpc' = "failed"
            /\ UNCHANGED <<lpc, loadedFiles, pool>>
    /\ UNCHANGED <<disk, bounds>>

\* notify_one wakes the loader if it sleeps in the wait, and is lost otherwise.
NotifyOne == lpc' = IF lpc = "asleep" THEN "relock" ELSE lpc

\* The destructor sets _stop_loader without taking _mtx ...
StopSet ==
    /\ mpc = "idle"
    /\ stopLoader' = TRUE
    /\ mpc' = "stopNotify"
    /\ UNCHANGED <<arg, loaderVars, mtx, tasks, lastLoaded, registry, cache, bounds>>

\* Mutant: the destructor joins without waking the loader.
StopSilent ==
    /\ mpc = "stopNotify"
    /\ mpc' = "join"
    /\ UNCHANGED <<arg, loaderVars, shared, registry, cache, bounds>>

StopNotify ==
    /\ mpc = "stopNotify"
    /\ NotifyOne
    /\ mpc' = "join"
    /\ UNCHANGED <<arg, batch, cur, outcome, status, shared, registry, cache, bounds>>

\* ... and then waits for the loader to leave its loop.
Join ==
    /\ mpc = "join"
    /\ lpc = "exited"
    /\ Halt
    /\ UNCHANGED crashes
-----------------------------------------------------------------------------
(***************************************************************************)
(* The main thread.                                                        *)
(***************************************************************************)

\* PB.IMPORT f c: load(filename, content) takes _mtx ...
ImportLock(f, c) ==
    /\ mpc = "idle"
    /\ imports < MaxImports
    /\ mtx = None
    /\ mtx' = "main"
    /\ arg' = <<f, c>>
    /\ mpc' = "put"
    /\ imports' = imports + 1
    /\ UNCHANGED <<loaderVars, stopLoader, tasks, lastLoaded, registry, cache, crashes>>

\* ... leaves the task, in place of one of the same name, and releases _mtx ...
ImportPut ==
    /\ mpc = "put"
    /\ tasks' = [tasks EXCEPT ![arg[1]] = arg[2]]
    /\ mtx' = None
    /\ arg' = None
    /\ mpc' = "notify"
    /\ UNCHANGED <<loaderVars, stopLoader, lastLoaded, registry, cache, bounds>>

\* Mutant: the task is left without waking the loader.
ImportNotifySilent ==
    /\ mpc = "notify"
    /\ mpc' = "idle"
    /\ UNCHANGED <<arg, loaderVars, shared, registry, cache, bounds>>

\* ... wakes the loader, replicates the command and replies OK.
ImportNotify ==
    /\ mpc = "notify"
    /\ NotifyOne
    /\ mpc' = "idle"
    /\ UNCHANGED <<arg, batch, cur, outcome, status, shared, registry, cache, bounds>>

\* PB.LASTIMPORT: the results are swapped out under _mtx and returned.
LastImportLock ==
    /\ mpc = "idle"
    /\ mtx = None
    /\ mtx' = "main"
    /\ mpc' = "swap"
    /\ UNCHANGED <<arg, loaderVars, stopLoader, tasks, lastLoaded, registry, cache, bounds>>

LastImportSwap ==
    /\ mpc = "swap"
    /\ lastLoaded' = NoFiles
    /\ mtx' = None
    /\ mpc' = "idle"
    /\ UNCHANGED <<arg, loaderVars, stopLoader, tasks, registry, cache, bounds>>

\* Every other command looks its type up; a type once found is cached.
Descriptor(t) ==
    /\ mpc = "idle"
    /\ t \notin cache
    /\ t \in TypesIn(pool)
    /\ cache' = cache \cup {t}
    /\ UNCHANGED <<mainVars, loaderVars, shared, registry, bounds>>

MainNext ==
    \/ \E f \in Files, c \in Contents : ImportLock(f, c)
    \/ ImportPut
    \/ ImportNotify
    \/ LastImportLock
    \/ LastImportSwap
    \/ \E t \in Types : Descriptor(t)
    \/ StopSet
    \/ StopNotify
    \/ Join

-----------------------------------------------------------------------------
(***************************************************************************)
(* The loader thread.                                                      *)
(***************************************************************************)

LoopTest ==
    /\ lpc = "top"
    /\ lpc' = IF stopLoader THEN "exited" ELSE "relock"
    /\ UNCHANGED <<mainVars, batch, cur, outcome, status, shared, registry, cache, bounds>>

\* unique_lock at the head of the loop, and the lock the wait takes again.
Relock ==
    /\ lpc = "relock"
    /\ mtx = None
    /\ mtx' = "loader"
    /\ lpc' = "check"
    /\ UNCHANGED <<mainVars, batch, cur, outcome, status, stopLoader, tasks, lastLoaded,
                   registry, cache, bounds>>

\* The wait's predicate is false: the loader is going to sleep, still holding _mtx.
CheckFalse ==
    /\ lpc = "check"
    /\ ~stopLoader
    /\ Present(tasks) = {}
    /\ lpc' = "block"
    /\ UNCHANGED <<mainVars, batch, cur, outcome, status, shared, registry, cache, bounds>>

\* It is true: the loader takes all the tasks and releases _mtx.
CheckTrue ==
    /\ lpc = "check"
    /\ stopLoader \/ Present(tasks) # {}
    /\ batch' = tasks
    /\ tasks' = NoFiles
    /\ mtx' = None
    /\ lpc' = "batch"
    /\ UNCHANGED <<mainVars, cur, outcome, status, stopLoader, lastLoaded, registry, cache, bounds>>

\* Releasing _mtx and sleeping is one step, as the condition variable promises.
Block ==
    /\ lpc = "block"
    /\ mtx' = None
    /\ lpc' = "asleep"
    /\ UNCHANGED <<mainVars, batch, cur, outcome, status, stopLoader, tasks, lastLoaded,
                   registry, cache, bounds>>

SpuriousWakeup ==
    /\ lpc = "asleep"
    /\ lpc' = "relock"
    /\ UNCHANGED <<mainVars, batch, cur, outcome, status, shared, registry, cache, bounds>>

\* Mutant: _loaded_files is not consulted.
PickFileUnchecked(f) ==
    /\ lpc = "batch"
    /\ batch[f] # None
    /\ cur' = f
    /\ lpc' = "open"
    /\ UNCHANGED <<mainVars, batch, outcome, status, shared, registry, cache, bounds>>

\* The next file of the batch, in the order of an unordered_map; one that is in
\* _loaded_files already is refused before anything is written.
PickFile(f) ==
    /\ lpc = "batch"
    /\ batch[f] # None
    /\ cur' = f
    /\ IF f \in loadedFiles
       THEN outcome' = "ERR already" /\ lpc' = "record"
       ELSE outcome' = None /\ lpc' = "open"
    /\ UNCHANGED <<mainVars, batch, status, shared, registry, cache, bounds>>

\* _dump_to_disk opens the file, which truncates it ...
OpenFile ==
    /\ lpc = "open"
    /\ disk' = [disk EXCEPT ![cur] = Empty]
    /\ lpc' = "write"
    /\ UNCHANGED <<mainVars, batch, cur, outcome, status, shared, loadedFiles, pool, cache, bounds>>

\* ... or fails to, and throws ...
OpenFails ==
    /\ lpc = "open"
    /\ DiskFaults
    /\ outcome' = "ERR open"
    /\ lpc' = "record"
    /\ UNCHANGED <<mainVars, batch, cur, status, shared, registry, cache, bounds>>

\* ... and writes it, without looking at the stream's state afterwards.
WriteFile ==
    /\ lpc = "write"
    /\ \/ disk' = [disk EXCEPT ![cur] = batch[cur]]
       \/ DiskFaults /\ UNCHANGED disk
    /\ lpc' = "import"
    /\ UNCHANGED <<mainVars, batch, cur, outcome, status, shared, loadedFiles, pool, cache, bounds>>

\* Importer::Import returns a file the pool has, whatever is on disk now.
ImportCached ==
    /\ lpc = "import"
    /\ pool[cur] # None
    /\ loadedFiles' = loadedFiles \cup {cur}
    /\ outcome' = "OK"
    /\ lpc' = "record"
    /\ UNCHANGED <<mainVars, batch, cur, status, shared, pool, disk, cache, bounds>>

ImportBuilds ==
    /\ lpc = "import"
    /\ pool[cur] = None
    /\ Builds(disk[cur])
    /\ Kind[disk[cur]] = "good"
    /\ pool' = [pool EXCEPT ![cur] = disk[cur]]
    /\ loadedFiles' = loadedFiles \cup {cur}
    /\ outcome' = "OK"
    /\ lpc' = "record"
    /\ UNCHANGED <<mainVars, batch, cur, status, shared, disk, cache, bounds>>

\* A warning counts as an error, but the pool keeps the file.
ImportWarns ==
    /\ lpc = "import"
    /\ pool[cur] = None
    /\ Builds(disk[cur])
    /\ Kind[disk[cur]] = "warn"
    /\ pool' = [pool EXCEPT ![cur] = disk[cur]]
    /\ outcome' = "ERR load"
    /\ lpc' = "remove"
    /\ UNCHANGED <<mainVars, batch, cur, status, shared, loadedFiles, disk, cache, bounds>>

ImportFails ==
    /\ lpc = "import"
    /\ pool[cur] = None
    /\ ~Builds(disk[cur])
    /\ outcome' = "ERR load"
    /\ lpc' = "remove"
    /\ UNCHANGED <<mainVars, batch, cur, status, shared, registry, cache, bounds>>

\* Mutant: the catch block rethrows without removing the file.
RemoveForgotten ==
    /\ lpc = "remove"
    /\ lpc' = "record"
    /\ UNCHANGED <<mainVars, batch, cur, outcome, status, shared, registry, cache, bounds>>

RemoveFile ==
    /\ lpc = "remove"
    /\ disk' = [disk EXCEPT ![cur] = None]
    /\ lpc' = "record"
    /\ UNCHANGED <<mainVars, batch, cur, outcome, status, shared, loadedFiles, pool, cache, bounds>>

\* Mutant: the content is recorded where the status belongs.
RecordContent ==
    /\ lpc = "record"
    /\ status' = [status EXCEPT ![cur] = batch[cur]]
    /\ batch' = [batch EXCEPT ![cur] = None]
    /\ cur' = None
    /\ outcome' = None
    /\ lpc' = "batch"
    /\ UNCHANGED <<mainVars, shared, registry, cache, bounds>>

RecordStatus ==
    /\ lpc = "record"
    /\ status' = [status EXCEPT ![cur] = outcome]
    /\ batch' = [batch EXCEPT ![cur] = None]
    /\ cur' = None
    /\ outcome' = None
    /\ lpc' = "batch"
    /\ UNCHANGED <<mainVars, shared, registry, cache, bounds>>

\* Mutant: the results are merged without taking _mtx.
BatchDoneUnlocked ==
    /\ lpc = "batch"
    /\ Present(batch) = {}
    /\ lpc' = IF Present(status) = {} THEN "top" ELSE "publish"
    /\ UNCHANGED <<mainVars, batch, cur, outcome, status, shared, registry, cache, bounds>>

\* The batch is done: its results, if any, are merged into those not yet fetched.
BatchDone ==
    /\ lpc = "batch"
    /\ Present(batch) = {}
    /\ \/ /\ Present(status) = {}
          /\ lpc' = "top"
          /\ UNCHANGED mtx
       \/ /\ Present(status) # {}
          /\ mtx = None
          /\ mtx' = "loader"
          /\ lpc' = "publish"
    /\ UNCHANGED <<mainVars, batch, cur, outcome, status, stopLoader, tasks, lastLoaded,
                   registry, cache, bounds>>

\* Mutant: the results replace those not yet fetched.
PublishReplacing ==
    /\ lpc = "publish"
    /\ lastLoaded' = status
    /\ status' = NoFiles
    /\ mtx' = None
    /\ lpc' = "top"
    /\ UNCHANGED <<mainVars, batch, cur, outcome, stopLoader, tasks, registry, cache, bounds>>

Publish ==
    /\ lpc = "publish"
    /\ lastLoaded' = [f \in Files |-> IF status[f] # None THEN status[f] ELSE lastLoaded[f]]
    /\ status' = NoFiles
    /\ mtx' = None
    /\ lpc' = "top"
    /\ UNCHANGED <<mainVars, batch, cur, outcome, stopLoader, tasks, registry, cache, bounds>>

LoaderStep ==
    \/ LoopTest
    \/ Relock
    \/ CheckFalse
    \/ CheckTrue
    \/ Block
    \/ \E f \in Files : PickFile(f)
    \/ OpenFile
    \/ OpenFails
    \/ WriteFile
    \/ ImportCached
    \/ ImportBuilds
    \/ ImportWarns
    \/ ImportFails
    \/ RemoveFile
    \/ RecordStatus
    \/ BatchDone
    \/ Publish

Next == MainNext \/ LoaderStep \/ SpuriousWakeup \/ Crash \/ Restart

Spec == Init /\ [][Next]_vars

(***************************************************************************)
(* Fairness.  Both threads are scheduled by the operating system for ever, *)
(* so a thread that can take its next step takes it.  The main thread      *)
(* holds _mtx only for a few assignments and releases it between commands, *)
(* so a loader that keeps trying to lock it gets it (strong fairness).     *)
(* Nothing is assumed of clients, of crashes or of spurious wakeups.       *)
(***************************************************************************)
MainStep == ImportPut \/ ImportNotify \/ LastImportSwap \/ StopNotify \/ Join

Fairness == /\ WF_vars(MainStep)
            /\ WF_vars(LoaderStep)
            /\ SF_vars(Relock)
            /\ SF_vars(BatchDone)

FairSpec == Spec /\ Fairness

-----------------------------------------------------------------------------
(***************************************************************************)
(* Properties.                                                             *)
(***************************************************************************)

MainPCs   == {"idle", "put", "notify", "swap", "stopNotify", "join", "down", "failed"}
LoaderPCs == {"top", "relock", "check", "block", "asleep", "batch", "open", "write",
              "import", "remove", "record", "publish", "exited"}

\* The type of every variable.
TypeOK ==
    /\ mpc \in MainPCs
    /\ arg \in (Files \X Contents) \cup {None}
    /\ lpc \in LoaderPCs
    /\ mtx \in {None, "main", "loader"}
    /\ stopLoader \in BOOLEAN
    /\ tasks \in [Files -> Contents \cup {None}]
    /\ batch \in [Files -> Contents \cup {None}]
    /\ cur \in Files \cup {None}
    /\ outcome \in Statuses \cup {None}
    /\ status \in [Files -> Statuses \cup {None}]
    /\ lastLoaded \in [Files -> Statuses \cup {None}]
    /\ loadedFiles \subseteq Files
    /\ pool \in [Files -> Contents \cup {None}]
    /\ cache \subseteq Types
    /\ disk \in [Files -> Contents \cup {None}]
    /\ imports \in 0..MaxImports
    /\ crashes \in 0..MaxCrashes

\* Where each thread is says which of its locals are in use; the loader works on a file
\* of its batch that is not in _loaded_files.
Handling == {"open", "write", "import", "remove", "record"}

ThreadsOK ==
    /\ arg # None <=> mpc = "put"
    /\ cur # None <=> lpc \in Handling
    /\ cur # None => batch[cur] # None
    /\ lpc \in {"open", "write", "import", "remove"} => cur \notin loadedFiles
    /\ outcome # None <=> lpc \in {"remove", "record"}
    /\ lpc \notin Handling \cup {"batch"} => Present(batch) = {}
    /\ lpc \notin Handling \cup {"batch", "publish"} => Present(status) = {}
    /\ ~Up => /\ lpc = "exited"
              /\ loadedFiles = {}
              /\ pool = NoFiles /\ tasks = NoFiles /\ lastLoaded = NoFiles

\* The protobuf compiler has no warnings about any content that is imported.
NoWarnings == \A c \in Contents : Kind[c] # "warn"

MainHolds   == mpc \in {"put", "swap"}
LoaderHolds == lpc \in {"check", "block", "publish"}

\* The two threads are never inside critical sections of _mtx together, and _mtx is
\* held by exactly the thread that is inside one: no path leaves it locked.
MutualExclusion ==
    /\ ~(MainHolds /\ LoaderHolds)
    /\ MainHolds <=> mtx = "main"
    /\ LoaderHolds <=> mtx = "loader"

\* The loader has written file f and not yet decided about it.
InWindow(f) == cur = f /\ lpc \in {"write", "import", "remove"}

\* What is on disk is what _loaded_files says, except for the one file being worked
\* on: a failed import leaves nothing behind, and no import removes another's file.
DiskIsLoaded ==
    Up => \A f \in Files : disk[f] # None <=> (f \in loadedFiles \/ InWindow(f))

\* The pool keeps f although its import was refused because of a warning.
Warned(f) == pool[f] # None /\ Kind[pool[f]] = "warn"

\* The types served for an imported file are those of the file on disk, so a restart
\* serves the same ones: a second import of the name touches neither.  Only a file that
\* an earlier import left in the pool with a warning may differ.
PoolMatchesDisk ==
    Up => \A f \in loadedFiles : pool[f] = disk[f] \/ Warned(f)

\* When the loader records "OK" for an import, the pool and the disk hold the content
\* of that command: its types are the ones served, now and after a restart.
OkMeansImported ==
    lpc = "record" /\ outcome = "OK" => pool[cur] = batch[cur] /\ disk[cur] = batch[cur]

\* When it records an error, neither the pool nor the disk holds the file, unless an
\* earlier import put it in both (load(filename, content) and its catch block).
ErrorLeavesNothing ==
    lpc = "record" /\ outcome # "OK" =>
        /\ disk[cur] = pool[cur]
        /\ disk[cur] # None <=> outcome = "ERR already"

\* Whenever the loader is not in the middle of a file, and no import of this process drew
\* a warning, proto_dir is a directory the constructor loads without an error: a server
\* that goes down then comes up again.
Restartable ==
    (Up /\ \A f \in Files : ~InWindow(f) /\ ~Warned(f)) => Loadable(disk)

\* Only a crash can lead to the module being refused at start-up: after any sequence of
\* imports, good and bad but without warnings, and orderly restarts it loads.
RefusedOnlyAfterCrash == mpc = "failed" => crashes > 0

\* The import of f has been accepted and its result not yet fetched.
Owed(f) == \/ tasks[f] # None
           \/ batch[f] # None
           \/ status[f] # None
           \/ lastLoaded[f] # None

\* No accepted import is forgotten: a file leaves the tasks, the batch and the results
\* only by being returned by PB.LASTIMPORT, or with the process.
NoneForgotten ==
    [][\A f \in Files : Owed(f) /\ ~Owed(f)' => mpc = "swap" \/ ~Up']_vars

\* A result "OK" stays among the results until PB.LASTIMPORT returns it.
OkIsReported ==
    [][\A f \in Files :
          lastLoaded[f] = "OK" /\ lastLoaded[f]' # "OK" => mpc = "swap" \/ ~Up']_vars

\* Every import accepted while the server runs gets a result.
EveryImportReported ==
    \A f \in Files :
        (tasks[f] # None) ~> (lastLoaded[f] # None \/ stopLoader \/ ~Up)

\* The destructor returns, unless it set _stop_loader between the moment the loader
\* found the wait's predicate false and the moment it went to sleep.
StopsUnlessBlocking ==
    (mpc = "stopNotify" /\ lpc # "block") ~> ~Up

=============================================================================
