-------------------------- MODULE ProtoFactoryProofs ---------------------------
(***************************************************************************)
(* Theorems about the factory, for any files, contents, types and bounds:  *)
(* its threads, directory and pool; then what a result of PB.IMPORT means, *)
(* and that the two threads implement the import service, given a disk     *)
(* that works and a compiler that never warns.  With a disk that fails     *)
(* unnoticed, or a file that compiles with a warning, neither of the two   *)
(* is true.                                                                *)
(***************************************************************************)
EXTENDS FactoryService, TLAPS

\* The type invariant is inductive only together with ThreadsOK: an action that works
\* on arg or cur must know that they are set.
LEMMA TypedThreads == Spec => [](TypeOK /\ ThreadsOK)
<1> DEFINE Goal == TypeOK /\ ThreadsOK
<1>1. Init => Goal
  <2>1. Init => imports \in 0..MaxImports /\ crashes \in 0..MaxCrashes
    BY BoundsAssumption DEF Init
  <2> QED
    BY <2>1, NoneAssumption DEF Init, TypeOK, ThreadsOK, NoFiles, MainPCs, LoaderPCs, Statuses, Handling,
                Present, Up
<1>2. Goal /\ [Next]_vars => Goal'
  <2> SUFFICES ASSUME TypeOK, ThreadsOK, [Next]_vars PROVE Goal'
    OBVIOUS
  <2>a. imports \in 0..MaxImports /\ crashes \in 0..MaxCrashes
    BY DEF TypeOK
  <2>b. ASSUME NEW f \in Files, NEW c \in Contents, ImportLock(f, c)
        PROVE  imports' \in 0..MaxImports
    BY <2>a, <2>b, BoundsAssumption DEF ImportLock
  <2>c. Crash => crashes' \in 0..MaxCrashes
    BY <2>a, BoundsAssumption DEF Crash
  <2>d. ASSUME NEW f \in Files, NEW c \in Contents
        PROVE  <<f, c>> \in Files \X Contents /\ <<f, c>> # None
    <3>1. <<f, c>> \in Files \X Contents
      OBVIOUS
    <3>2. \A p \in Files \X Contents : p # None
      BY NoneAssumption, Zenon
    <3> QED BY <3>1, <3>2, Zenon
  <2> USE NoneAssumption DEF TypeOK, ThreadsOK, MainPCs, LoaderPCs, Statuses, Handling, Present, Up
  <2>1. ASSUME NEW f \in Files, NEW c \in Contents, ImportLock(f, c) PROVE Goal'
    <3>1. arg' \in Files \X Contents /\ arg' # None
      BY <2>1, <2>d DEF ImportLock
    <3>2. imports' \in 0..MaxImports
      BY <2>1, <2>b
    <3> QED BY <2>1, <3>1, <3>2 DEF ImportLock, loaderVars, registry
  <2>2. CASE ImportPut
    <3>1. arg \in Files \X Contents
      BY <2>2 DEF ImportPut
    <3>2. tasks' \in [Files -> Contents \cup {None}]
      BY <2>2, <3>1 DEF ImportPut
    <3> QED BY <2>2, <3>2 DEF ImportPut, loaderVars, registry, bounds
  <2>3. CASE ImportNotify
    BY <2>3 DEF ImportNotify, NotifyOne, shared, registry, bounds
  <2>4. CASE LastImportLock
    BY <2>4 DEF LastImportLock, loaderVars, registry, bounds
  <2>5. CASE LastImportSwap
    BY <2>5 DEF LastImportSwap, NoFiles, loaderVars, registry, bounds
  <2>6. ASSUME NEW t \in Types, Descriptor(t) PROVE Goal'
    BY <2>6 DEF Descriptor, mainVars, loaderVars, shared, registry, bounds
  <2>7. CASE StopSet
    BY <2>7 DEF StopSet, loaderVars, registry, bounds
  <2>8. CASE StopNotify
    BY <2>8 DEF StopNotify, NotifyOne, shared, registry, bounds
  <2>9. CASE Join
    BY <2>9 DEF Join, Halt, MemoryReset, NoFiles
  <2>10. CASE LoaderStep
    <3>1. CASE LoopTest
      BY <3>1 DEF LoopTest, mainVars, shared, registry, bounds
    <3>2. CASE Relock
      BY <3>2 DEF Relock, mainVars, registry, bounds
    <3>3. CASE CheckFalse
      BY <3>3 DEF CheckFalse, mainVars, shared, registry, bounds
    <3>4. CASE CheckTrue
      BY <3>4 DEF CheckTrue, NoFiles, mainVars, registry, bounds
    <3>5. CASE Block
      BY <3>5 DEF Block, mainVars, registry, bounds
    <3>6. ASSUME NEW f \in Files, PickFile(f) PROVE Goal'
      BY <3>6 DEF PickFile, mainVars, shared, registry, bounds
    <3>7. CASE OpenFile
      BY <3>7, EmptyAssumption DEF OpenFile, mainVars, shared, bounds
    <3>8. CASE OpenFails
      BY <3>8 DEF OpenFails, mainVars, shared, registry, bounds
    <3>9. CASE WriteFile
      BY <3>9 DEF WriteFile, mainVars, shared, bounds
    <3>10. CASE ImportCached
      BY <3>10 DEF ImportCached, mainVars, shared, bounds
    <3>11. CASE ImportBuilds
      BY <3>11 DEF ImportBuilds, mainVars, shared, bounds
    <3>12. CASE ImportWarns
      BY <3>12 DEF ImportWarns, mainVars, shared, bounds
    <3>13. CASE ImportFails
      BY <3>13 DEF ImportFails, mainVars, shared, registry, bounds
    <3>14. CASE RemoveFile
      BY <3>14 DEF RemoveFile, mainVars, shared, bounds
    <3>15. CASE RecordStatus
      BY <3>15 DEF RecordStatus, mainVars, shared, registry, bounds
    <3>16. CASE BatchDone
      BY <3>16 DEF BatchDone, mainVars, registry, bounds
    <3>17. CASE Publish
      BY <3>17 DEF Publish, NoFiles, mainVars, registry, bounds
    <3> QED
      BY <2>10, <3>1, <3>2, <3>3, <3>4, <3>5, <3>6, <3>7, <3>8, <3>9, <3>10, <3>11, <3>12,
      <3>13, <3>14, <3>15, <3>16, <3>17 DEF LoaderStep
  <2>11. CASE SpuriousWakeup
    BY <2>11 DEF SpuriousWakeup, mainVars, shared, registry, bounds
  <2>12. CASE Crash
    BY <2>12, <2>c DEF Crash, Halt, MemoryReset, NoFiles
  <2>13. CASE Restart
    BY <2>13 DEF Restart, MemoryReset, NoFiles, Present, bounds
  <2>14. CASE UNCHANGED vars
    BY <2>14 DEF vars, mainVars, loaderVars, shared, registry, bounds
  <2> QED
    BY <2>1, <2>2, <2>3, <2>4, <2>5, <2>6, <2>7, <2>8, <2>9, <2>10, <2>11, <2>12, <2>13,
    <2>14 DEF Next, MainNext
<1> QED
  BY <1>1, <1>2, PTL DEF Spec

\* Every variable has its type, whatever the threads do.
THEOREM TypeCorrect == Spec => []TypeOK
  BY TypedThreads, PTL

\* The two threads are never inside critical sections of _mtx together, and _mtx is
\* held exactly by the thread inside one.
THEOREM MutexHeldByOne == Spec => []MutualExclusion
<1>1. Init => MutualExclusion
  BY NoneAssumption DEF Init, MutualExclusion, MainHolds, LoaderHolds
<1>2. ThreadsOK /\ MutualExclusion /\ [Next]_vars => MutualExclusion'
  <2> SUFFICES ASSUME ThreadsOK, MutualExclusion, [Next]_vars PROVE MutualExclusion'
    OBVIOUS
  <2> USE NoneAssumption DEF MutualExclusion, MainHolds, LoaderHolds
  <2>1. ASSUME NEW f \in Files, NEW c \in Contents, ImportLock(f, c) PROVE MutualExclusion'
    BY <2>1 DEF ImportLock, loaderVars, registry
  <2>2. CASE ImportPut
    BY <2>2 DEF ImportPut, loaderVars, registry, bounds
  <2>3. CASE ImportNotify
    BY <2>3 DEF ImportNotify, NotifyOne, shared, registry, bounds
  <2>4. CASE LastImportLock
    BY <2>4 DEF LastImportLock, loaderVars, registry, bounds
  <2>5. CASE LastImportSwap
    BY <2>5 DEF LastImportSwap, NoFiles, loaderVars, registry, bounds
  <2>6. ASSUME NEW t \in Types, Descriptor(t) PROVE MutualExclusion'
    BY <2>6 DEF Descriptor, mainVars, loaderVars, shared, registry, bounds
  <2>7. CASE StopSet
    BY <2>7 DEF StopSet, loaderVars, registry, bounds
  <2>8. CASE StopNotify
    BY <2>8 DEF StopNotify, NotifyOne, shared, registry, bounds
  <2>9. CASE Join
    BY <2>9 DEF Join, Halt, MemoryReset, NoFiles
  <2>10. CASE LoaderStep
    <3>1. CASE LoopTest
      BY <3>1 DEF LoopTest, mainVars, shared, registry, bounds
    <3>2. CASE Relock
      BY <3>2 DEF Relock, mainVars, registry, bounds
    <3>3. CASE CheckFalse
      BY <3>3 DEF CheckFalse, mainVars, shared, registry, bounds
    <3>4. CASE CheckTrue
      BY <3>4 DEF CheckTrue, NoFiles, mainVars, registry, bounds
    <3>5. CASE Block
      BY <3>5 DEF Block, mainVars, registry, bounds
    <3>6. ASSUME NEW f \in Files, PickFile(f) PROVE MutualExclusion'
      BY <3>6 DEF PickFile, mainVars, shared, registry, bounds
    <3>7. CASE OpenFile
      BY <3>7 DEF OpenFile, mainVars, shared, bounds
    <3>8. CASE OpenFails
      BY <3>8 DEF OpenFails, mainVars, shared, registry, bounds
    <3>9. CASE WriteFile
      BY <3>9 DEF WriteFile, mainVars, shared, bounds
    <3>10. CASE ImportCached
      BY <3>10 DEF ImportCached, mainVars, shared, bounds
    <3>11. CASE ImportBuilds
      BY <3>11 DEF ImportBuilds, mainVars, shared, bounds
    <3>12. CASE ImportWarns
      BY <3>12 DEF ImportWarns, mainVars, shared, bounds
    <3>13. CASE ImportFails
      BY <3>13 DEF ImportFails, mainVars, shared, registry, bounds
    <3>14. CASE RemoveFile
      BY <3>14 DEF RemoveFile, mainVars, shared, bounds
    <3>15. CASE RecordStatus
      BY <3>15 DEF RecordStatus, mainVars, shared, registry, bounds
    <3>16. CASE BatchDone
      BY <3>16 DEF BatchDone, mainVars, registry, bounds
    <3>17. CASE Publish
      BY <3>17 DEF Publish, NoFiles, mainVars, registry, bounds
    <3> QED
      BY <2>10, <3>1, <3>2, <3>3, <3>4, <3>5, <3>6, <3>7, <3>8, <3>9, <3>10, <3>11, <3>12,
      <3>13, <3>14, <3>15, <3>16, <3>17 DEF LoaderStep
  <2>11. CASE SpuriousWakeup
    BY <2>11 DEF SpuriousWakeup, mainVars, shared, registry, bounds
  <2>12. CASE Crash
    BY <2>12 DEF Crash, Halt, MemoryReset, NoFiles, Up
  <2>13. CASE Restart
    BY <2>13 DEF Restart, MemoryReset, NoFiles, Present, bounds, Up, ThreadsOK
  <2>14. CASE UNCHANGED vars
    BY <2>14 DEF vars, mainVars, loaderVars, shared, registry, bounds
  <2> QED
    BY <2>1, <2>2, <2>3, <2>4, <2>5, <2>6, <2>7, <2>8, <2>9, <2>10, <2>11, <2>12, <2>13,
    <2>14 DEF Next, MainNext
<1> QED
  BY <1>1, <1>2, TypedThreads, PTL DEF Spec

\* _loaded_files says which files are on disk, up to the one being worked on.
THEOREM DiskFollowsLoader == Spec => []DiskIsLoaded
<1>1. Init => DiskIsLoaded
  BY DEF Init, DiskIsLoaded, InWindow, NoFiles
<1>2. TypeOK /\ ThreadsOK /\ DiskIsLoaded /\ [Next]_vars => DiskIsLoaded'
  <2> SUFFICES ASSUME TypeOK, ThreadsOK, DiskIsLoaded, [Next]_vars PROVE DiskIsLoaded'
    OBVIOUS
  <2>a. /\ disk \in [Files -> Contents \cup {None}]
        /\ batch \in [Files -> Contents \cup {None}]
        /\ cur \in Files \cup {None}
    BY DEF TypeOK
  <2>b. /\ cur # None <=> lpc \in Handling
        /\ cur # None => batch[cur] # None
        /\ lpc \in {"open", "write", "import", "remove"} => cur \notin loadedFiles
    BY DEF ThreadsOK
  <2>c. Empty # None
    BY EmptyAssumption, NoneAssumption
  <2> USE DEF DiskIsLoaded, InWindow, Up
  <2>1. ASSUME NEW f \in Files, NEW c \in Contents, ImportLock(f, c) PROVE DiskIsLoaded'
    BY <2>1 DEF ImportLock, loaderVars, registry
  <2>2. CASE ImportPut
    BY <2>2 DEF ImportPut, loaderVars, registry, bounds
  <2>3. CASE ImportNotify
    BY <2>3 DEF ImportNotify, NotifyOne, shared, registry, bounds
  <2>4. CASE LastImportLock
    BY <2>4 DEF LastImportLock, loaderVars, registry, bounds
  <2>5. CASE LastImportSwap
    BY <2>5 DEF LastImportSwap, NoFiles, loaderVars, registry, bounds
  <2>6. ASSUME NEW t \in Types, Descriptor(t) PROVE DiskIsLoaded'
    BY <2>6 DEF Descriptor, mainVars, loaderVars, shared, registry, bounds
  <2>7. CASE StopSet
    BY <2>7 DEF StopSet, loaderVars, registry, bounds
  <2>8. CASE StopNotify
    BY <2>8 DEF StopNotify, NotifyOne, shared, registry, bounds
  <2>9. CASE Join
    BY <2>9 DEF Join, Halt, MemoryReset, NoFiles
  <2>10. CASE LoaderStep
    <3>1. CASE LoopTest
      BY <3>1 DEF LoopTest, mainVars, shared, registry, bounds
    <3>2. CASE Relock
      BY <3>2 DEF Relock, mainVars, registry, bounds
    <3>3. CASE CheckFalse
      BY <3>3 DEF CheckFalse, mainVars, shared, registry, bounds
    <3>4. CASE CheckTrue
      BY <3>4 DEF CheckTrue, NoFiles, mainVars, registry, bounds
    <3>5. CASE Block
      BY <3>5 DEF Block, mainVars, registry, bounds
    <3>6. ASSUME NEW f \in Files, PickFile(f) PROVE DiskIsLoaded'
      BY <3>6, <2>a, <2>b, <2>c DEF PickFile, mainVars, shared, registry, bounds, Handling
    <3>7. CASE OpenFile
      BY <3>7, <2>a, <2>b, <2>c DEF OpenFile, mainVars, shared, bounds, Handling
    <3>8. CASE OpenFails
      BY <3>8, <2>a, <2>b, <2>c DEF OpenFails, mainVars, shared, registry, bounds, Handling
    <3>9. CASE WriteFile
      BY <3>9, <2>a, <2>b, <2>c DEF WriteFile, mainVars, shared, bounds, Handling
    <3>10. CASE ImportCached
      BY <3>10, <2>a, <2>b, <2>c DEF ImportCached, mainVars, shared, bounds, Handling
    <3>11. CASE ImportBuilds
      BY <3>11, <2>a, <2>b, <2>c DEF ImportBuilds, mainVars, shared, bounds, Handling
    <3>12. CASE ImportWarns
      BY <3>12, <2>a, <2>b, <2>c DEF ImportWarns, mainVars, shared, bounds, Handling
    <3>13. CASE ImportFails
      BY <3>13, <2>a, <2>b, <2>c DEF ImportFails, mainVars, shared, registry, bounds, Handling
    <3>14. CASE RemoveFile
      BY <3>14, <2>a, <2>b, <2>c DEF RemoveFile, mainVars, shared, bounds, Handling
    <3>15. CASE RecordStatus
      BY <3>15, <2>a, <2>b, <2>c DEF RecordStatus, mainVars, shared, registry, bounds, Handling
    <3>16. CASE BatchDone
      BY <3>16 DEF BatchDone, mainVars, registry, bounds
    <3>17. CASE Publish
      BY <3>17 DEF Publish, NoFiles, mainVars, registry, bounds
    <3> QED
      BY <2>10, <3>1, <3>2, <3>3, <3>4, <3>5, <3>6, <3>7, <3>8, <3>9, <3>10, <3>11, <3>12,
      <3>13, <3>14, <3>15, <3>16, <3>17 DEF LoaderStep
  <2>11. CASE SpuriousWakeup
    BY <2>11 DEF SpuriousWakeup, mainVars, shared, registry, bounds
  <2>12. CASE Crash
    BY <2>12 DEF Crash, Halt, MemoryReset, NoFiles
  <2>13. CASE Restart
    <3>1. CASE Loadable(disk)
      <4>1. lpc' = "top" /\ disk' = disk /\ loadedFiles' = Present(disk)
        BY <2>13, <3>1 DEF Restart, bounds
      <4> QED BY <4>1 DEF Present
    <3>2. CASE ~Loadable(disk)
      BY <2>13, <3>2 DEF Restart
    <3> QED BY <3>1, <3>2
  <2>14. CASE UNCHANGED vars
    BY <2>14 DEF vars, mainVars, loaderVars, shared, registry, bounds
  <2> QED
    BY <2>1, <2>2, <2>3, <2>4, <2>5, <2>6, <2>7, <2>8, <2>9, <2>10, <2>11, <2>12, <2>13,
    <2>14 DEF Next, MainNext
<1> QED
  BY <1>1, <1>2, TypedThreads, PTL DEF Spec

(***************************************************************************)
(* The directory a server leaves behind.  The invariant: up to the files   *)
(* that drew a warning, which the pool keeps and the disk loses, the pool  *)
(* holds exactly the loaded files, as they are on disk; and as long as     *)
(* there are none of those, what the pool holds could be loaded from       *)
(* scratch.                                                                *)
(***************************************************************************)
PoolIsLoaded ==
    Up => \A f \in Files :
        pool[f] = (IF f \in loadedFiles THEN disk[f] ELSE None) \/ Warned(f)

NoneWarned == \A f \in Files : ~Warned(f)

PoolLoadable == Up /\ NoneWarned => Loadable(pool)

DirectoryInv == PoolIsLoaded /\ PoolLoadable

\* What an orderly end leaves behind, when the compiler never warns.
DownLoadable == /\ mpc = "down" /\ crashes = 0 => Loadable(disk)
                /\ mpc = "failed" => crashes > 0

\* With no file half done and no warning, the disk and the pool hold the same files.
LEMMA DiskIsPool ==
  ASSUME TypeOK, DiskIsLoaded, PoolIsLoaded, Up, NoneWarned, \A f \in Files : ~InWindow(f)
  PROVE  disk = pool
<1>1. disk \in [Files -> Contents \cup {None}] /\ pool \in [Files -> Contents \cup {None}]
  BY DEF TypeOK
<1>2. \A f \in Files : disk[f] = pool[f]
  BY DEF DiskIsLoaded, PoolIsLoaded, NoneWarned
<1> QED
  BY <1>1, <1>2

\* Adding a file whose imports resolve and whose types are new keeps a pool loadable.
LEMMA BuildKeepsLoadable ==
  ASSUME NEW f \in Files, NEW c \in Contents,
         pool \in [Files -> Contents \cup {None}], pool[f] = None,
         Loadable(pool), Builds(c), Kind[c] = "good"
  PROVE  Loadable([pool EXCEPT ![f] = c])
<1> DEFINE new == [pool EXCEPT ![f] = c]
<1>1. new \in [Files -> Contents \cup {None}] /\ new[f] = c
  OBVIOUS
<1>2. c # None
  BY NoneAssumption
<1>3. Present(new) = Present(pool) \cup {f} /\ f \notin Present(pool)
  BY <1>1, <1>2 DEF Present
<1>4. \A g \in Present(pool) : g \in Files /\ g # f /\ new[g] = pool[g]
  BY <1>3 DEF Present
<1> HIDE DEF new
<1>5. ASSUME NEW g \in Present(new)
      PROVE  Kind[new[g]] = "good" /\ Deps[new[g]] \subseteq Present(new) \ {g}
  <2>1. CASE g = f
    BY <2>1, <1>1, <1>3 DEF Builds, BuildsOn
  <2>2. CASE g # f
    <3>1. g \in Present(pool) /\ new[g] = pool[g]
      BY <2>2, <1>3, <1>4
    <3>2. Kind[pool[g]] = "good" /\ Deps[pool[g]] \subseteq Present(pool) \ {g}
      BY <3>1 DEF Loadable
    <3> QED BY <3>1, <3>2, <1>3
  <2> QED BY <2>1, <2>2
<1>6. \A g \in Present(pool) : Defines[c] \cap Defines[pool[g]] = {}
  BY DEF Builds, BuildsOn, TypesIn
<1>7. ASSUME NEW g \in Present(new), NEW h \in Present(new), g # h
      PROVE  Defines[new[g]] \cap Defines[new[h]] = {}
  <2>1. CASE g = f
    BY <2>1, <1>1, <1>3, <1>4, <1>6, <1>7
  <2>2. CASE h = f
    BY <2>2, <1>1, <1>3, <1>4, <1>6, <1>7
  <2>3. CASE g # f /\ h # f
    BY <2>3, <1>3, <1>4, <1>7 DEF Loadable
  <2> QED BY <2>1, <2>2, <2>3
<1> QED
  BY <1>5, <1>7 DEF Loadable, new

LEMMA DirectoryKept == Spec => []DirectoryInv
<1>1. Init => DirectoryInv
  <2> SUFFICES ASSUME Init PROVE DirectoryInv
    OBVIOUS
  <2>1. Present(NoFiles) = {}
    BY DEF Present, NoFiles
  <2>2. Loadable(NoFiles)
    BY <2>1 DEF Loadable
  <2> QED
    BY <2>2 DEF Init, DirectoryInv, PoolIsLoaded, PoolLoadable, NoFiles
<1>2. TypeOK /\ ThreadsOK /\ DiskIsLoaded /\ DirectoryInv /\ [Next]_vars => DirectoryInv'
  <2> SUFFICES ASSUME TypeOK, ThreadsOK, DiskIsLoaded, DirectoryInv, [Next]_vars
               PROVE  DirectoryInv'
    OBVIOUS
  <2>a. /\ disk \in [Files -> Contents \cup {None}]
        /\ pool \in [Files -> Contents \cup {None}]
        /\ cur \in Files \cup {None}
    BY DEF TypeOK
  <2>b. lpc # "exited" => Up
    BY DEF ThreadsOK
  <2>c. lpc \in {"open", "write", "import", "remove"} => cur \in Files /\ cur \notin loadedFiles
    BY <2>a DEF ThreadsOK, Handling
  <2>d. lpc = "import" => disk[cur] \in Contents
    BY <2>a, <2>b, <2>c DEF DiskIsLoaded, InWindow
  <2>e. lpc = "import" => pool[cur] = None \/ Warned(cur)
    BY <2>b, <2>c DEF DirectoryInv, PoolIsLoaded
  \* Writing or removing the file being worked on, which is not a loaded one.
  <2>disk. ASSUME Up, Up', UNCHANGED <<pool, loadedFiles>>,
                  \A f \in loadedFiles : disk'[f] = disk[f]
           PROVE  DirectoryInv'
    <3>1. UNCHANGED Loadable(pool) /\ UNCHANGED NoneWarned
      BY <2>disk DEF Loadable, Present, NoneWarned, Warned
    <3>2. PoolIsLoaded'
      BY <2>disk DEF DirectoryInv, PoolIsLoaded, Warned
    <3> QED
      BY <2>disk, <3>1, <3>2 DEF DirectoryInv, PoolLoadable, Up
  <2>gone. ASSUME ~Up' PROVE DirectoryInv'
    BY <2>gone DEF DirectoryInv, PoolIsLoaded, PoolLoadable
  <2>1. CASE MainNext
    <3>1. CASE Join
      BY <3>1, <2>gone DEF Join, Halt, Up
    <3>2. CASE ~Join
      <4>1. Up /\ Up' /\ UNCHANGED <<pool, disk, loadedFiles>>
        BY <2>1, <3>2 DEF MainNext, ImportLock, ImportPut, ImportNotify, LastImportLock,
           LastImportSwap, Descriptor, StopSet, StopNotify, registry, mainVars, Up
      <4> QED BY <4>1, <2>disk
    <3> QED BY <3>1, <3>2
  <2>2. CASE OpenFile \/ WriteFile \/ RemoveFile
    <3>1. Up /\ Up' /\ UNCHANGED <<pool, loadedFiles>>
      BY <2>2, <2>b DEF OpenFile, WriteFile, RemoveFile, mainVars, Up
    <3>2. \A f \in loadedFiles : disk'[f] = disk[f]
      BY <2>2, <2>a, <2>c DEF OpenFile, WriteFile, RemoveFile, TypeOK
    <3> QED BY <3>1, <3>2, <2>disk
  \* The pool keeps a file that drew a warning, so importing it again changes no file of
  \* the pool.
  <2>3. CASE ImportCached
    <3>1. /\ Up /\ Up' /\ UNCHANGED <<pool, disk>>
          /\ loadedFiles' = loadedFiles \cup {cur}
          /\ Warned(cur)
      BY <2>3, <2>b, <2>e DEF ImportCached, mainVars, Up
    <3>2. Warned(cur)' /\ cur' \in Files
      BY <3>1, <2>c, <2>3 DEF Warned, ImportCached
    <3>3. PoolIsLoaded'
      BY <3>1 DEF DirectoryInv, PoolIsLoaded, Warned
    <3> QED
      BY <3>2, <3>3 DEF DirectoryInv, PoolLoadable, NoneWarned
  <2>4. CASE ImportWarns
    <3>1. /\ Up /\ Up' /\ UNCHANGED <<disk, loadedFiles, cur>>
          /\ cur \in Files
          /\ pool' = [pool EXCEPT ![cur] = disk[cur]]
          /\ Kind[disk[cur]] = "warn" /\ disk[cur] # None
      BY <2>4, <2>b, <2>c, <2>d, NoneAssumption DEF ImportWarns, mainVars, Up
    <3>2. Warned(cur)'
      BY <3>1, <2>a DEF Warned
    <3>3. PoolIsLoaded'
      BY <3>1, <3>2, <2>a DEF DirectoryInv, PoolIsLoaded, Warned
    <3> QED
      BY <3>1, <3>2, <3>3 DEF DirectoryInv, PoolLoadable, NoneWarned
  <2>5. CASE ImportBuilds
    <3>1. /\ Up /\ Up' /\ disk' = disk
          /\ lpc = "import"
          /\ pool[cur] = None
          /\ pool' = [pool EXCEPT ![cur] = disk[cur]]
          /\ loadedFiles' = loadedFiles \cup {cur}
          /\ Builds(disk[cur]) /\ Kind[disk[cur]] = "good"
      BY <2>5, <2>b DEF ImportBuilds, mainVars, Up
    <3>2. NoneWarned' => NoneWarned
      <4>1. \A f \in Files : f # cur => (Warned(f) <=> Warned(f)')
        BY <3>1, <2>a DEF Warned
      <4>2. ~Warned(cur)
        BY <3>1 DEF Warned
      <4> QED BY <4>1, <4>2 DEF NoneWarned
    <3>3. ASSUME NoneWarned' PROVE Loadable(pool)'
      <4>1. Loadable(pool)
        BY <3>1, <3>2, <3>3 DEF DirectoryInv, PoolLoadable
      <4>2. Loadable(pool')
        BY <3>1, <4>1, <2>a, <2>c, <2>d, BuildKeepsLoadable
      <4> QED BY <4>2 DEF Loadable, Present
    <3>4. PoolIsLoaded'
      BY <3>1, <2>a, <2>c DEF DirectoryInv, PoolIsLoaded, Warned
    <3> QED
      BY <3>3, <3>4 DEF DirectoryInv, PoolLoadable
  <2>6. CASE \/ LoopTest \/ Relock \/ CheckFalse \/ CheckTrue \/ Block
             \/ (\E f \in Files : PickFile(f)) \/ OpenFails \/ ImportFails
             \/ RecordStatus \/ BatchDone \/ Publish \/ SpuriousWakeup
    <3>1. Up /\ Up' /\ UNCHANGED <<pool, disk, loadedFiles>>
      BY <2>6, <2>b DEF LoopTest, Relock, CheckFalse, CheckTrue, Block, PickFile, OpenFails,
         ImportFails, RecordStatus, BatchDone, Publish, SpuriousWakeup, registry, mainVars, Up
    <3> QED BY <3>1, <2>disk
  <2>7. CASE Crash
    BY <2>7, <2>gone DEF Crash, Halt, Up
  <2>8. CASE Restart
    <3>1. CASE Loadable(disk)
      <4>1. /\ mpc' = "idle" /\ disk' = disk
            /\ pool' = disk /\ loadedFiles' = Present(disk)
        BY <2>8, <3>1 DEF Restart
      <4>2. Loadable(pool)'
        BY <3>1, <4>1 DEF Loadable, Present
      <4>3. PoolIsLoaded'
        BY <4>1 DEF PoolIsLoaded, Present
      <4> QED
        BY <4>1, <4>2, <4>3 DEF DirectoryInv, PoolLoadable
    <3>2. CASE ~Loadable(disk)
      BY <2>8, <3>2, <2>gone DEF Restart, Up
    <3> QED BY <3>1, <3>2
  <2>9. CASE UNCHANGED vars
    <3>1. UNCHANGED <<mpc, pool, disk, loadedFiles>>
      BY <2>9 DEF vars, mainVars, registry
    <3> QED
      BY <3>1 DEF DirectoryInv, PoolIsLoaded, PoolLoadable, NoneWarned, Warned, Up,
         Loadable, Present
  <2> QED
    BY <2>1, <2>2, <2>3, <2>4, <2>5, <2>6, <2>7, <2>8, <2>9 DEF Next, LoaderStep
<1> QED
  BY <1>1, <1>2, TypedThreads, DiskFollowsLoader, PTL DEF Spec

\* The types served for an imported file are those of the file on disk, but for a file an
\* earlier import left in the pool with a warning.
THEOREM PoolFollowsDisk == Spec => []PoolMatchesDisk
<1>1. TypeOK /\ DirectoryInv => PoolMatchesDisk
  BY DEF TypeOK, DirectoryInv, PoolIsLoaded, PoolMatchesDisk
<1> QED
  BY <1>1, DirectoryKept, TypedThreads, PTL

\* Between two files of a batch, and whenever the loader rests, a server that goes down
\* comes up again, unless an import drew a warning.
LEMMA RestartableStep ==
  ASSUME TypeOK, DiskIsLoaded, DirectoryInv
  PROVE  Restartable
<1> SUFFICES ASSUME Up, \A f \in Files : ~InWindow(f) /\ ~Warned(f)
             PROVE  Loadable(disk)
  BY DEF Restartable
<1>1. NoneWarned
  BY DEF NoneWarned
<1>2. disk = pool
  BY <1>1, DiskIsPool DEF DirectoryInv
<1> QED BY <1>1, <1>2 DEF DirectoryInv, PoolLoadable

THEOREM RestartsBetweenFiles == Spec => []Restartable
  BY RestartableStep, DirectoryKept, TypedThreads, DiskFollowsLoader, PTL

\* If the compiler never warns, orderly restarts never end with the module refused.
THEOREM OrderlyRestartsLoad ==
  ASSUME NoWarnings
  PROVE  Spec => []RefusedOnlyAfterCrash
<1>1. Init => DownLoadable
  BY DEF Init, DownLoadable
<1>2. TypeOK /\ ThreadsOK /\ DiskIsLoaded /\ DirectoryInv /\ DownLoadable /\ [Next]_vars
        => DownLoadable'
  <2> SUFFICES ASSUME TypeOK, ThreadsOK, DiskIsLoaded, DirectoryInv, DownLoadable, [Next]_vars
               PROVE  DownLoadable'
    OBVIOUS
  <2>a. crashes \in 0..MaxCrashes /\ pool \in [Files -> Contents \cup {None}]
    BY DEF TypeOK
  <2>b. lpc # "exited" => Up
    BY DEF ThreadsOK
  <2>c. NoneWarned
    BY <2>a DEF NoneWarned, Warned, NoWarnings
  <2>up. ASSUME Up' PROVE DownLoadable'
    BY <2>up DEF Up, DownLoadable
  <2>1. CASE Join
    <3>1. Up /\ \A f \in Files : ~InWindow(f)
      BY <2>1, <2>b DEF Join, InWindow, Up
    <3>2. Loadable(disk)
      BY <3>1, <2>c, RestartableStep DEF Restartable, NoneWarned
    <3>3. disk' = disk /\ mpc' = "down"
      BY <2>1 DEF Join, Halt
    <3> QED
      BY <3>2, <3>3 DEF DownLoadable, Loadable, Present
  <2>2. CASE Crash
    <3>1. mpc' = "down" /\ crashes' = crashes + 1
      BY <2>2 DEF Crash, Halt
    <3>2. crashes' # 0
      BY <3>1, <2>a, BoundsAssumption
    <3> QED BY <3>1, <3>2 DEF DownLoadable
  <2>3. CASE Restart
    <3>1. CASE Loadable(disk)
      BY <2>3, <3>1, <2>up DEF Restart, Up
    <3>2. CASE ~Loadable(disk)
      <4>1. mpc' = "failed" /\ ~Up /\ UNCHANGED crashes
        BY <2>3, <3>2 DEF Restart, bounds
      <4>2. crashes > 0
        BY <4>1, <3>2, <2>a, BoundsAssumption DEF Up, DownLoadable
      <4> QED BY <4>1, <4>2 DEF DownLoadable
    <3> QED BY <3>1, <3>2
  <2>4. CASE MainNext /\ ~Join
    <3>1. Up'
      BY <2>4 DEF MainNext, ImportLock, ImportPut, ImportNotify, LastImportLock,
         LastImportSwap, Descriptor, StopSet, StopNotify, mainVars, Up
    <3> QED BY <3>1, <2>up
  <2>5. CASE LoaderStep \/ SpuriousWakeup
    <3>1. lpc # "exited" /\ UNCHANGED mpc
      BY <2>5 DEF LoaderStep, LoopTest, Relock, CheckFalse, CheckTrue, Block, PickFile,
         OpenFile, OpenFails, WriteFile, ImportCached, ImportBuilds, ImportWarns, ImportFails,
         RemoveFile, RecordStatus, BatchDone, Publish, SpuriousWakeup, mainVars
    <3> QED BY <3>1, <2>b, <2>up DEF Up
  <2>6. CASE UNCHANGED vars
    BY <2>6 DEF vars, mainVars, registry, bounds, DownLoadable, Loadable, Present
  <2> QED
    BY <2>1, <2>2, <2>3, <2>4, <2>5, <2>6 DEF Next
<1>3. DownLoadable => RefusedOnlyAfterCrash
  BY DEF DownLoadable, RefusedOnlyAfterCrash
<1> QED
  BY <1>1, <1>2, <1>3, DirectoryKept, TypedThreads, DiskFollowsLoader, PTL DEF Spec

\* Every accepted import stays accounted for until its result is fetched.
THEOREM ImportsAccounted == Spec => NoneForgotten
<1> DEFINE Step == \A f \in Files : Owed(f) /\ ~Owed(f)' => mpc = "swap" \/ ~Up'
<1>1. TypeOK /\ ThreadsOK /\ TypeOK' /\ [Next]_vars => [Step]_vars
  <2> SUFFICES ASSUME TypeOK, ThreadsOK, Next,
                      NEW f \in Files, Owed(f), ~Owed(f)', mpc # "swap", Up'
               PROVE  FALSE
    OBVIOUS
  <2> USE NoneAssumption DEF Owed
  <2>a. /\ tasks \in [Files -> Contents \cup {None}]
        /\ batch \in [Files -> Contents \cup {None}]
        /\ status \in [Files -> Statuses \cup {None}]
        /\ lastLoaded \in [Files -> Statuses \cup {None}]
        /\ cur \in Files \cup {None}
    BY DEF TypeOK
  <2>b. /\ lpc = "check" => batch[f] = None
        /\ lpc = "record" => outcome # None
        /\ lpc \in {"open", "write", "import", "remove", "record"} <=> cur # None
    BY DEF ThreadsOK, Handling, Present
  <2>1. CASE ImportPut
    <3>1. tasks' = [tasks EXCEPT ![arg[1]] = arg[2]] /\ UNCHANGED <<batch, status, lastLoaded>>
      BY <2>1 DEF ImportPut, loaderVars
    <3>2. arg[2] # None
      BY <2>1 DEF ImportPut, ThreadsOK, TypeOK
    <3> QED BY <3>1, <3>2, <2>a
  <2>2. CASE CheckTrue
    BY <2>2, <2>b DEF CheckTrue
  <2>3. CASE RecordStatus
    BY <2>3, <2>a, <2>b DEF RecordStatus, shared
  <2>4. CASE Publish
    BY <2>4, <2>a DEF Publish, NoFiles
  <2>5. CASE Crash \/ Join
    BY <2>5 DEF Crash, Join, Halt, Up
  <2>6. CASE Restart
    <3>1. tasks = NoFiles /\ lastLoaded = NoFiles /\ batch[f] = None /\ status[f] = None
      BY <2>6 DEF Restart, ThreadsOK, Handling, Present, Up
    <3> QED BY <3>1 DEF NoFiles
  <2>7. CASE LastImportSwap
    BY <2>7 DEF LastImportSwap
  <2>8. CASE \/ (\E g \in Files, c \in Contents : ImportLock(g, c)) \/ ImportNotify
             \/ LastImportLock \/ (\E t \in Types : Descriptor(t)) \/ StopSet \/ StopNotify
    BY <2>8 DEF ImportLock, ImportNotify, LastImportLock, Descriptor, StopSet, StopNotify,
       loaderVars, shared
  <2>9. CASE \/ LoopTest \/ Relock \/ CheckFalse \/ Block \/ (\E g \in Files : PickFile(g))
             \/ OpenFile \/ OpenFails \/ WriteFile \/ ImportCached \/ ImportBuilds
             \/ ImportWarns \/ ImportFails \/ RemoveFile \/ BatchDone \/ SpuriousWakeup
    BY <2>9 DEF LoopTest, Relock, CheckFalse, Block, PickFile, OpenFile, OpenFails, WriteFile,
       ImportCached, ImportBuilds, ImportWarns, ImportFails, RemoveFile, BatchDone,
       SpuriousWakeup, shared
  <2> QED
    BY <2>1, <2>2, <2>3, <2>4, <2>5, <2>6, <2>7, <2>8, <2>9 DEF Next, MainNext, LoaderStep
<1> QED
  BY <1>1, TypedThreads, PTL DEF Spec, NoneForgotten

-----------------------------------------------------------------------------
(***************************************************************************)
(* The invariant: the loader has written the content of the command before *)
(* it imports the file, and the outcome it carries to its record is the    *)
(* one _loaded_files shows.                                                *)
(***************************************************************************)
OutcomeInv ==
    /\ lpc = "import" => disk[cur] = batch[cur]
    /\ lpc = "remove" => outcome = "ERR load"
    /\ lpc = "record" => /\ cur \in loadedFiles <=> outcome \in {"OK", "ERR already"}
                         /\ outcome = "OK" => disk[cur] = batch[cur]

\* Without warnings the pool holds exactly what DirectoryInv says.
LEMMA PoolExact ==
  ASSUME NoWarnings, TypeOK, DirectoryInv, Up
  PROVE  \A f \in Files : pool[f] = IF f \in loadedFiles THEN disk[f] ELSE None
<1>1. \A f \in Files : ~Warned(f)
  BY DEF TypeOK, Warned, NoWarnings
<1> QED
  BY <1>1 DEF DirectoryInv, PoolIsLoaded

LEMMA OutcomeKept ==
  ASSUME NoWarnings, ~DiskFaults
  PROVE  Spec => []OutcomeInv
<1>1. Init => OutcomeInv
  BY DEF Init, OutcomeInv
<1>2. TypeOK /\ ThreadsOK /\ DirectoryInv /\ OutcomeInv /\ [Next]_vars => OutcomeInv'
  <2> SUFFICES ASSUME TypeOK, ThreadsOK, DirectoryInv, OutcomeInv, [Next]_vars
               PROVE  OutcomeInv'
    OBVIOUS
  <2>a. /\ disk \in [Files -> Contents \cup {None}]
        /\ batch \in [Files -> Contents \cup {None}]
        /\ cur \in Files \cup {None}
    BY DEF TypeOK
  <2>b. lpc # "exited" => Up
    BY DEF ThreadsOK
  <2>c. lpc \in {"open", "write", "import", "remove"} => cur \in Files /\ cur \notin loadedFiles
    BY <2>a DEF ThreadsOK, Handling
  <2>d. lpc = "import" => pool[cur] = None
    BY <2>b, <2>c, PoolExact
  \* Steps that leave the loader where none of this is said, or say nothing new.
  <2>away. ASSUME lpc' \notin {"import", "remove", "record"} PROVE OutcomeInv'
    BY <2>away DEF OutcomeInv
  <2>same. ASSUME UNCHANGED <<lpc, cur, batch, outcome, disk, loadedFiles>> PROVE OutcomeInv'
    BY <2>same DEF OutcomeInv
  <2>1. CASE Crash \/ Join \/ Restart
    <3>1. lpc' \in {"exited", "top"}
      BY <2>1 DEF Crash, Join, Halt, Restart, ThreadsOK
    <3> QED BY <3>1, <2>away
  <2>2. CASE ImportNotify \/ StopNotify
    <3>1. lpc' = "relock" \/ UNCHANGED <<lpc, cur, batch, outcome, disk, loadedFiles>>
      BY <2>2 DEF ImportNotify, StopNotify, NotifyOne, registry
    <3> QED BY <3>1, <2>away, <2>same
  <2>3. CASE MainNext /\ ~(ImportNotify \/ StopNotify \/ Join)
    BY <2>3, <2>same DEF MainNext, ImportLock, ImportPut, LastImportLock, LastImportSwap,
       Descriptor, StopSet, loaderVars, registry
  <2>4. CASE \/ LoopTest \/ Relock \/ CheckFalse \/ CheckTrue \/ Block \/ OpenFile
             \/ RecordStatus \/ BatchDone \/ Publish \/ SpuriousWakeup
    <3>1. lpc' \notin {"import", "remove", "record"}
      BY <2>4 DEF LoopTest, Relock, CheckFalse, CheckTrue, Block, OpenFile, RecordStatus,
         BatchDone, Publish, SpuriousWakeup
    <3> QED BY <3>1, <2>away
  <2>5. ASSUME NEW f \in Files, PickFile(f) PROVE OutcomeInv'
    BY <2>5 DEF PickFile, registry, OutcomeInv
  <2>6. CASE OpenFails
    BY <2>6 DEF OpenFails
  <2>7. CASE WriteFile
    BY <2>7, <2>a, <2>c DEF WriteFile, OutcomeInv
  <2>8. CASE ImportCached \/ ImportWarns
    <3>1. disk[cur] # None => Kind[disk[cur]] # "warn"
      BY <2>8, <2>a, <2>c DEF NoWarnings, ImportCached, ImportWarns
    <3>2. lpc = "import" => disk[cur] \in Contents
      <4>1. lpc = "import" => batch[cur] # None
        BY <2>c, NoneAssumption DEF ThreadsOK
      <4> QED BY <4>1, <2>a, <2>c DEF OutcomeInv
    <3> QED BY <2>8, <2>d, <3>1, <3>2, NoneAssumption DEF ImportCached, ImportWarns
  <2>9. CASE ImportBuilds
    BY <2>9, <2>c DEF ImportBuilds, OutcomeInv
  <2>10. CASE ImportFails
    BY <2>10, <2>c DEF ImportFails, registry, OutcomeInv
  <2>11. CASE RemoveFile
    BY <2>11, <2>c DEF RemoveFile, OutcomeInv
  <2>12. CASE UNCHANGED vars
    BY <2>12, <2>same DEF vars, loaderVars, registry
  <2> QED
    BY <2>1, <2>2, <2>3, <2>4, <2>5, <2>6, <2>7, <2>8, <2>9, <2>10, <2>11, <2>12
       DEF Next, LoaderStep
<1> QED
  BY <1>1, <1>2, TypedThreads, DirectoryKept, PTL DEF Spec

\* The result OK means that the pool and the disk hold the content of the command.
THEOREM OkIsTrue ==
  ASSUME NoWarnings, ~DiskFaults
  PROVE  Spec => []OkMeansImported
<1>1. TypeOK /\ ThreadsOK /\ DirectoryInv /\ OutcomeInv => OkMeansImported
  <2> SUFFICES ASSUME TypeOK, ThreadsOK, DirectoryInv, OutcomeInv,
                      lpc = "record", outcome = "OK"
               PROVE  pool[cur] = batch[cur] /\ disk[cur] = batch[cur]
    BY DEF OkMeansImported
  <2>1. Up /\ cur \in Files
    BY DEF ThreadsOK, TypeOK, Handling
  <2>2. cur \in loadedFiles /\ disk[cur] = batch[cur]
    BY DEF OutcomeInv
  <2> QED BY <2>1, <2>2, PoolExact
<1> QED
  BY <1>1, TypedThreads, DirectoryKept, OutcomeKept, PTL

\* An error means that neither holds the file, unless an earlier import put it in both.
THEOREM ErrorIsTrue ==
  ASSUME NoWarnings, ~DiskFaults
  PROVE  Spec => []ErrorLeavesNothing
<1>1. TypeOK /\ ThreadsOK /\ DiskIsLoaded /\ DirectoryInv /\ OutcomeInv => ErrorLeavesNothing
  <2> SUFFICES ASSUME TypeOK, ThreadsOK, DiskIsLoaded, DirectoryInv, OutcomeInv,
                      lpc = "record", outcome # "OK"
               PROVE  /\ disk[cur] = pool[cur]
                      /\ disk[cur] # None <=> outcome = "ERR already"
    BY DEF ErrorLeavesNothing
  <2>1. Up /\ cur \in Files
    BY DEF ThreadsOK, TypeOK, Handling
  <2>2. disk[cur] # None <=> cur \in loadedFiles
    BY <2>1 DEF DiskIsLoaded, InWindow
  <2>3. cur \in loadedFiles <=> outcome = "ERR already"
    BY DEF OutcomeInv
  <2> QED BY <2>1, <2>2, <2>3, PoolExact
<1> QED
  BY <1>1, TypedThreads, DiskFollowsLoader, DirectoryKept, OutcomeKept, PTL

(***************************************************************************)
(* The refinement.  The service takes a step where the loader or the main  *)
(* thread passes its point of no return, and stutters at all other steps.  *)
(***************************************************************************)
serviceVars == <<tasks, batch, status, lastLoaded, ImportedFiles, Up>>

LEMMA ServiceInit == Init => Service!SInit
<1> SUFFICES ASSUME Init PROVE Service!SInit
  OBVIOUS
<1>1. Up /\ ImportedFiles = NoFiles
  BY DEF Init, Up, ImportedFiles, NoFiles
<1> QED
  BY <1>1 DEF Init, Service!SInit, Service!Nothing, NoFiles

\* The file being worked on is the only one that is on disk and not imported.
LEMMA DiskBeyondImported ==
  ASSUME NoWarnings, TypeOK, ThreadsOK, DiskIsLoaded, DirectoryInv, Up
  PROVE  /\ ImportedFiles \in [Files -> Contents \cup {None}]
         /\ \A f \in Files : ~InWindow(f) => disk[f] = ImportedFiles[f]
         /\ \A f \in Files : InWindow(f) => /\ ImportedFiles[f] = None
                                           /\ batch[f] # None
                                           /\ disk[f] \in Contents
<1>1. /\ disk \in [Files -> Contents \cup {None}]
      /\ pool \in [Files -> Contents \cup {None}]
  BY DEF TypeOK
<1>2. ImportedFiles = [f \in Files |-> IF f \in loadedFiles THEN pool[f] ELSE None]
  BY DEF ImportedFiles
<1>3. \A f \in Files : ~InWindow(f) => disk[f] = ImportedFiles[f]
  BY <1>2, PoolExact DEF DiskIsLoaded
<1>4. ASSUME NEW f \in Files, InWindow(f)
      PROVE  ImportedFiles[f] = None /\ batch[f] # None /\ disk[f] \in Contents
  <2>1. f \notin loadedFiles /\ batch[f] # None
    BY <1>4, NoneAssumption DEF InWindow, ThreadsOK
  <2> QED BY <2>1, <1>1, <1>2, <1>4 DEF DiskIsLoaded
<1> QED
  BY <1>1, <1>2, <1>3, <1>4

\* When the process ends, what the service has imported stays, but for the file worked on.
LEMMA HaltGoesDown ==
  ASSUME NoWarnings, TypeOK, ThreadsOK, DiskIsLoaded, DirectoryInv, Up, Halt
  PROVE  Service!GoDown
<1>1. /\ ~Up'
      /\ tasks' = NoFiles /\ batch' = NoFiles /\ status' = NoFiles /\ lastLoaded' = NoFiles
      /\ disk' = disk
  BY DEF Halt, MemoryReset, Up
<1>2. ImportedFiles' = disk
  BY <1>1 DEF ImportedFiles
<1>3. disk \in [Files -> Contents \cup {None}]
  BY DEF TypeOK
<1>4. \/ UNCHANGED ImportedFiles
      \/ \E f \in Files, c \in Contents :
            /\ batch[f] # None
            /\ ImportedFiles[f] = None
            /\ ImportedFiles' = [ImportedFiles EXCEPT ![f] = c]
  <2>1. CASE \A f \in Files : ~InWindow(f)
    BY <2>1, <1>2, <1>3, DiskBeyondImported
  <2>2. CASE \E f \in Files : InWindow(f)
    <3>1. PICK f \in Files : InWindow(f)
      BY <2>2
    <3>2. \A g \in Files : g # f => ~InWindow(g)
      BY <3>1 DEF InWindow
    <3>3. disk = [ImportedFiles EXCEPT ![f] = disk[f]]
      BY <3>2, <1>3, DiskBeyondImported
    <3> QED BY <3>1, <3>3, <1>2, DiskBeyondImported
  <2> QED BY <2>1, <2>2
<1> QED
  BY <1>1, <1>4 DEF Service!GoDown, Service!Nothing, NoFiles

LEMMA ServiceStep ==
  ASSUME NoWarnings, TypeOK, ThreadsOK, DiskIsLoaded, DirectoryInv, OutcomeInv, Next
  PROVE  Service!SNext \/ UNCHANGED serviceVars
<1>a. /\ disk \in [Files -> Contents \cup {None}]
      /\ pool \in [Files -> Contents \cup {None}]
      /\ batch \in [Files -> Contents \cup {None}]
      /\ cur \in Files \cup {None}
  BY DEF TypeOK
<1>b. lpc # "exited" => Up
  BY DEF ThreadsOK
<1>c. /\ lpc \in {"open", "write", "import", "remove"} => cur \in Files /\ cur \notin loadedFiles
      /\ lpc = "record" => cur \in Files
      /\ lpc \in Handling => batch[cur] # None
  BY <1>a, NoneAssumption DEF ThreadsOK, Handling
<1>d. lpc = "import" => pool[cur] = None
  BY <1>b, <1>c, PoolExact
\* While the process runs, what is imported depends on the pool and _loaded_files only.
<1>kept. ASSUME Up, Up', UNCHANGED <<pool, loadedFiles>>
         PROVE  UNCHANGED <<ImportedFiles, Up>>
  BY <1>kept DEF ImportedFiles
<1>quiet. ASSUME Up, Up', UNCHANGED <<pool, loadedFiles, tasks, batch, status, lastLoaded>>
          PROVE  UNCHANGED serviceVars
  BY <1>quiet, <1>kept DEF serviceVars
<1>1. CASE ImportPut
  <2>1. Up /\ Up' /\ UNCHANGED <<pool, loadedFiles, batch, status, lastLoaded>>
    BY <1>1 DEF ImportPut, loaderVars, registry, Up
  <2>2. arg \in Files \X Contents /\ tasks' = [tasks EXCEPT ![arg[1]] = arg[2]]
    BY <1>1 DEF ImportPut, TypeOK, ThreadsOK
  <2>3. Service!Accept(arg[1], arg[2])
    BY <2>1, <2>2, <1>kept DEF Service!Accept
  <2> QED BY <2>2, <2>3 DEF Service!SNext
<1>2. CASE LastImportSwap
  <2>1. Up /\ Up' /\ UNCHANGED <<pool, loadedFiles, tasks, batch, status>>
    BY <1>2 DEF LastImportSwap, loaderVars, registry, Up
  <2>2. Service!Fetch
    BY <1>2, <2>1, <1>kept DEF LastImportSwap, Service!Fetch, Service!Nothing, NoFiles
  <2> QED BY <2>2 DEF Service!SNext
<1>3. CASE CheckTrue
  <2>1. Up /\ Up' /\ UNCHANGED <<pool, loadedFiles, status, lastLoaded>>
    BY <1>3, <1>b DEF CheckTrue, mainVars, registry, Up
  <2>2. Present(batch) = {} /\ Present(status) = {}
    BY <1>3 DEF CheckTrue, ThreadsOK, Handling
  <2>3. Service!Take
    BY <1>3, <2>1, <2>2, <1>kept
       DEF CheckTrue, Service!Take, Service!Some, Service!Nothing, Present, NoFiles
  <2> QED BY <2>3 DEF Service!SNext
<1>4. CASE ImportBuilds
  <2>1. /\ Up /\ Up' /\ cur \in Files /\ cur \notin loadedFiles
        /\ pool' = [pool EXCEPT ![cur] = disk[cur]]
        /\ loadedFiles' = loadedFiles \cup {cur}
        /\ disk[cur] = batch[cur] /\ batch[cur] # None
        /\ UNCHANGED <<tasks, batch, status, lastLoaded>>
    BY <1>4, <1>b, <1>c DEF ImportBuilds, mainVars, shared, Up, OutcomeInv, Handling
  <2>2. /\ ImportedFiles = [f \in Files |-> IF f \in loadedFiles THEN pool[f] ELSE None]
        /\ ImportedFiles' = [f \in Files |-> IF f \in loadedFiles' THEN pool'[f] ELSE None]
    BY <2>1 DEF ImportedFiles
  <2>3. ImportedFiles[cur] = None /\ ImportedFiles' = [ImportedFiles EXCEPT ![cur] = batch[cur]]
    BY <2>1, <2>2, <1>a
  <2>4. Service!Succeed(cur)
    BY <2>1, <2>3 DEF Service!Succeed
  <2> QED BY <2>1, <2>4 DEF Service!SNext
<1>5. CASE RecordStatus
  <2>1. /\ Up /\ Up' /\ cur \in Files /\ batch[cur] # None
        /\ outcome \in Statuses /\ outcome # None
        /\ UNCHANGED <<pool, loadedFiles, tasks, lastLoaded>>
    BY <1>5, <1>b, <1>c DEF RecordStatus, mainVars, shared, registry, Up, TypeOK, ThreadsOK, Handling
  <2>2. outcome = "OK" => ImportedFiles[cur] = batch[cur]
    BY <2>1, <1>5, PoolExact DEF RecordStatus, OutcomeInv, ImportedFiles
  <2>3. Service!Finish(cur, outcome)
    BY <1>5, <2>1, <2>2, <1>kept DEF RecordStatus, Service!Finish
  <2> QED BY <2>1, <2>3 DEF Service!SNext, Statuses
<1>6. CASE Publish
  <2>1. Up /\ Up' /\ UNCHANGED <<pool, loadedFiles, tasks, batch>> /\ Present(batch) = {}
    BY <1>6, <1>b DEF Publish, mainVars, registry, Up, ThreadsOK, Handling
  <2>2. Service!Reveal
    BY <1>6, <2>1, <1>kept DEF Publish, Service!Reveal, Service!Some, Service!Nothing, Present, NoFiles
  <2> QED BY <2>2 DEF Service!SNext
<1>7. CASE Crash \/ Join
  <2>1. Up /\ Halt
    BY <1>7, <1>b DEF Crash, Join, Up
  <2>2. Service!GoDown
    BY <2>1, HaltGoesDown
  <2> QED BY <2>2 DEF Service!SNext
<1>8. CASE Restart
  <2>1. /\ ~Up /\ UNCHANGED <<disk, tasks, batch, status, lastLoaded>>
    BY <1>8 DEF Restart, MemoryReset, ThreadsOK, Handling, Present, NoFiles, TypeOK
  <2>2. CASE Loadable(disk)
    <3>1. Up' /\ loadedFiles' = Present(disk) /\ pool' = disk
      BY <1>8, <2>2 DEF Restart, Up
    <3>2. ImportedFiles' = ImportedFiles
      BY <2>1, <3>1, <1>a DEF ImportedFiles, Present
    <3>3. Service!ComeUp
      BY <2>1, <3>1, <3>2 DEF Service!ComeUp
    <3> QED BY <3>3 DEF Service!SNext
  <2>3. CASE ~Loadable(disk)
    <3>1. ~Up'
      BY <1>8, <2>3 DEF Restart, Up
    <3> QED BY <2>1, <3>1 DEF serviceVars, ImportedFiles, Up
  <2> QED BY <2>2, <2>3
<1>9. CASE MainNext /\ ~(ImportPut \/ LastImportSwap \/ Join)
  <2>1. Up /\ Up' /\ UNCHANGED <<pool, loadedFiles, tasks, batch, status, lastLoaded>>
    BY <1>9 DEF MainNext, ImportLock, ImportNotify, LastImportLock, Descriptor, StopSet,
       StopNotify, mainVars, loaderVars, shared, registry, Up
  <2> QED BY <2>1, <1>quiet
\* A pool without warnings has no file that is not in _loaded_files.
<1>10. CASE ImportCached \/ ImportWarns
  <2>1. lpc = "import" /\ disk[cur] \in Contents
    BY <1>10, <1>a, <1>c DEF ImportCached, ImportWarns, OutcomeInv, Handling
  <2> QED BY <1>10, <2>1, <1>d DEF ImportCached, ImportWarns, NoWarnings
<1>11. CASE \/ LoopTest \/ Relock \/ CheckFalse \/ Block \/ (\E f \in Files : PickFile(f))
            \/ OpenFile \/ OpenFails \/ WriteFile \/ ImportFails \/ RemoveFile \/ BatchDone
            \/ SpuriousWakeup
  <2>1. Up /\ Up' /\ UNCHANGED <<pool, loadedFiles, tasks, batch, status, lastLoaded>>
    BY <1>11, <1>b DEF LoopTest, Relock, CheckFalse, Block, PickFile, OpenFile, OpenFails,
       WriteFile, ImportFails, RemoveFile, BatchDone, SpuriousWakeup, mainVars, shared,
       registry, Up
  <2> QED BY <2>1, <1>quiet
<1> QED
  BY <1>1, <1>2, <1>3, <1>4, <1>5, <1>6, <1>7, <1>8, <1>9, <1>10, <1>11
     DEF Next, MainNext, LoaderStep

\* The two threads implement the import service.
THEOREM FactoryImplementsService ==
  ASSUME NoWarnings, ~DiskFaults
  PROVE  Spec => ServiceSpec
<1>1. /\ TypeOK /\ ThreadsOK /\ DiskIsLoaded /\ DirectoryInv /\ OutcomeInv
      /\ [Next]_vars
      => [Service!SNext]_(Service!svars)
  <2> SUFFICES ASSUME TypeOK, ThreadsOK, DiskIsLoaded, DirectoryInv, OutcomeInv, [Next]_vars
               PROVE  Service!SNext \/ UNCHANGED serviceVars
    BY DEF serviceVars, Service!svars
  <2>1. CASE Next
    BY <2>1, ServiceStep
  <2>2. CASE UNCHANGED vars
    BY <2>2 DEF vars, mainVars, loaderVars, shared, registry, serviceVars, ImportedFiles, Up
  <2> QED BY <2>1, <2>2
<1> QED
  BY <1>1, ServiceInit, TypedThreads, DiskFollowsLoader, DirectoryKept, OutcomeKept, PTL
     DEF Spec, ServiceSpec, Service!SSpec
=============================================================================
