------------------------------ MODULE ImportService ------------------------------
(***************************************************************************)
(* What PB.IMPORT and PB.LASTIMPORT promise (README, "PB.IMPORT" and       *)
(* "PB.LASTIMPORT"), without threads, locks, a descriptor pool or a        *)
(* directory: accepted files are imported later, a batch at a time; a file *)
(* is imported at most once and then never changes; and every result is    *)
(* kept until it is fetched, by the name of the file.                      *)
(* ProtoFactory is shown to implement it (FactoryService).                 *)
(***************************************************************************)
CONSTANTS Files, Contents, None

VARIABLES
    waiting,    \* file -> content accepted and not yet taken up
    working,    \* file -> content of the batch being imported
    finished,   \* file -> result of the files of that batch already done
    results,    \* file -> result not yet fetched
    imported,   \* file -> content of every imported file: this survives a restart
    up          \* is the server running?

svars == <<waiting, working, finished, results, imported, up>>

Nothing   == [f \in Files |-> None]
Some(g)   == {f \in Files : g[f] # None}
IsError(s) == s \notin {"OK", None}

SInit ==
    /\ waiting = Nothing
    /\ working = Nothing
    /\ finished = Nothing
    /\ results = Nothing
    /\ imported = Nothing
    /\ up = TRUE

\* PB.IMPORT replies OK.
Accept(f, c) ==
    /\ up
    /\ waiting' = [waiting EXCEPT ![f] = c]
    /\ UNCHANGED <<working, finished, results, imported, up>>

\* Everything accepted so far is taken up together.
Take ==
    /\ Some(working) = {}
    /\ Some(finished) = {}
    /\ working' = waiting
    /\ waiting' = Nothing
    /\ UNCHANGED <<finished, results, imported, up>>

\* A file not imported before is imported with the content of the command ...
Succeed(f) ==
    /\ working[f] # None
    /\ imported[f] = None
    /\ imported' = [imported EXCEPT ![f] = working[f]]
    /\ UNCHANGED <<waiting, working, finished, results, up>>

\* ... and its result is OK; any other result means that the command changed nothing.
Finish(f, s) ==
    /\ working[f] # None
    /\ s = "OK" => imported[f] = working[f]
    /\ s # None
    /\ working' = [working EXCEPT ![f] = None]
    /\ finished' = [finished EXCEPT ![f] = s]
    /\ UNCHANGED <<waiting, results, imported, up>>

\* The results of a batch become visible together.
Reveal ==
    /\ Some(working) = {}
    /\ results' = [f \in Files |-> IF finished[f] # None THEN finished[f] ELSE results[f]]
    /\ finished' = Nothing
    /\ UNCHANGED <<waiting, working, imported, up>>

\* PB.LASTIMPORT returns the results and clears them.
Fetch ==
    /\ up
    /\ results' = Nothing
    /\ UNCHANGED <<waiting, working, finished, imported, up>>

\* The server goes down.  What is imported stays; at most the one file being worked on
\* is left behind with whatever content.
GoDown ==
    /\ up
    /\ up' = FALSE
    /\ waiting' = Nothing
    /\ working' = Nothing
    /\ finished' = Nothing
    /\ results' = Nothing
    /\ \/ UNCHANGED imported
       \/ \E f \in Files, c \in Contents :
             /\ working[f] # None
             /\ imported[f] = None
             /\ imported' = [imported EXCEPT ![f] = c]

ComeUp ==
    /\ ~up
    /\ up' = TRUE
    /\ UNCHANGED <<waiting, working, finished, results, imported>>

SNext ==
    \/ \E f \in Files, c \in Contents : Accept(f, c)
    \/ Take
    \/ \E f \in Files : Succeed(f)
    \/ \E f \in Files, s \in {"OK", "ERR already", "ERR open", "ERR load"} : Finish(f, s)
    \/ Reveal
    \/ Fetch
    \/ GoDown
    \/ ComeUp

SSpec == SInit /\ [][SNext]_svars
=============================================================================
