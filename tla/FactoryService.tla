----------------------------- MODULE FactoryService -----------------------------
(***************************************************************************)
(* ProtoFactory implements ImportService: `waiting' is _tasks, `working'   *)
(* and `finished' are the loader's locals, `results' is                    *)
(* _last_loaded_files, and a file is imported when it is in _loaded_files  *)
(* or, while there is no process, when it is on disk.                      *)
(***************************************************************************)
EXTENDS ProtoFactory

ImportedFiles ==
    IF Up THEN [f \in Files |-> IF f \in loadedFiles THEN pool[f] ELSE None] ELSE disk

Service == INSTANCE ImportService
             WITH waiting <- tasks, working <- batch, finished <- status,
                  results <- lastLoaded, imported <- ImportedFiles, up <- Up

\* The two threads together behave as the import service does: each accepted file is
\* imported at most once, an imported file never changes (not across a restart either),
\* OK means imported with the content of the command, and results are kept until
\* fetched.
ServiceSpec == Service!SSpec
=============================================================================
