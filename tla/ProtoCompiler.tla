----------------------------- MODULE ProtoCompiler -----------------------------
(***************************************************************************)
(* The protobuf compiler, as the factory and the module use it.  What a    *)
(* .proto file holds is one of a few contents; a function from Files to    *)
(* contents, or None, is a descriptor pool or a directory.                 *)
(***************************************************************************)
CONSTANTS
    Files,       \* names of .proto files
    Contents,    \* what such a file can hold
    Types,       \* names of message types
    None,        \* the absence of a file, a content or a status
    Empty,       \* the content of a file opened for writing and not yet written
    Kind,        \* content -> "good" | "warn" | "bad": what the protobuf compiler says
    Deps,        \* content -> the files it imports
    Defines      \* content -> the message types it defines

ASSUME NoneAssumption ==
    /\ None \notin Files \cup Contents \cup (Files \X Contents)
    /\ None \notin {"OK", "ERR already", "ERR open", "ERR load", "main", "loader"}

ASSUME CompilerAssumption ==
    \A c \in Contents : /\ Kind[c] \in {"good", "warn", "bad"}
                        /\ Deps[c] \subseteq Files
                        /\ Defines[c] \subseteq Types

\* An empty .proto file compiles: it defines nothing and imports nothing.
ASSUME EmptyAssumption ==
    Empty \in Contents /\ Kind[Empty] = "good" /\ Deps[Empty] = {} /\ Defines[Empty] = {}

NoFiles    == [f \in Files |-> None]
Present(g) == {f \in Files : g[f] # None}
TypesIn(g) == UNION {Defines[g[f]] : f \in Present(g)}

\* Importer::Import builds a file with content c on top of pool g: its imports must
\* resolve and its types must be new.
BuildsOn(g, c) ==
    /\ Kind[c] # "bad"
    /\ Deps[c] \subseteq Present(g)
    /\ Defines[c] \cap TypesIn(g) = {}

\* In the constructor the importer first builds, from the same directory, the files a
\* file imports.  So this is what a directory must look like for _load_protos to import
\* every file in it, in whatever order it lists them, with no error and no warning.
Loadable(d) ==
    /\ \A f \in Present(d) : /\ Kind[d[f]] = "good"
                             /\ Deps[d[f]] \subseteq Present(d) \ {f}
    /\ \A f, g \in Present(d) : f # g => Defines[d[f]] \cap Defines[d[g]] = {}
=============================================================================
