------------------------------- MODULE Arguments -------------------------------
(***************************************************************************)
(* How the words of PB.SET, of PB.GET and of the loadmodule directive      *)
(* become arguments: the check of their number, the loops over the         *)
(* options, and the loop that splits a path into fields.                   *)
(*                                                                         *)
(* A step is a round of a loop.  Positions count from 0, as in the code.   *)
(* Chars[w] is word w cut into characters, of which only "/" matters, and  *)
(* Name[w] is the option or format it is, whatever its case.               *)
(***************************************************************************)
EXTENDS Numbers, Sequences

CONSTANTS Name, Chars

Conditions == {"--NX", "--XX"}
Expiries   == {"--EX", "--PX"}
Formats    == {"BINARY", "JSON"}

\* No number begins with two dashes.
ASSUME WordsAssumption ==
    /\ Name \in [Words -> STRING]
    /\ Chars \in [Words -> Seq(STRING)]
    /\ \A w \in Words : Name[w] \in Conditions \cup Expiries => Leading[w] = None

VARIABLES
    call,      \* the command, or "load" for the options of the module
    argv,      \* its words; the first is the command itself, except for "load"
    pc,        \* "idle", "arity", "options", "path", "parsed", "failed" or "crashed"
    idx,       \* position in argv
    opt,       \* "none", "--NX" or "--XX"
    expire,    \* milliseconds, 0 for none
    format,    \* of PB.GET
    dir,       \* of the module (proto_dir)
    path,      \* the word that is the path, or None
    at,        \* position in the path (idx of _parse_fields)
    start,     \* position where the field being read starts
    fields,    \* the fields read: the positions where each starts, and behind its end
    error      \* why the call failed

callVars   == <<call, argv>>
optionVars == <<idx, opt, expire, format, dir>>
pathVars   == <<path, at, start, fields>>
argVars    == <<callVars, pc, optionVars, pathVars, error>>

Argc   == Len(argv)
Arg(i) == argv[i + 1]

Size    == Len(Chars[path])
Char(i) == Chars[path][i + 1]

Fail(e) ==
    /\ pc' = "failed"
    /\ error' = e

-----------------------------------------------------------------------------
(***************************************************************************)
(* The number of words.                                                    *)
(***************************************************************************)

Calls == {"PB.SET", "PB.GET", "load"}

EnoughWords ==
    /\ call = "PB.SET" => Argc >= 4
    /\ call = "PB.GET" => Argc >= 3

\* The first word that may be an option.
FirstOption == IF call = "load" THEN 0 ELSE 2

CheckArity ==
    /\ pc = "arity"
    /\ IF EnoughWords
       THEN pc' = "options" /\ idx' = FirstOption /\ UNCHANGED error
       ELSE Fail("arity") /\ UNCHANGED idx
    /\ UNCHANGED <<callVars, opt, expire, format, dir, pathVars>>

-----------------------------------------------------------------------------
(***************************************************************************)
(* Options.                                                                *)
(***************************************************************************)

OptionsOf(c) ==
    CASE c = "PB.SET" -> Conditions \cup Expiries
      [] c = "PB.GET" -> {"--FORMAT"}
      [] OTHER -> {"--DIR"}

AtOption(names) ==
    /\ pc = "options"
    /\ idx < Argc
    /\ Name[Arg(idx)] \in names

\* Mutant: the option is kept as it was written.
ConditionOptionRaw ==
    /\ call = "PB.SET"
    /\ AtOption(Conditions)
    /\ IF opt # "none"
       THEN Fail("syntax") /\ UNCHANGED <<idx, opt>>
       ELSE opt' = Arg(idx) /\ idx' = idx + 1 /\ UNCHANGED <<pc, error>>
    /\ UNCHANGED <<callVars, expire, format, dir, pathVars>>

\* --NX or --XX
ConditionOption ==
    /\ call = "PB.SET"
    /\ AtOption(Conditions)
    /\ IF opt # "none"
       THEN Fail("syntax") /\ UNCHANGED <<idx, opt>>
       ELSE opt' = Name[Arg(idx)] /\ idx' = idx + 1 /\ UNCHANGED <<pc, error>>
    /\ UNCHANGED <<callVars, expire, format, dir, pathVars>>

\* Mutant: seconds are taken for milliseconds.
MillisecondsSame(name, n) == n

Milliseconds(name, n) == IF name = "--EX" THEN Signed(n * Second, Span64) ELSE n

\* Mutant: the number behind the option is left where it is.
ExpireOptionStuck ==
    /\ call = "PB.SET"
    /\ AtOption(Expiries)
    /\ IF expire # 0 \/ idx + 1 >= Argc
       THEN Fail("syntax") /\ UNCHANGED <<idx, expire>>
       ELSE LET n == sv_to_int64(Arg(idx + 1)) IN
            IF n = None \/ n <= 0
            THEN Fail("expire") /\ UNCHANGED <<idx, expire>>
            ELSE /\ expire' = Milliseconds(Name[Arg(idx)], n)
                 /\ idx' = idx + 1
                 /\ UNCHANGED <<pc, error>>
    /\ UNCHANGED <<callVars, opt, format, dir, pathVars>>

\* Mutant: nobody looks whether there is a number behind the option.
ExpireOptionLast ==
    /\ call = "PB.SET"
    /\ AtOption(Expiries)
    /\ IF expire # 0
       THEN Fail("syntax") /\ UNCHANGED <<idx, expire>>
       ELSE LET n == IF idx + 1 < Argc THEN sv_to_int64(Arg(idx + 1)) ELSE 1 IN
            IF n = None \/ n <= 0
            THEN Fail("expire") /\ UNCHANGED <<idx, expire>>
            ELSE /\ expire' = Milliseconds(Name[Arg(idx)], n)
                 /\ idx' = idx + 2
                 /\ UNCHANGED <<pc, error>>
    /\ UNCHANGED <<callVars, opt, format, dir, pathVars>>

\* --EX or --PX, and the number behind it.  A second one is noticed by the time set so far.
ExpireOption ==
    /\ call = "PB.SET"
    /\ AtOption(Expiries)
    /\ IF expire # 0 \/ idx + 1 >= Argc
       THEN Fail("syntax") /\ UNCHANGED <<idx, expire>>
       ELSE LET n == sv_to_int64(Arg(idx + 1)) IN
            IF n = None \/ n <= 0
            THEN Fail("expire") /\ UNCHANGED <<idx, expire>>
            ELSE /\ expire' = Milliseconds(Name[Arg(idx)], n)
                 /\ idx' = idx + 2
                 /\ UNCHANGED <<pc, error>>
    /\ UNCHANGED <<callVars, opt, format, dir, pathVars>>

\* Mutant: the position stays at the option.
FormatOptionStuck ==
    /\ call = "PB.GET"
    /\ AtOption({"--FORMAT"})
    /\ IF idx + 1 >= Argc
       THEN Fail("syntax") /\ UNCHANGED <<idx, format>>
       ELSE IF Name[Arg(idx + 1)] \notin Formats
       THEN Fail("format") /\ UNCHANGED <<idx, format>>
       ELSE format' = Name[Arg(idx + 1)] /\ UNCHANGED <<idx, pc, error>>
    /\ UNCHANGED <<callVars, opt, expire, dir, pathVars>>

\* --FORMAT; the last one counts.
FormatOption ==
    /\ call = "PB.GET"
    /\ AtOption({"--FORMAT"})
    /\ IF idx + 1 >= Argc
       THEN Fail("syntax") /\ UNCHANGED <<idx, format>>
       ELSE IF Name[Arg(idx + 1)] \notin Formats
       THEN Fail("format") /\ UNCHANGED <<idx, format>>
       ELSE format' = Name[Arg(idx + 1)] /\ idx' = idx + 2 /\ UNCHANGED <<pc, error>>
    /\ UNCHANGED <<callVars, opt, expire, dir, pathVars>>

\* --DIR.  Behind the last word the code reads whatever lies there: a null pointer is
\* refused, another one may be a word or the end of the process.
DirOption ==
    /\ call = "load"
    /\ AtOption({"--DIR"})
    /\ \/ /\ dir # None
          /\ Fail("duplicate")
          /\ UNCHANGED <<idx, dir>>
       \/ /\ dir = None
          /\ \E w \in IF idx + 1 < Argc THEN {Arg(idx + 1)} ELSE Words :
                dir' = IF Chars[w] = <<>> THEN None ELSE w
          /\ idx' = idx + 2
          /\ UNCHANGED <<pc, error>>
       \/ /\ dir = None
          /\ idx + 1 >= Argc
          /\ Fail("null string") \/ (pc' = "crashed" /\ UNCHANGED error)
          /\ UNCHANGED <<idx, dir>>
    /\ UNCHANGED <<callVars, opt, expire, format, pathVars>>

TakePath(w) ==
    /\ pc' = "path"
    /\ path' = w
    /\ UNCHANGED <<at, start, fields, error>>

Parsed ==
    /\ pc' = "parsed"
    /\ UNCHANGED <<pathVars, error>>

\* What is left behind the options of PB.SET is a type, perhaps a path, and a value; of
\* PB.GET, a type and perhaps a path.  The module knows no other words.
EndOptions ==
    /\ pc = "options"
    /\ ~AtOption(OptionsOf(call))
    /\ LET rest == Argc - idx - (IF call = "PB.SET" THEN 1 ELSE 0) IN
       CASE call = "load" /\ idx < Argc -> Fail("unknown option") /\ UNCHANGED pathVars
         [] call = "load" /\ idx >= Argc ->
               IF dir = None THEN Fail("required") /\ UNCHANGED pathVars ELSE Parsed
         [] call # "load" /\ rest = 1 -> Parsed
         [] call # "load" /\ rest = 2 -> TakePath(Arg(idx + 1))
         [] OTHER -> Fail("arity") /\ UNCHANGED pathVars
    /\ UNCHANGED <<callVars, optionVars>>

-----------------------------------------------------------------------------
(***************************************************************************)
(* Paths.                                                                  *)
(***************************************************************************)

Field(from, to) == [from |-> from, to |-> to]

StartPath ==
    /\ pc = "path"
    /\ at = 0
    /\ IF Size <= 1 \/ Char(0) # "/"
       THEN Fail("path") /\ UNCHANGED <<at, start>>
       ELSE at' = 1 /\ start' = 1 /\ UNCHANGED <<pc, error>>
    /\ UNCHANGED <<callVars, optionVars, path, fields>>

\* The loop ends when at is the size, not when it is beyond.
NextChar ==
    /\ pc = "path"
    /\ at > 0
    /\ at # Size
    /\ IF Char(at) # "/"
       THEN at' = at + 1 /\ UNCHANGED <<start, fields, pc, error>>
       ELSE IF at <= start
       THEN Fail("path") /\ UNCHANGED <<at, start, fields>>
       ELSE /\ fields' = Append(fields, Field(start, at))
            /\ start' = at + 1
            /\ at' = at + 1
            /\ UNCHANGED <<pc, error>>
    /\ UNCHANGED <<callVars, optionVars, path>>

\* Mutant: nobody looks whether the last field is empty.
EndPathEmpty ==
    /\ pc = "path"
    /\ at > 0
    /\ at = Size
    /\ fields' = Append(fields, Field(start, Size))
    /\ pc' = "parsed"
    /\ UNCHANGED <<callVars, optionVars, path, at, start, error>>

EndPath ==
    /\ pc = "path"
    /\ at > 0
    /\ at = Size
    /\ IF Size <= start
       THEN Fail("path") /\ UNCHANGED fields
       ELSE /\ fields' = Append(fields, Field(start, Size))
            /\ pc' = "parsed"
            /\ UNCHANGED error
    /\ UNCHANGED <<callVars, optionVars, path, at, start>>

-----------------------------------------------------------------------------
Clean ==
    /\ idx = 0 /\ opt = "none" /\ expire = 0 /\ format = "none" /\ dir = None
    /\ path = None /\ at = 0 /\ start = 0 /\ fields = <<>>
    /\ error = None

ArgInit ==
    /\ call \in Calls
    /\ argv \in Seq(Words)
    /\ pc = "arity"
    /\ Clean

ParseStep ==
    \/ CheckArity
    \/ ConditionOption
    \/ ExpireOption
    \/ FormatOption
    \/ DirOption
    \/ EndOptions
    \/ StartPath
    \/ NextChar
    \/ EndPath

ArgSpec == ArgInit /\ [][ParseStep]_argVars

-----------------------------------------------------------------------------
(***************************************************************************)
(* Properties.                                                             *)
(***************************************************************************)

\* The loops over the words and over the characters stay inside: the option loops never
\* skip past the end of argv, where the next test would stop them but the arguments be
\* taken from behind it, and the path loop, which ends when its position equals the size,
\* never steps over it.  The options of the module are not meant: see DirOption.
ReadsInRange ==
    /\ (pc = "options" /\ call # "load") => idx \in 2..Argc
    /\ (pc = "parsed" /\ call = "PB.SET") => Argc - idx \in {2, 3}
    /\ (pc = "path" /\ at > 0) => start \in 1..at /\ at \in 1..Size

NoSlash(from, to) == \A i \in from..(to - 1) : Char(i) # "/"

\* The fields fs are the pieces between the slashes of the path, in order, none empty.
SplitsPath(fs) ==
    /\ fs # <<>>
    /\ fs[1].from = 1
    /\ fs[Len(fs)].to = Size
    /\ \A i \in 1..Len(fs) : fs[i].from < fs[i].to /\ NoSlash(fs[i].from, fs[i].to)
    /\ \A i \in 1..(Len(fs) - 1) : fs[i + 1].from = fs[i].to + 1 /\ Char(fs[i].to) = "/"

WellFormed ==
    /\ Size > 1
    /\ Char(0) = "/"
    /\ Char(Size - 1) # "/"
    /\ \A i \in 0..(Size - 2) : Char(i) # "/" \/ Char(i + 1) # "/"

\* A path that is accepted is split at every slash and nowhere else, and one that is
\* refused could not be split into fields that are not empty.
PathIsSplit ==
    /\ (pc = "parsed" /\ path # None) => SplitsPath(fields)
    /\ (pc = "failed" /\ error = "path") => ~WellFormed

\* The options of PB.SET as README.md:391 writes them, from word 2 to before word p: at
\* most one condition and at most one expiry, in any order and any case.
ConditionAt(i) == i < Argc /\ Name[Arg(i)] \in Conditions

ExpiryAt(i) ==
    /\ i + 1 < Argc
    /\ Name[Arg(i)] \in Expiries
    /\ LET n == sv_to_int64(Arg(i + 1)) IN n # None /\ n > 0

OptionsUpTo(p) ==
    \/ p = 2
    \/ p = 3 /\ ConditionAt(2)
    \/ p = 4 /\ ExpiryAt(2)
    \/ p = 5 /\ ConditionAt(2) /\ ExpiryAt(3)
    \/ p = 5 /\ ExpiryAt(2) /\ ConditionAt(4)

\* Words that begin with such options and go on with a type, perhaps a path, and a value.
SetSyntax(p) ==
    /\ OptionsUpTo(p)
    /\ Argc - p \in {2, 3}
    /\ Name[Arg(p)] \notin OptionsOf("PB.SET")

\* What the options before word p ask for.
AskedBefore(p) ==
    [opt    |-> IF \E i \in 2..(p - 1) : Name[Arg(i)] \in Conditions
                THEN Name[Arg(CHOOSE i \in 2..(p - 1) : Name[Arg(i)] \in Conditions)]
                ELSE "none",
     expire |-> IF \E i \in 2..(p - 2) : ExpiryAt(i)
                THEN LET i == CHOOSE j \in 2..(p - 2) : ExpiryAt(j) IN
                     Milliseconds(Name[Arg(i)], sv_to_int64(Arg(i + 1)))
                ELSE 0]

\* PB.SET takes its words as the syntax in README.md says, or refuses them because they
\* are not of that form, or because of the path.  Seconds that overflow to nothing are
\* forgotten by the parser.
SetSyntaxFollowed ==
    (call = "PB.SET" /\ \A i \in 2..(Argc - 2) : ExpiryAt(i) =>
                            Milliseconds(Name[Arg(i)], sv_to_int64(Arg(i + 1))) # 0) =>
        /\ pc \in {"path", "parsed"} =>
              SetSyntax(idx) /\ AskedBefore(idx) = [opt |-> opt, expire |-> expire]
        /\ (pc = "failed" /\ error # "path") => \A p \in 2..Argc : ~SetSyntax(p)
=============================================================================
