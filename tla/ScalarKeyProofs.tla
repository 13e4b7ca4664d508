---------------------------- MODULE ScalarKeyProofs ----------------------------
(***************************************************************************)
(* The loops that read words and paths, for commands and paths of every    *)
(* length; the parsers in a server that runs one command after the other;  *)
(* and the way of a number into a field and back, for every width, at any  *)
(* later time and through a restart.                                       *)
(*                                                                         *)
(* ArgInv says how far the loops of Arguments have come and what they have *)
(* found so far; it is kept by every round.                                *)
(***************************************************************************)
EXTENDS ScalarKey, Iteration

\* What is typed, as far as positions depend on it.
ArgType ==
    /\ argv \in Seq(Words)
    /\ idx \in Nat /\ at \in Nat /\ start \in Nat
    /\ fields \in Seq([from : Nat, to : Nat])

\* The option loops are inside argv, and leave two or three words of PB.SET.
InWords ==
    /\ pc = "arity" => call \in Calls
    /\ (pc = "options" /\ call # "load") => idx \in 2..Argc
    /\ (pc \in {"path", "parsed"} /\ call = "PB.SET") => Argc - idx \in {2, 3}

\* The fields fs are those of the path up to its character e, a slash or the end.
FieldsUpTo(fs, e) ==
    /\ fs = <<>> => e = 0
    /\ fs # <<>> => fs[1].from = 1 /\ fs[Len(fs)].to = e
    /\ \A i \in 1..Len(fs) : fs[i].from < fs[i].to /\ NoSlash(fs[i].from, fs[i].to)
    /\ \A i \in 1..(Len(fs) - 1) : fs[i + 1].from = fs[i].to + 1 /\ Char(fs[i].to) = "/"

\* Between two rounds of the path loop: a slash is before the field being read, none in it.
Scanned ==
    /\ Size > 1
    /\ Char(0) = "/"
    /\ start \in 1..at /\ at \in 1..Size
    /\ Char(start - 1) = "/"
    /\ NoSlash(start, at)
    /\ FieldsUpTo(fields, start - 1)

InPath ==
    /\ pc \in {"idle", "arity", "options"} => path = None /\ at = 0 /\ fields = <<>>
    /\ pc = "path" => /\ path \in Words
                      /\ at = 0 => fields = <<>>
                      /\ at > 0 => Scanned
    /\ (pc = "parsed" /\ path # None) => SplitsPath(fields)
    /\ (pc = "failed" /\ error = "path") => ~WellFormed

ArgInv == ArgType /\ InWords /\ InPath

-----------------------------------------------------------------------------
LEMMA ArgInvInit == ArgInit => ArgInv
  BY DEF ArgInit, Clean, ArgInv, ArgType, InWords, InPath

LEMMA ArgInvUnchanged == ArgInv /\ UNCHANGED argVars => ArgInv'
  BY DEF argVars, callVars, optionVars, pathVars, ArgInv, ArgType, InWords, InPath, Scanned,
         FieldsUpTo, SplitsPath, WellFormed, NoSlash, Char, Size, Argc

\* The steps before the path is looked at: words are left alone, and nothing is scanned.
LEMMA WordsStep ==
  ASSUME ArgInv, CheckArity \/ ConditionOption \/ ExpireOption \/ FormatOption \/ DirOption
  PROVE  ArgInv'
<1>1. idx' \in Nat
  <2>1. CASE CheckArity
    BY <2>1 DEF ArgInv, ArgType, CheckArity, FirstOption
  <2>2. CASE ConditionOption
    BY <2>2 DEF ArgInv, ArgType, ConditionOption
  <2>3. CASE ExpireOption
    BY <2>3 DEF ArgInv, ArgType, ExpireOption, Fail
  <2>4. CASE FormatOption
    BY <2>4 DEF ArgInv, ArgType, FormatOption, Fail
  <2>5. CASE DirOption
    <3>1. idx' = idx + 2 \/ UNCHANGED idx
      BY <2>5 DEF DirOption, Fail
    <3> QED
      BY <3>1 DEF ArgInv, ArgType
  <2> QED
    BY <2>1, <2>2, <2>3, <2>4, <2>5
<1>2. pc \in {"arity", "options"} /\ pc' \in {"options", "failed", "crashed"}
  BY DEF CheckArity, ConditionOption, ExpireOption, FormatOption, DirOption, AtOption, Fail
<1>3. UNCHANGED <<call, argv, path, at, start, fields>>
  BY DEF CheckArity, ConditionOption, ExpireOption, FormatOption, DirOption, callVars, pathVars
<1>4. pc' = "failed" => error' # "path"
  BY DEF CheckArity, ConditionOption, ExpireOption, FormatOption, DirOption, AtOption, Fail
<1>5. InWords'
  <2>1. SUFFICES ASSUME pc' = "options", call' # "load"
                 PROVE  idx' \in 2..Argc'
    BY <1>2 DEF InWords
  <2>2. Argc \in Nat /\ Argc' = Argc
    BY <1>3 DEF ArgInv, ArgType, Argc
  <2>3. CASE CheckArity
    BY <1>3, <2>1, <2>2, <2>3
       DEF CheckArity, EnoughWords, FirstOption, Fail, ArgInv, InWords, Calls
  <2>4. CASE ConditionOption
    BY <1>3, <2>1, <2>2, <2>4 DEF ArgInv, ArgType, InWords, ConditionOption, AtOption, Fail
  <2>5. CASE ExpireOption
    BY <1>3, <2>1, <2>2, <2>5 DEF ArgInv, ArgType, InWords, ExpireOption, AtOption, Fail
  <2>6. CASE FormatOption
    BY <1>3, <2>1, <2>2, <2>6 DEF ArgInv, ArgType, InWords, FormatOption, AtOption, Fail
  <2>7. CASE DirOption
    BY <1>3, <2>1, <2>7 DEF DirOption
  <2> QED
    BY <2>3, <2>4, <2>5, <2>6, <2>7
<1>6. InPath'
  BY <1>2, <1>3, <1>4 DEF ArgInv, InPath
<1>7. ArgType'
  BY <1>1, <1>3 DEF ArgInv, ArgType
<1> QED
  BY <1>5, <1>6, <1>7 DEF ArgInv

LEMMA EndOptionsStep == ASSUME ArgInv, EndOptions PROVE ArgInv'
<1>1. UNCHANGED <<call, argv, idx>>
  BY DEF EndOptions, callVars, optionVars
<1>2. Argc \in Nat /\ Argc' = Argc /\ idx \in Nat /\ argv \in Seq(Words)
  BY <1>1 DEF ArgInv, ArgType, Argc
<1>3. path = None /\ at = 0 /\ fields = <<>> /\ pc = "options"
  BY DEF EndOptions, ArgInv, InPath
<1>4. UNCHANGED <<at, start, fields>>
  BY DEF EndOptions, Fail, Parsed, TakePath, pathVars
<1>5. ArgType'
  BY <1>1, <1>4 DEF ArgInv, ArgType
<1>6. \/ pc' = "failed" /\ error' # "path"
      \/ pc' = "parsed" /\ path' = path
      \/ pc' = "path" /\ path' = Arg(idx + 1)
  BY DEF EndOptions, Fail, Parsed, TakePath, pathVars
<1>7. ASSUME call = "PB.SET", pc' # "failed"
      PROVE  Argc - idx \in {2, 3}
  <2>1. Argc - idx - 1 = 1 \/ Argc - idx - 1 = 2
    BY <1>7 DEF EndOptions, Fail
  <2> QED
    BY <1>2, <2>1
<1>8. InWords'
  BY <1>1, <1>2, <1>6, <1>7 DEF InWords
<1>9. ASSUME pc' = "path"
      PROVE  path' \in Words
  <2>1. path' = Arg(idx + 1) /\ idx + 1 < Argc
    <3>1. call # "load" /\ Argc - idx - (IF call = "PB.SET" THEN 1 ELSE 0) = 2
      BY <1>9 DEF EndOptions, Fail, Parsed
    <3> QED
      BY <1>2, <1>6, <1>9, <3>1
  <2>2. idx + 2 \in 1..Len(argv)
    BY <1>2, <2>1 DEF Argc
  <2> QED
    BY <1>2, <2>1, <2>2 DEF Arg
<1>10. InPath'
  BY <1>3, <1>4, <1>6, <1>9 DEF InPath
<1> QED
  BY <1>5, <1>8, <1>10 DEF ArgInv

-----------------------------------------------------------------------------
(***************************************************************************)
(* The path loop.                                                          *)
(***************************************************************************)

LEMMA PathTyped ==
  ASSUME ArgInv, pc = "path"
  PROVE  path \in Words /\ Size \in Nat /\ \A i \in 0..(Size - 1) : Char(i) \in STRING
  BY WordsAssumption DEF ArgInv, InPath, Size, Char

\* One more field, behind which is position e + 1 of the path or its end.
LEMMA FieldAdded ==
  ASSUME NEW fs \in Seq([from : Nat, to : Nat]), NEW b \in Nat, NEW e \in Nat,
         1 <= b, b < e, NoSlash(b, e), Char(b - 1) = "/", FieldsUpTo(fs, b - 1)
  PROVE  /\ Append(fs, Field(b, e)) \in Seq([from : Nat, to : Nat])
         /\ FieldsUpTo(Append(fs, Field(b, e)), e)
<1> DEFINE gs == Append(fs, Field(b, e))
<1>1. Field(b, e) \in [from : Nat, to : Nat] /\ Field(b, e).from = b /\ Field(b, e).to = e
  BY DEF Field
<1>2. /\ gs \in Seq([from : Nat, to : Nat]) /\ Len(gs) = Len(fs) + 1 /\ Len(fs) \in Nat
      /\ gs[Len(gs)] = Field(b, e)
      /\ \A i \in 1..Len(fs) : gs[i] = fs[i]
  BY <1>1
<1>9. fs # <<>> => 1 \in 1..Len(fs)
  OBVIOUS
<1> HIDE DEF gs
<1>3. gs # <<>>
  BY <1>2
<1>10. ASSUME NEW i \in 1..Len(gs), i # Len(gs)
       PROVE  i \in 1..Len(fs) /\ gs[i] = fs[i]
  <2>1. i \in 1..Len(fs)
    BY <1>2, <1>10
  <2> QED
    BY <1>2, <2>1
<1>4. gs[1].from = 1
  <2>1. CASE fs = <<>>
    BY <1>1, <1>2, <2>1 DEF FieldsUpTo
  <2>2. CASE fs # <<>>
    BY <1>2, <1>9, <2>2 DEF FieldsUpTo
  <2> QED
    BY <2>1, <2>2
<1>5. gs[Len(gs)].to = e
  BY <1>1, <1>2
<1>6. ASSUME NEW i \in 1..Len(gs)
      PROVE  gs[i].from < gs[i].to /\ NoSlash(gs[i].from, gs[i].to)
  <2>1. CASE i = Len(gs)
    BY <1>1, <1>2, <2>1
  <2>2. CASE i # Len(gs)
    BY <1>6, <1>10, <2>2 DEF FieldsUpTo
  <2> QED
    BY <2>1, <2>2
<1>7. ASSUME NEW i \in 1..(Len(gs) - 1)
      PROVE  gs[i + 1].from = gs[i].to + 1 /\ Char(gs[i].to) = "/"
  <2>1. CASE i = Len(fs)
    <3>1. fs # <<>> /\ fs[i].to = b - 1
      BY <1>2, <1>7, <2>1 DEF FieldsUpTo
    <3>2. gs[i] = fs[i] /\ gs[i + 1] = Field(b, e)
      BY <1>2, <1>7, <2>1
    <3> QED
      BY <1>1, <3>1, <3>2
  <2>2. CASE i # Len(fs)
    <3>1. i \in 1..(Len(fs) - 1)
      BY <1>2, <1>7, <2>2
    <3>2. i \in 1..Len(fs) /\ i + 1 \in 1..Len(fs)
      BY <1>2, <3>1
    <3>3. gs[i] = fs[i] /\ gs[i + 1] = fs[i + 1]
      BY <1>2, <3>2
    <3> QED
      BY <3>1, <3>3 DEF FieldsUpTo
  <2> QED
    BY <2>1, <2>2
<1>8. FieldsUpTo(gs, e)
  BY <1>3, <1>4, <1>5, <1>6, <1>7 DEF FieldsUpTo
<1> QED
  BY <1>2, <1>8 DEF gs

LEMMA StartPathStep == ASSUME ArgInv, StartPath PROVE ArgInv'
<1>1. UNCHANGED <<call, argv, idx, path, fields>> /\ pc = "path" /\ at = 0
  BY DEF StartPath, callVars, optionVars
<1>2. path \in Words /\ Size \in Nat /\ fields = <<>>
  BY <1>1, PathTyped DEF ArgInv, InPath
<1>3. CASE Size <= 1 \/ Char(0) # "/"
  <2>1. pc' = "failed" /\ UNCHANGED <<at, start>>
    BY <1>3 DEF StartPath, Fail
  <2>2. ~WellFormed /\ (WellFormed' <=> WellFormed)
    BY <1>1, <1>2, <1>3 DEF WellFormed, Size, Char
  <2> QED
    BY <1>1, <1>2, <2>1, <2>2 DEF ArgInv, ArgType, InWords, InPath
<1>4. CASE Size > 1 /\ Char(0) = "/"
  <2>1. at' = 1 /\ start' = 1 /\ pc' = "path"
    BY <1>1, <1>2, <1>4 DEF StartPath
  <2>2. ArgType' /\ InWords'
    BY <1>1, <2>1 DEF ArgInv, ArgType, InWords, Argc
  <2>3. Scanned'
    BY <1>1, <1>2, <1>4, <2>1 DEF Scanned, FieldsUpTo, NoSlash, Size, Char
  <2>4. InPath'
    BY <1>1, <1>2, <2>1, <2>3 DEF InPath
  <2> QED
    BY <2>2, <2>4 DEF ArgInv
<1> QED
  BY <1>2, <1>3, <1>4

LEMMA NextCharStep == ASSUME ArgInv, NextChar PROVE ArgInv'
<1>1. UNCHANGED <<call, argv, idx, path>> /\ pc = "path" /\ at > 0 /\ at # Size
  BY DEF NextChar, callVars, optionVars
<1>2. /\ path \in Words /\ Size \in Nat /\ Scanned
      /\ at \in Nat /\ start \in Nat /\ fields \in Seq([from : Nat, to : Nat])
  BY <1>1, PathTyped DEF ArgInv, InPath, ArgType
<1>3. Size' = Size /\ \A i : Char(i)' = Char(i)
  BY <1>1 DEF Size, Char
<1>4. at < Size /\ start <= at /\ 1 <= start
  BY <1>1, <1>2 DEF Scanned
<1>5. CASE Char(at) # "/"
  <2>1. at' = at + 1 /\ UNCHANGED <<start, fields, pc>>
    BY <1>5 DEF NextChar
  <2>2. NoSlash(start, at + 1)
    BY <1>2, <1>4, <1>5 DEF Scanned, NoSlash
  <2>3. Scanned'
    BY <1>1, <1>2, <1>3, <1>4, <2>1, <2>2 DEF Scanned, FieldsUpTo, NoSlash, Size, Char
  <2> QED
    BY <1>1, <1>2, <2>1, <2>3 DEF ArgInv, ArgType, InWords, InPath, Argc
<1>6. CASE Char(at) = "/" /\ at <= start
  <2>1. pc' = "failed" /\ UNCHANGED <<at, start, fields>>
    BY <1>6 DEF NextChar, Fail
  <2>2. ~WellFormed'
    <3>1. at - 1 \in 0..(Size - 2) /\ Char(at - 1) = "/" /\ (at - 1) + 1 = at
      BY <1>2, <1>4, <1>6 DEF Scanned
    <3>2. ~WellFormed
      BY <1>6, <3>1 DEF WellFormed
    <3> QED
      BY <1>1, <3>2 DEF WellFormed, Size, Char
  <2> QED
    BY <1>1, <1>2, <2>1, <2>2 DEF ArgInv, ArgType, InWords, InPath
<1>7. CASE Char(at) = "/" /\ ~(at <= start)
  <2>1. /\ fields' = Append(fields, Field(start, at))
        /\ start' = at + 1 /\ at' = at + 1 /\ UNCHANGED pc
    BY <1>7 DEF NextChar
  <2>2. fields' \in Seq([from : Nat, to : Nat]) /\ FieldsUpTo(fields', at)
    BY <1>2, <1>4, <1>7, <2>1, FieldAdded DEF Scanned
  <2>3. Scanned'
    <3>1. start' - 1 = at
      BY <1>2, <2>1
    <3>2. FieldsUpTo(fields, start - 1)'
      BY <1>1, <2>2, <3>1 DEF FieldsUpTo, NoSlash, Char
    <3>3. Size' > 1 /\ Char(0)' = "/" /\ Char(start - 1)' = "/"
      BY <1>1, <1>2, <1>7, <3>1 DEF Scanned, Size, Char
    <3>4. start' \in 1..at' /\ at' \in 1..Size' /\ NoSlash(start, at)'
      BY <1>2, <1>3, <1>4, <2>1 DEF NoSlash
    <3> QED
      BY <3>2, <3>3, <3>4 DEF Scanned
  <2> QED
    BY <1>1, <1>2, <2>1, <2>2, <2>3 DEF ArgInv, ArgType, InWords, InPath, Argc
<1> QED
  BY <1>5, <1>6, <1>7

LEMMA EndPathStep == ASSUME ArgInv, EndPath PROVE ArgInv'
<1>1. UNCHANGED <<call, argv, idx, path, at, start>> /\ pc = "path" /\ at > 0 /\ at = Size
  BY DEF EndPath, callVars, optionVars
<1>2. /\ path \in Words /\ Size \in Nat /\ Scanned
      /\ start \in Nat /\ fields \in Seq([from : Nat, to : Nat])
  BY <1>1, PathTyped DEF ArgInv, InPath, ArgType
<1>3. CASE Size <= start
  <2>1. pc' = "failed" /\ UNCHANGED fields
    BY <1>3 DEF EndPath, Fail
  <2>2. ~WellFormed
    BY <1>1, <1>2, <1>3 DEF Scanned, WellFormed
  <2>3. ~WellFormed'
    BY <1>1, <2>2 DEF WellFormed, Size, Char
  <2> QED
    BY <1>1, <1>2, <2>1, <2>3 DEF ArgInv, ArgType, InWords, InPath
<1>4. CASE ~(Size <= start)
  <2>1. fields' = Append(fields, Field(start, Size)) /\ pc' = "parsed"
    BY <1>4 DEF EndPath
  <2>2. fields' \in Seq([from : Nat, to : Nat]) /\ FieldsUpTo(fields', Size)
    BY <1>1, <1>2, <1>4, <2>1, FieldAdded DEF Scanned
  <2>3. fields' # <<>>
    BY <1>2, <2>1
  <2>4. SplitsPath(fields)'
    BY <1>1, <2>2, <2>3 DEF FieldsUpTo, SplitsPath, NoSlash, Char, Size
  <2> QED
    BY <1>1, <1>2, <2>1, <2>2, <2>4 DEF ArgInv, ArgType, InWords, InPath, Argc
<1> QED
  BY <1>3, <1>4

LEMMA ParseKeepsInv == ArgInv /\ ParseStep => ArgInv'
  BY WordsStep, EndOptionsStep, StartPathStep, NextCharStep, EndPathStep DEF ParseStep

LEMMA ArgInvSays == ArgInv => ReadsInRange /\ PathIsSplit
  BY DEF ArgInv, InWords, InPath, Scanned, ReadsInRange, PathIsSplit

\* Whatever the words are and however many: the loops of PB.SET and PB.GET stay inside
\* argv, and the loop of _parse_fields, which stops only at its end exactly, inside the
\* path.
THEOREM LoopsStayInside == ArgSpec => []ReadsInRange
<1>1. ArgInv /\ [ParseStep]_argVars => ArgInv'
  BY ParseKeepsInv, ArgInvUnchanged
<1> QED
  BY <1>1, ArgInvInit, ArgInvSays, PTL DEF ArgSpec

\* Whatever the path: when it is accepted its fields are the pieces between its slashes,
\* and it is refused only if one of them would be empty or the first slash is missing.
THEOREM PathsSplitAtSlashes == ArgSpec => []PathIsSplit
<1>1. ArgInv /\ [ParseStep]_argVars => ArgInv'
  BY ParseKeepsInv, ArgInvUnchanged
<1> QED
  BY <1>1, ArgInvInit, ArgInvSays, PTL DEF ArgSpec

-----------------------------------------------------------------------------
(***************************************************************************)
(* The loops in a server.                                                  *)
(***************************************************************************)

LEMMA InitInv == Init => ArgInv
  BY ListsAssumption DEF Init, Clean, ArgInv, ArgType, InWords, InPath, Calls

LEMMA BeginStep ==
  ASSUME NEW l \in Lists, ArgInv, Begin(l[1], l[2])
  PROVE  ArgInv'
<1>1. l[1] \in Calls /\ l[2] \in Seq(Words)
  BY ListsAssumption
<1>2. /\ call' = l[1] /\ argv' = l[2] /\ pc = "idle" /\ pc' = "arity"
      /\ UNCHANGED <<idx, path, at, start, fields>>
  BY DEF Begin, optionVars, pathVars
<1> QED
  BY <1>1, <1>2 DEF ArgInv, ArgType, InWords, InPath

LEMMA ReturnStep == ASSUME ArgInv, Return PROVE ArgInv'
  BY DEF Return, ArgInv, ArgType, InWords, InPath

LEMMA NextInv == ArgInv /\ [Next]_allVars => ArgInv'
<1> SUFFICES ASSUME ArgInv, [Next]_allVars
             PROVE  ArgInv'
  OBVIOUS
<1>1. ASSUME NEW l \in Lists, Begin(l[1], l[2])
      PROVE  ArgInv'
  BY <1>1, BeginStep
<1>2. CASE Parse
  BY <1>2, ParseKeepsInv DEF Parse
<1>3. CASE Execute
  BY <1>3, ReturnStep DEF Execute, Loaded, Refuse, RunSet, RunGet
<1>4. CASE Tick \/ ExpireKey \/ Restart
  BY <1>4, ArgInvUnchanged DEF Tick, ExpireKey, Restart
<1>5. CASE UNCHANGED allVars
  BY <1>5, ArgInvUnchanged DEF allVars
<1> QED
  BY <1>1, <1>2, <1>3, <1>4, <1>5 DEF Next

LEMMA ServerInv == Spec => []ArgInv
  BY InitInv, NextInv, PTL DEF Spec

\* In a server that runs commands one after the other: no loop of _parse_opts or
\* _parse_fields leaves the words or the path, whatever clients send.
THEOREM ServerReadsInRange == Spec => []ReadsInRange
  BY ServerInv, ArgInvSays, PTL

\* In such a server a path is split at its slashes, or refused because it cannot be.
THEOREM ServerSplitsPaths == Spec => []PathIsSplit
  BY ServerInv, ArgInvSays, PTL

-----------------------------------------------------------------------------
LEMMA SmallModulo == \A a, s \in Nat : a < s => a % s = a
  OBVIOUS

\* Spans of an even number of values: half of them are negative.
LEMMA SignedKeeps ==
  ASSUME NEW s \in Nat \ {0}, s % 2 = 0, NEW n \in ValuesOf(s)
  PROVE  Signed(n, s) = n
<1> DEFINE h == s \div 2
<1>1. h \in Nat /\ s = 2 * h
  OBVIOUS
<1>2. n \in Int /\ n + h \in Nat /\ n + h < s
  BY <1>1 DEF ValuesOf
<1>3. (n + h) % s = n + h
  BY <1>2, SmallModulo
<1> QED
  BY <1>1, <1>2, <1>3 DEF Signed

\* A number that a field can hold, and PB.GET show, comes back from PB.SET and PB.GET as
\* it was, through a conversion of the right width and a reply of 64 bits.
THEOREM InRangeRoundTrip ==
  ASSUME NEW k \in Kinds, NEW w \in Words, w \notin {"true", "false"},
         Leading[w] # None, Leading[w] \in Holds(k)
  PROVE  Convert(k, w) # None /\ Shown(Convert(k, w)) = Leading[w]
<1> DEFINE n == Leading[w]
<1>1. n \in Int
  BY LeadingAssumption
<1>2. /\ Span32 \in Nat /\ Span64 \in Nat /\ Span32 >= 4 /\ Span64 >= 2 * Span32
      /\ Span32 % 2 = 0 /\ Span64 % 2 = 0
  BY SpanAssumption
<1>3. n \in ValuesOf(Span64)
  BY <1>1, <1>2 DEF Holds, ValuesOf, Max64, Kinds
<1>4. Signed(n, Span64) = n
  BY <1>2, <1>3, SignedKeeps
<1>5. Convert(k, w) = n
  <2>1. CASE k = "int32"
    BY <2>1 DEF Convert, sv_to_int32, ToSigned, Holds
  <2>2. CASE k = "int64"
    BY <2>2 DEF Convert, sv_to_int64, ToSigned, Holds
  <2>3. CASE k = "uint32"
    <3>1. n \in 0..(Span32 - 1)
      BY <2>3 DEF Holds
    <3>2. n \in Nat /\ n < Span32 /\ n < Span64 /\ n \in (1 - Span64)..(Span64 - 1)
      BY <1>2, <3>1
    <3>3. n % Span64 = n /\ n % Span32 = n
      BY <1>2, <3>2, SmallModulo
    <3> QED
      BY <1>1, <2>3, <3>2, <3>3, LeadingAssumption DEF Convert, sv_to_uint32, ToUnsigned64
  <2>4. CASE k = "uint64"
    <3>1. n \in 0..Max64
      BY <2>4 DEF Holds
    <3>2. n \in Nat /\ n < Span64 /\ n \in (1 - Span64)..(Span64 - 1)
      BY <1>2, <3>1 DEF Max64
    <3>3. n % Span64 = n
      BY <1>2, <3>2, SmallModulo
    <3> QED
      BY <1>1, <2>4, <3>2, <3>3, LeadingAssumption DEF Convert, sv_to_uint64, ToUnsigned64
  <2>5. CASE k = "bool"
    <3>1. n \in {0, 1}
      BY <2>5 DEF Holds
    <3>2. n \in ValuesOf(Span32)
      BY <1>2, <3>1 DEF ValuesOf
    <3>3. sv_to_int32(w) = n /\ n # None
      BY <3>2 DEF sv_to_int32, ToSigned
    <3> QED
      BY <2>5, <3>1, <3>3 DEF Convert, sv_to_bool
  <2> QED
    BY <2>1, <2>2, <2>3, <2>4, <2>5 DEF Kinds
<1> QED
  BY <1>1, <1>4, <1>5, LeadingAssumption DEF Shown
-----------------------------------------------------------------------------
(***************************************************************************)
(* The options of PB.SET.                                                  *)
(***************************************************************************)

\* The milliseconds that the option at word i gives.
MsAt(i) == Milliseconds(Name[Arg(i)], sv_to_int64(Arg(i + 1)))

\* No expiry overflows to nothing.
NoneVanishes == \A i \in 2..(Argc - 2) : ExpiryAt(i) => MsAt(i) # 0

\* What has been read when the option loop is at word idx.
OptionsRead ==
    \/ idx = 2 /\ opt = "none" /\ expire = 0
    \/ idx = 3 /\ ConditionAt(2) /\ opt = Name[Arg(2)] /\ expire = 0
    \/ idx = 4 /\ ExpiryAt(2) /\ opt = "none" /\ expire = MsAt(2)
    \/ idx = 5 /\ ConditionAt(2) /\ ExpiryAt(3) /\ opt = Name[Arg(2)] /\ expire = MsAt(3)
    \/ idx = 5 /\ ExpiryAt(2) /\ ConditionAt(4) /\ opt = Name[Arg(4)] /\ expire = MsAt(2)

\* No option begins at word idx.
OptionsEnd == Argc - idx \in {2, 3} /\ Name[Arg(idx)] \notin OptionsOf("PB.SET")

Refused == \A p \in 2..Argc : ~SetSyntax(p)

\* The expiry is the one that was read, if one was and it is more than nothing.
ExpireRead ==
    /\ (\A i \in 2..(idx - 2) : ~ExpiryAt(i)) => expire = 0
    /\ \A i \in 2..(idx - 2) : ExpiryAt(i) /\ MsAt(i) # 0 => expire = MsAt(i)

OptInv ==
    /\ pc \in {"idle", "arity"} => opt = "none" /\ expire = 0
    /\ (call = "PB.SET" /\ pc \in {"options", "path", "parsed"}) => ExpireRead
    /\ (call = "PB.SET" /\ NoneVanishes) =>
          /\ pc \in {"options", "path", "parsed"} => OptionsRead
          /\ pc \in {"path", "parsed"} => OptionsEnd
          /\ (pc = "failed" /\ error # "path") => Refused

LEMMA OptionsAre == OptionsOf("PB.SET") = Conditions \cup Expiries
  BY DEF OptionsOf

LEMMA NoNumber ==
  ASSUME NEW w \in Words, Name[w] \in Conditions \cup Expiries
  PROVE  sv_to_int64(w) = None
  BY WordsAssumption DEF sv_to_int64, ToSigned

LEMMA ArgIsWord ==
  ASSUME argv \in Seq(Words)
  PROVE  Argc \in Nat /\ \A i \in Nat : i < Argc => Arg(i) \in Words
<1>1. Argc \in Nat
  BY DEF Argc
<1>2. \A i \in Nat : i < Argc => i + 1 \in 1..Len(argv)
  BY <1>1 DEF Argc
<1> QED
  BY <1>1, <1>2 DEF Arg

\* No option is the number behind another one.
LEMMA Behind ==
  ASSUME argv \in Seq(Words), NEW i \in Nat, ExpiryAt(i)
  PROVE  /\ i + 1 < Argc /\ Name[Arg(i)] \in Expiries /\ Name[Arg(i)] \notin Conditions
         /\ Name[Arg(i + 1)] \notin Conditions \cup Expiries
<1>1. i + 1 \in Nat /\ i + 1 < Argc
  BY DEF ExpiryAt
<1>2. Arg(i + 1) \in Words
  BY <1>1, ArgIsWord
<1> QED
  BY <1>1, <1>2, NoNumber DEF ExpiryAt, Conditions, Expiries

LEMMA SameWords ==
  ASSUME UNCHANGED argv
  PROVE  /\ Argc' = Argc /\ NoneVanishes' = NoneVanishes /\ Refused' = Refused
         /\ \A i : /\ ExpiryAt(i)' = ExpiryAt(i) /\ ConditionAt(i)' = ConditionAt(i)
                   /\ MsAt(i)' = MsAt(i) /\ Arg(i)' = Arg(i)
  BY DEF NoneVanishes, Refused, SetSyntax, OptionsUpTo, ExpiryAt, ConditionAt, MsAt, Arg, Argc

LEMMA OptUnchanged ==
  ASSUME OptInv, UNCHANGED <<call, argv, pc, idx, opt, expire, error>>
  PROVE  OptInv'
  BY SameWords DEF OptInv, ExpireRead, OptionsRead, OptionsEnd

\* An option at word idx: the words are refused when it is a second one of its kind, or an
\* expiry without a number.
LEMMA SecondRefused ==
  ASSUME argv \in Seq(Words), OptionsRead, NoneVanishes, idx < Argc,
         \/ Name[Arg(idx)] \in Conditions /\ opt # "none"
         \/ Name[Arg(idx)] \in Expiries /\ (expire # 0 \/ ~ExpiryAt(idx))
  PROVE  Refused
<1> SUFFICES ASSUME NEW p \in 2..Argc, SetSyntax(p) PROVE FALSE
  BY DEF Refused
<1>1. /\ OptionsUpTo(p) /\ Argc - p \in {2, 3}
      /\ Name[Arg(p)] \notin Conditions \cup Expiries /\ Argc \in Nat
  BY OptionsAre, ArgIsWord DEF SetSyntax
<1>2. Conditions \cap Expiries = {}
  BY DEF Conditions, Expiries
<1>3. \A i \in {2, 3} : ExpiryAt(i) =>
        /\ Name[Arg(i)] \in Expiries /\ Name[Arg(i + 1)] \notin Conditions \cup Expiries
  BY Behind
<1>4. \A i : ConditionAt(i) => Name[Arg(i)] \in Conditions
  BY DEF ConditionAt
<1>5. idx \in {2, 3, 4, 5} /\ p \in {2, 3, 4, 5}
  BY <1>1 DEF OptionsRead, OptionsUpTo
<1>6. CASE idx = 2
  <2>1. opt = "none" /\ expire = 0
    BY <1>6 DEF OptionsRead
  <2> QED
    BY <1>1, <1>2, <1>3, <1>4, <1>6, <2>1 DEF OptionsUpTo
<1>7. CASE idx = 3
  <2>1. ConditionAt(2) /\ expire = 0
    BY <1>7 DEF OptionsRead
  <2> QED
    BY <1>1, <1>2, <1>3, <1>4, <1>7, <2>1 DEF OptionsUpTo
<1>8. CASE idx = 4
  <2>1. ExpiryAt(2) /\ opt = "none" /\ expire = MsAt(2)
    BY <1>8 DEF OptionsRead
  <2> QED
    BY <1>1, <1>2, <1>3, <1>4, <1>8, <2>1 DEF OptionsUpTo
<1>9. CASE idx = 5
  <2>1. (ConditionAt(2) /\ ExpiryAt(3)) \/ (ExpiryAt(2) /\ ConditionAt(4))
    BY <1>9 DEF OptionsRead
  <2> QED
    BY <1>1, <1>2, <1>3, <1>4, <1>9, <2>1 DEF OptionsUpTo
<1> QED
  BY <1>5, <1>6, <1>7, <1>8, <1>9

\* No option at word idx: the words are refused when too few or too many follow.
LEMMA RestRefused ==
  ASSUME argv \in Seq(Words), OptionsRead, ~OptionsEnd, idx \in 2..Argc,
         ~(idx < Argc /\ Name[Arg(idx)] \in Conditions \cup Expiries)
  PROVE  Refused
<1> SUFFICES ASSUME NEW p \in 2..Argc, SetSyntax(p) PROVE FALSE
  BY DEF Refused
<1>1. /\ OptionsUpTo(p) /\ Argc - p \in {2, 3}
      /\ Name[Arg(p)] \notin Conditions \cup Expiries /\ Argc \in Nat
  BY OptionsAre, ArgIsWord DEF SetSyntax
<1>2. Conditions \cap Expiries = {}
  BY DEF Conditions, Expiries
<1>3. \A i \in {2, 3} : ExpiryAt(i) => i + 1 < Argc /\ Name[Arg(i)] \in Expiries
  BY Behind
<1>4. \A i : ConditionAt(i) => i < Argc /\ Name[Arg(i)] \in Conditions
  BY DEF ConditionAt
<1>5. idx \in {2, 3, 4, 5} /\ p \in {2, 3, 4, 5}
  BY <1>1 DEF OptionsRead, OptionsUpTo
<1>10. p # idx
  BY <1>1, OptionsAre DEF OptionsEnd
<1>6. CASE idx = 2
  BY <1>1, <1>2, <1>3, <1>4, <1>6, <1>10 DEF OptionsUpTo
<1>7. CASE idx = 3
  <2>1. ConditionAt(2)
    BY <1>7 DEF OptionsRead
  <2> QED
    BY <1>1, <1>2, <1>3, <1>4, <1>7, <1>10, <2>1 DEF OptionsUpTo
<1>8. CASE idx = 4
  <2>1. ExpiryAt(2)
    BY <1>8 DEF OptionsRead
  <2> QED
    BY <1>1, <1>2, <1>3, <1>4, <1>8, <1>10, <2>1 DEF OptionsUpTo
<1>9. CASE idx = 5
  <2>1. (ConditionAt(2) /\ ExpiryAt(3)) \/ (ExpiryAt(2) /\ ConditionAt(4))
    BY <1>9 DEF OptionsRead
  <2> QED
    BY <1>1, <1>2, <1>3, <1>4, <1>9, <1>10, <2>1 DEF OptionsUpTo
<1> QED
  BY <1>5, <1>6, <1>7, <1>8, <1>9

\* One more option.
LEMMA ConditionStep == ASSUME ArgInv, OptInv, ConditionOption PROVE OptInv'
<1>1. /\ UNCHANGED <<call, argv, expire>> /\ call = "PB.SET" /\ pc = "options" /\ idx < Argc
      /\ Name[Arg(idx)] \in Conditions
  BY DEF ConditionOption, AtOption, callVars
<1>2. argv \in Seq(Words) /\ Argc \in Nat /\ idx \in 2..Argc /\ ExpireRead
  BY <1>1, ArgIsWord DEF ArgInv, ArgType, InWords, OptInv
<1>3. CASE opt # "none"
  <2>1. pc' = "failed"
    BY <1>3 DEF ConditionOption, Fail
  <2>2. NoneVanishes => Refused
    BY <1>1, <1>2, <1>3, SecondRefused DEF OptInv
  <2> QED
    BY <1>1, <2>1, <2>2, SameWords DEF OptInv
<1>4. CASE opt = "none"
  <2>1. opt' = Name[Arg(idx)] /\ idx' = idx + 1 /\ pc' = "options"
    BY <1>1, <1>4 DEF ConditionOption
  <2>2. ~ExpiryAt(idx - 1)
    <3>1. idx - 1 \in Nat /\ (idx - 1) + 1 = idx
      BY <1>2
    <3> QED
      BY <1>1, <1>2, <3>1, Behind
  <2>3. ExpireRead'
    <3>1. \A i \in 2..(idx' - 2) : i \in 2..(idx - 2) \/ i = idx - 1
      BY <1>2, <2>1
    <3>2. 2..(idx - 2) \subseteq 2..(idx' - 2)
      BY <1>2, <2>1
    <3>3. \A i \in 2..(idx' - 2) : ExpiryAt(i) => i \in 2..(idx - 2)
      BY <2>2, <3>1
    <3> QED
      BY <1>1, <1>2, <3>2, <3>3, SameWords DEF ExpireRead
  <2>4. ASSUME NoneVanishes PROVE OptionsRead'
    <3>1. OptionsRead
      BY <1>1, <2>4 DEF OptInv
    <3>2. Name[Arg(2)] \in Conditions => Name[Arg(2)] # "none"
      BY DEF Conditions
    <3>3. ConditionAt(idx) /\ ~ (idx = 3)
      BY <1>1, <1>4, <3>1, <3>2 DEF ConditionAt, OptionsRead
    <3>4. ~ (idx = 5)
      BY <1>4, <3>1 DEF ConditionAt, OptionsRead, Conditions
    <3>5. \/ idx = 2 /\ expire = 0
          \/ idx = 4 /\ ExpiryAt(2) /\ expire = MsAt(2)
      BY <3>1, <3>3, <3>4 DEF OptionsRead
    <3> QED
      BY <1>1, <2>1, <3>3, <3>5, SameWords DEF OptionsRead
  <2> QED
    BY <1>1, <2>1, <2>3, <2>4, SameWords DEF OptInv
<1> QED
  BY <1>3, <1>4

LEMMA ExpireStep == ASSUME ArgInv, OptInv, ExpireOption PROVE OptInv'
<1>1. /\ UNCHANGED <<call, argv, opt>> /\ call = "PB.SET" /\ pc = "options" /\ idx < Argc
      /\ Name[Arg(idx)] \in Expiries
  BY DEF ExpireOption, AtOption, callVars
<1>2. argv \in Seq(Words) /\ Argc \in Nat /\ idx \in 2..Argc /\ ExpireRead
  BY <1>1, ArgIsWord DEF ArgInv, ArgType, InWords, OptInv
<1>3. CASE expire # 0 \/ ~ExpiryAt(idx)
  <2>1. pc' = "failed"
    <3>1. CASE expire # 0 \/ idx + 1 >= Argc
      BY <3>1 DEF ExpireOption, Fail
    <3>2. CASE ~(expire # 0 \/ idx + 1 >= Argc)
      <4>1. ~ExpiryAt(idx) /\ idx + 1 < Argc
        BY <1>2, <1>3, <3>2
      <4>2. sv_to_int64(Arg(idx + 1)) = None \/ ~(sv_to_int64(Arg(idx + 1)) > 0)
        BY <1>1, <4>1 DEF ExpiryAt
      <4>3. sv_to_int64(Arg(idx + 1)) = None \/ sv_to_int64(Arg(idx + 1)) <= 0
        <5>1. Arg(idx + 1) \in Words
          BY <1>2, <4>1, ArgIsWord
        <5>2. sv_to_int64(Arg(idx + 1)) = None \/ sv_to_int64(Arg(idx + 1)) \in Int
          BY <5>1, LeadingAssumption DEF sv_to_int64, ToSigned
        <5> QED
          BY <4>2, <5>2
      <4> QED
        BY <3>2, <4>3 DEF ExpireOption, Fail
    <3> QED
      BY <3>1, <3>2
  <2>2. NoneVanishes => Refused
    BY <1>1, <1>2, <1>3, SecondRefused DEF OptInv
  <2> QED
    BY <1>1, <2>1, <2>2, SameWords DEF OptInv
<1>4. CASE expire = 0 /\ ExpiryAt(idx)
  <2>1. expire' = MsAt(idx) /\ idx' = idx + 2 /\ pc' = "options"
    <3>1. idx + 1 < Argc /\ sv_to_int64(Arg(idx + 1)) # None /\ sv_to_int64(Arg(idx + 1)) > 0
      BY <1>4 DEF ExpiryAt
    <3>2. sv_to_int64(Arg(idx + 1)) \in Int
      <4>1. Arg(idx + 1) \in Words
        BY <1>2, <3>1, ArgIsWord
      <4> QED
        BY <3>1, <4>1, LeadingAssumption DEF sv_to_int64, ToSigned
    <3>3. ~(expire # 0 \/ idx + 1 >= Argc)
      BY <1>2, <1>4, <3>1
    <3>4. ~(sv_to_int64(Arg(idx + 1)) = None \/ sv_to_int64(Arg(idx + 1)) <= 0)
      BY <3>1, <3>2
    <3> QED
      BY <1>1, <3>3, <3>4 DEF ExpireOption, MsAt
  <2>2. ~ExpiryAt(idx - 1)
    <3>1. idx - 1 \in Nat /\ (idx - 1) + 1 = idx
      BY <1>2
    <3> QED
      BY <1>1, <1>2, <3>1, Behind
  <2>3. ExpireRead'
    <3>1. idx \in 2..(idx' - 2)
      BY <1>2, <2>1
    <3>2. \A i \in 2..(idx' - 2) : i \in 2..(idx - 2) \/ i = idx - 1 \/ i = idx
      BY <1>2, <2>1
    <3>3. \A i \in 2..(idx' - 2) : ExpiryAt(i) => (i \in 2..(idx - 2) \/ i = idx)
      BY <2>2, <3>2
    <3>4. \A i \in 2..(idx - 2) : ExpiryAt(i) => MsAt(i) = 0
      BY <1>2, <1>4 DEF ExpireRead
    <3> QED
      BY <1>1, <1>4, <2>1, <3>1, <3>3, <3>4, SameWords DEF ExpireRead
  <2>4. ASSUME NoneVanishes PROVE OptionsRead'
    <3>1. OptionsRead
      BY <1>1, <2>4 DEF OptInv
    <3>2. \A i \in {2, 3} : ExpiryAt(i) => MsAt(i) # 0
      <4>1. \A i \in {2, 3} : ExpiryAt(i) => i \in 2..(Argc - 2)
        BY <1>2 DEF ExpiryAt
      <4> QED
        BY <2>4, <4>1 DEF NoneVanishes
    <3>3. \/ idx = 2 /\ opt = "none"
          \/ idx = 3 /\ ConditionAt(2) /\ opt = Name[Arg(2)]
      BY <1>4, <3>1, <3>2 DEF OptionsRead
    <3> QED
      BY <1>1, <1>4, <2>1, <3>3, SameWords DEF OptionsRead
  <2> QED
    BY <1>1, <2>1, <2>3, <2>4, SameWords DEF OptInv
<1> QED
  BY <1>3, <1>4

\* The end of the options.
LEMMA EndStep == ASSUME ArgInv, OptInv, EndOptions PROVE OptInv'
<1>1. UNCHANGED <<call, argv, idx, opt, expire>> /\ pc = "options" /\ ~AtOption(OptionsOf(call))
  BY DEF EndOptions, callVars, optionVars
<1>2. \/ pc' = "failed" /\ error' # "path"
      \/ pc' \in {"parsed", "path"}
  BY DEF EndOptions, Fail, Parsed, TakePath
<1> SUFFICES ASSUME call = "PB.SET" PROVE OptInv'
  BY <1>1, <1>2 DEF OptInv
<1>3. argv \in Seq(Words) /\ Argc \in Nat /\ idx \in 2..Argc /\ ExpireRead
  BY <1>1, ArgIsWord DEF ArgInv, ArgType, InWords, OptInv
<1>4. ExpireRead'
  BY <1>1, <1>3, SameWords DEF ExpireRead
<1>5. ~(idx < Argc /\ Name[Arg(idx)] \in Conditions \cup Expiries)
  BY <1>1, OptionsAre DEF AtOption
<1>6. OptionsEnd <=> Argc - idx \in {2, 3}
  BY <1>3, <1>5, OptionsAre DEF OptionsEnd
<1>7. (pc' = "failed") <=> ~(Argc - idx \in {2, 3})
  <2> DEFINE rest == Argc - idx - 1
  <2>1. (Argc - idx \in {2, 3}) <=> (rest = 1 \/ rest = 2)
    BY <1>3
  <2>2. CASE rest = 1
    BY <2>1, <2>2 DEF EndOptions, Parsed
  <2>3. CASE rest = 2
    BY <2>1, <2>3 DEF EndOptions, TakePath
  <2>4. CASE rest # 1 /\ rest # 2
    BY <2>1, <2>4 DEF EndOptions, Fail
  <2> QED
    BY <2>2, <2>3, <2>4
<1>8. ASSUME NoneVanishes PROVE /\ OptionsRead'
                                /\ OptionsEnd => OptionsEnd'
                                /\ ~OptionsEnd => Refused
  <2>1. OptionsRead
    BY <1>1, <1>8 DEF OptInv
  <2> QED
    BY <1>1, <1>3, <1>5, <2>1, RestRefused, SameWords DEF OptionsRead, OptionsEnd
<1> QED
  BY <1>1, <1>2, <1>4, <1>6, <1>7, <1>8, SameWords DEF OptInv

LEMMA ArityStep == ASSUME ArgInv, OptInv, CheckArity PROVE OptInv'
<1>1. UNCHANGED <<call, argv, opt, expire>> /\ pc = "arity" /\ opt = "none" /\ expire = 0
  BY DEF CheckArity, callVars, OptInv
<1>2. argv \in Seq(Words) /\ Argc \in Nat
  BY ArgIsWord DEF ArgInv, ArgType
<1> SUFFICES ASSUME call = "PB.SET" PROVE OptInv'
  BY <1>1 DEF OptInv, CheckArity, Fail
<1>3. CASE EnoughWords
  <2>1. pc' = "options" /\ idx' = 2
    BY <1>3 DEF CheckArity, FirstOption
  <2>2. OptionsRead' /\ ExpireRead'
    BY <1>1, <2>1 DEF OptionsRead, ExpireRead
  <2> QED
    BY <2>1, <2>2 DEF OptInv
<1>4. CASE ~EnoughWords
  <2>1. pc' = "failed" /\ Argc < 4
    BY <1>2, <1>4 DEF CheckArity, Fail, EnoughWords
  <2>2. Refused
    BY <1>2, <2>1 DEF Refused, SetSyntax
  <2> QED
    BY <1>1, <2>1, <2>2, SameWords DEF OptInv
<1> QED
  BY <1>3, <1>4

LEMMA ParseKeepsOptions == ArgInv /\ OptInv /\ ParseStep => OptInv'
<1> SUFFICES ASSUME ArgInv, OptInv, ParseStep PROVE OptInv'
  OBVIOUS
<1>1. CASE FormatOption \/ DirOption
  BY <1>1 DEF FormatOption, DirOption, AtOption, Fail, callVars, OptInv
<1>2. CASE StartPath \/ NextChar \/ EndPath
  <2>1. /\ UNCHANGED <<call, argv, idx, opt, expire>>
        /\ pc = "path" /\ (pc' \in {"path", "parsed"} \/ (pc' = "failed" /\ error' = "path"))
    BY <1>2 DEF StartPath, NextChar, EndPath, Fail, callVars, optionVars
  <2> QED
    BY <2>1, SameWords DEF OptInv, ExpireRead, OptionsRead, OptionsEnd
<1> QED
  BY <1>1, <1>2, ConditionStep, ExpireStep, EndStep, ArityStep DEF ParseStep

\* The options asked for, when the words are taken.
LEMMA AskedIs ==
  ASSUME argv \in Seq(Words), OptionsRead
  PROVE  AskedBefore(idx) = [opt |-> opt, expire |-> expire]
<1>1. Conditions \cap Expiries = {}
  BY DEF Conditions, Expiries
<1>2. \A i \in {2, 3} : ExpiryAt(i) =>
        /\ Name[Arg(i)] \in Expiries /\ Name[Arg(i + 1)] \notin Conditions \cup Expiries
  BY Behind
<1>3. \A i \in Nat : /\ ExpiryAt(i) => Name[Arg(i)] \in Expiries
                     /\ ConditionAt(i) => Name[Arg(i)] \in Conditions
  BY DEF ConditionAt, ExpiryAt
<1> DEFINE C == {i \in 2..(idx - 1) : Name[Arg(i)] \in Conditions}
           E == {i \in 2..(idx - 2) : ExpiryAt(i)}
<1>4. AskedBefore(idx) =
        [opt    |-> IF C # {} THEN Name[Arg(CHOOSE i \in 2..(idx - 1) : Name[Arg(i)] \in Conditions)]
                    ELSE "none",
         expire |-> IF E # {} THEN MsAt(CHOOSE j \in 2..(idx - 2) : ExpiryAt(j)) ELSE 0]
  BY DEF AskedBefore, MsAt
<1>5. ASSUME C = {} PROVE AskedBefore(idx).opt = "none"
  BY <1>4, <1>5
<1>6. ASSUME NEW c, C = {c} PROVE AskedBefore(idx).opt = Name[Arg(c)]
  <2>1. (CHOOSE i \in 2..(idx - 1) : Name[Arg(i)] \in Conditions) \in C
    BY <1>6
  <2> QED
    BY <1>4, <1>6, <2>1
<1>7. ASSUME E = {} PROVE AskedBefore(idx).expire = 0
  BY <1>4, <1>7
<1>8. ASSUME NEW e, E = {e} PROVE AskedBefore(idx).expire = MsAt(e)
  <2>1. (CHOOSE i \in 2..(idx - 2) : ExpiryAt(i)) \in E
    BY <1>8
  <2> QED
    BY <1>4, <1>8, <2>1
<1>9. AskedBefore(idx) = [opt |-> AskedBefore(idx).opt, expire |-> AskedBefore(idx).expire]
  BY DEF AskedBefore
<1>10. AskedBefore(idx).opt = opt /\ AskedBefore(idx).expire = expire
  <2>1. CASE idx = 2 /\ opt = "none" /\ expire = 0
    <3>1. C = {} /\ E = {}
      BY <2>1
    <3> QED
      BY <1>5, <1>7, <2>1, <3>1
  <2>2. CASE idx = 3 /\ ConditionAt(2) /\ opt = Name[Arg(2)] /\ expire = 0
    <3>1. C = {2} /\ E = {}
      BY <1>3, <2>2
    <3> QED
      BY <1>6, <1>7, <2>2, <3>1
  <2>3. CASE idx = 4 /\ ExpiryAt(2) /\ opt = "none" /\ expire = MsAt(2)
    <3>1. C = {} /\ E = {2}
      BY <1>1, <1>2, <2>3
    <3> QED
      BY <1>5, <1>8, <2>3, <3>1
  <2>4. CASE /\ idx = 5 /\ ConditionAt(2) /\ ExpiryAt(3)
             /\ opt = Name[Arg(2)] /\ expire = MsAt(3)
    <3>1. C = {2} /\ E = {3}
      BY <1>1, <1>2, <1>3, <2>4
    <3> QED
      BY <1>6, <1>8, <2>4, <3>1
  <2>5. CASE /\ idx = 5 /\ ExpiryAt(2) /\ ConditionAt(4)
             /\ opt = Name[Arg(4)] /\ expire = MsAt(2)
    <3>1. C = {4} /\ E = {2}
      BY <1>1, <1>2, <1>3, <2>5
    <3> QED
      BY <1>6, <1>8, <2>5, <3>1
  <2> QED
    BY <2>1, <2>2, <2>3, <2>4, <2>5 DEF OptionsRead
<1> QED
  BY <1>9, <1>10

LEMMA OptInvSays == ArgInv /\ OptInv => SetSyntaxFollowed
<1> SUFFICES ASSUME ArgInv, OptInv, call = "PB.SET", NoneVanishes
             PROVE  /\ pc \in {"path", "parsed"} =>
                          SetSyntax(idx) /\ AskedBefore(idx) = [opt |-> opt, expire |-> expire]
                    /\ (pc = "failed" /\ error # "path") => Refused
  BY DEF SetSyntaxFollowed, NoneVanishes, MsAt, Refused
<1>1. ASSUME pc \in {"path", "parsed"} PROVE SetSyntax(idx)
  BY <1>1 DEF OptInv, OptionsRead, OptionsEnd, SetSyntax, OptionsUpTo
<1> QED
  BY <1>1, AskedIs DEF ArgInv, ArgType, OptInv

LEMMA NextOptions == ArgInv /\ OptInv /\ [Next]_allVars => OptInv'
<1> SUFFICES ASSUME ArgInv, OptInv, [Next]_allVars
             PROVE  OptInv'
  OBVIOUS
<1>1. ASSUME NEW l \in Lists, Begin(l[1], l[2])
      PROVE  OptInv'
  BY <1>1 DEF Begin, optionVars, OptInv
<1>2. CASE Parse
  BY <1>2, ParseKeepsOptions DEF Parse
<1>3. CASE Execute
  BY <1>3 DEF Execute, Loaded, Refuse, RunSet, RunGet, Return, OptInv
<1>4. CASE Tick \/ ExpireKey \/ Restart \/ UNCHANGED allVars
  BY <1>4, OptUnchanged DEF Tick, ExpireKey, Restart, allVars, argVars, callVars, optionVars
<1> QED
  BY <1>1, <1>2, <1>3, <1>4 DEF Next

LEMMA ServerOptions == Spec => [](ArgInv /\ OptInv)
<1>1. Init => ArgInv /\ OptInv
  BY InitInv DEF Init, Clean, OptInv
<1> QED
  BY <1>1, NextInv, NextOptions, PTL DEF Spec

\* Whatever the words of a PB.SET are: they are taken just when they are of the form that
\* README.md gives, with the options in any order, and what is kept of the options is what
\* they ask for.
THEOREM OptionsAsWritten == Spec => []SetSyntaxFollowed
  BY ServerOptions, OptInvSays, PTL

-----------------------------------------------------------------------------
(***************************************************************************)
(* The types of the server's variables and of the append-only file.        *)
(***************************************************************************)

Contents  == Int \cup {None}
Deadlines == ValuesOf(Span64) \cup {None}

Args == [opt : Conditions \cup {"none"}, expire : ValuesOf(Span64), type : Words,
         path : Words \cup {None}, fields : Seq([from : Nat, to : Nat]), val : Words]

Entries == [op : {"expired"}] \cup [op : {"set"}, args : Args]

Typed == ArgInv /\ TypeOK /\ log \in Seq(Entries)

LEMMA SignedIn ==
  ASSUME NEW n \in Int, NEW s \in Nat, s >= 4, s % 2 = 0
  PROVE  Signed(n, s) \in ValuesOf(s)
<1> DEFINE h == s \div 2
           m == (n + h) % s
<1>1. h \in Nat /\ s = 2 * h
  OBVIOUS
<1>2. m \in 0..(s - 1)
  BY <1>1
<1>3. Signed(n, s) = m - h /\ ValuesOf(s) = (-h)..(h - 1)
  BY DEF Signed, ValuesOf
<1> HIDE DEF m, h
<1> QED
  BY <1>1, <1>2, <1>3

LEMMA ConvertTyped ==
  ASSUME NEW k, NEW w \in Words
  PROVE  Convert(k, w) \in Contents
<1>1. Leading[w] \in Contents /\ Span32 \in Nat \ {0} /\ Span64 \in Nat \ {0}
  BY LeadingAssumption, SpanAssumption DEF Contents
<1>2. sv_to_int32(w) \in Contents /\ sv_to_int64(w) \in Contents
  BY <1>1 DEF sv_to_int32, sv_to_int64, ToSigned, Contents
<1>3. ToUnsigned64(w) \in Contents
  <2>1. CASE Leading[w] # None
    <3>1. Leading[w] % Span64 \in Int
      BY <1>1, <2>1 DEF Contents
    <3> QED
      BY <3>1 DEF ToUnsigned64, Contents
  <2>2. CASE Leading[w] = None
    BY <2>2 DEF ToUnsigned64, Contents
  <2> QED
    BY <2>1, <2>2
<1>4. sv_to_uint32(w) \in Contents
  <2>1. CASE ToUnsigned64(w) # None
    <3>1. ToUnsigned64(w) % Span32 \in Int
      BY <1>1, <1>3, <2>1 DEF Contents
    <3> QED
      BY <3>1 DEF sv_to_uint32, Contents
  <2>2. CASE ToUnsigned64(w) = None
    BY <2>2 DEF sv_to_uint32, Contents
  <2> QED
    BY <2>1, <2>2
<1>5. sv_to_bool(w) \in Contents
  <2>1. sv_to_bool(w) \in {0, 1, None}
    BY DEF sv_to_bool
  <2> QED
    BY <2>1 DEF Contents
<1>6. sv_to_uint64(w) \in Contents
  BY <1>3 DEF sv_to_uint64
<1> QED
  BY <1>2, <1>4, <1>5, <1>6 DEF Convert

\* The message that PB.SET with arguments a makes, or None.
Value(k, a) ==
    IF a.path = None THEN (IF a.val = "{}" THEN 0 ELSE None)
    ELSE IF IsField(a.path, a.fields) THEN Convert(k, a.val)
    ELSE None

\* What PB.SET does not do because of the key, and what it refuses.
Skips(n, a) == a.opt = (IF n = None THEN "--XX" ELSE "--NX")
Wrong(k, a) == a.type # "T" \/ Value(k, a) = None

SetDeadline(d, a, now) ==
    IF a.expire > 0 THEN DeadlineAfter(now, a.expire)
    ELSE IF a.path = None THEN None ELSE d

LEMMA SetRunIs ==
  ASSUME NEW k, NEW n, NEW d, NEW a, NEW now
  PROVE  /\ Skips(n, a) =>
              SetRun(k, n, d, a, now) = [held |-> n, deadline |-> d, reply |-> <<"set", 0>>]
         /\ (~Skips(n, a) /\ Wrong(k, a)) =>
              SetRun(k, n, d, a, now) = [held |-> n, deadline |-> d, reply |-> <<"error">>]
         /\ (~Skips(n, a) /\ ~Wrong(k, a)) =>
              SetRun(k, n, d, a, now) = [held |-> Value(k, a),
                                         deadline |-> SetDeadline(d, a, now),
                                         reply |-> <<"set", 1>>]
<1>1. CASE Skips(n, a)
  BY <1>1 DEF Skips, SetRun
<1>2. CASE ~Skips(n, a) /\ Wrong(k, a)
  BY <1>2 DEF Skips, Wrong, Value, SetRun
<1>3. CASE ~Skips(n, a) /\ ~Wrong(k, a)
  BY <1>3 DEF Skips, Wrong, Value, SetDeadline, SetRun
<1> QED
  BY <1>1, <1>2, <1>3

LEMMA ValueTyped ==
  ASSUME NEW k, NEW a \in Args
  PROVE  Value(k, a) \in Contents
<1>1. a.val \in Words
  BY DEF Args
<1>2. Convert(k, a.val) \in Contents
  BY <1>1, ConvertTyped
<1>3. 0 \in Contents /\ None \in Contents
  BY DEF Contents
<1> QED
  BY <1>2, <1>3 DEF Value

LEMMA SetDeadlineTyped ==
  ASSUME NEW a \in Args, NEW d \in Deadlines, NEW now \in Int
  PROVE  SetDeadline(d, a, now) \in Deadlines
<1>1. a.expire \in ValuesOf(Span64)
  BY DEF Args
<1>2. Span64 \in Nat /\ Span64 >= 4 /\ Span64 % 2 = 0
  BY SpanAssumption
<1>3. now + a.expire \in Int
  BY <1>1, <1>2 DEF ValuesOf
<1>4. DeadlineAfter(now, a.expire) \in ValuesOf(Span64)
  BY <1>2, <1>3, SignedIn DEF DeadlineAfter
<1> QED
  BY <1>4 DEF SetDeadline, Deadlines

LEMMA SetRunTyped ==
  ASSUME NEW k, NEW n \in Contents, NEW d \in Deadlines, NEW a \in Args, NEW now \in Int
  PROVE  /\ SetRun(k, n, d, a, now).held \in Contents
         /\ SetRun(k, n, d, a, now).deadline \in Deadlines
<1>1. CASE Skips(n, a)
  BY <1>1, SetRunIs
<1>2. CASE ~Skips(n, a) /\ Wrong(k, a)
  BY <1>2, SetRunIs
<1>3. CASE ~Skips(n, a) /\ ~Wrong(k, a)
  BY <1>3, SetRunIs, ValueTyped, SetDeadlineTyped
<1> QED
  BY <1>1, <1>2, <1>3

-----------------------------------------------------------------------------
(***************************************************************************)
(* Replaying the append-only file.                                         *)
(***************************************************************************)

\* h[i] is the key after i entries of l.
Redoes(k, l, now, n, h) ==
    h[0] = Unset /\ \A i \in 1..n : h[i] = Redone(k, h[i - 1], l[i], now)

LEMMA RedoesExist ==
  ASSUME NEW k, NEW l, NEW now, NEW N \in Nat
  PROVE  \E h : Redoes(k, l, now, N, h)
<1> DEFINE T == {n \in Nat : \E h : Redoes(k, l, now, n, h)}
<1>1. 0 \in T
  <2> DEFINE h == [i \in 0..0 |-> Unset]
  <2>1. Redoes(k, l, now, 0, h)
    BY DEF Redoes
  <2> QED
    BY <2>1
<1>2. ASSUME NEW n \in Nat, n \in T PROVE n + 1 \in T
  <2>1. PICK h : Redoes(k, l, now, n, h)
    BY <1>2
  <2> DEFINE e == [i \in 0..(n + 1) |->
                     IF i <= n THEN h[i] ELSE Redone(k, h[n], l[n + 1], now)]
  <2>2. e[0] = Unset /\ e[n + 1] = Redone(k, e[n], l[n + 1], now)
    BY <2>1 DEF Redoes
  <2>3. ASSUME NEW i \in 1..n PROVE e[i] = Redone(k, e[i - 1], l[i], now)
    BY <2>1, <2>3 DEF Redoes
  <2>4. \A i \in 1..(n + 1) : i = n + 1 \/ i \in 1..n
    OBVIOUS
  <2>5. (n + 1) - 1 = n
    OBVIOUS
  <2> HIDE DEF e
  <2>6. \A i \in 1..(n + 1) : e[i] = Redone(k, e[i - 1], l[i], now)
    BY <2>2, <2>3, <2>4, <2>5
  <2>7. Redoes(k, l, now, n + 1, e)
    BY <2>2, <2>6 DEF Redoes
  <2> QED
    BY <2>7
<1> HIDE DEF T
<1>3. N \in T
  BY <1>1, <1>2, Induct
<1> QED
  BY <1>3 DEF T

LEMMA ReplayIs ==
  ASSUME NEW k, NEW l, NEW now, Len(l) \in Nat, NEW h, Redoes(k, l, now, Len(l), h)
  PROVE  Replay(k, l, now) = h[Len(l)]
<1> DEFINE n == Len(l)
           Is(e) == e = [i \in 0..n |-> IF i = 0 THEN Unset ELSE Redone(k, e[i - 1], l[i], now)]
           f == CHOOSE e : Is(e)
           t == [i \in 0..n |-> h[i]]
<1>1. n \in Nat
  OBVIOUS
<1>2. Replay(k, l, now) = f[n]
  BY DEF Replay
<1>3. Is(t)
  <2>1. \A i \in 0..n : i = 0 \/ (i \in 1..n /\ i - 1 \in 0..n)
    BY <1>1
  <2>2. \A i \in 0..n : h[i] = IF i = 0 THEN Unset ELSE Redone(k, t[i - 1], l[i], now)
    BY <1>1, <2>1 DEF Redoes
  <2> QED
    BY <2>2, Zenon
<1>4. Is(f)
  BY <1>3
<1> HIDE DEF f
<1>5. f[0] = h[0]
  BY <1>1, <1>4 DEF Redoes
<1>6. ASSUME NEW i \in 1..n, f[i - 1] = h[i - 1] PROVE f[i] = h[i]
  <2>1. i \in 0..n /\ i # 0
    BY <1>1
  <2>2. f[i] = Redone(k, f[i - 1], l[i], now)
    BY <1>4, <2>1
  <2> QED
    BY <1>6, <2>2 DEF Redoes
<1> HIDE DEF Is, n
<1>7. f[n] = h[n]
  BY <1>1, <1>5, <1>6, Agree
<1> QED
  BY <1>2, <1>7 DEF n

LEMMA ReplayEmpty ==
  ASSUME NEW k, NEW now
  PROVE  Replay(k, <<>>, now) = Unset
<1>1. Len(<<>>) = 0
  OBVIOUS
<1>2. PICK h : Redoes(k, <<>>, now, 0, h)
  BY RedoesExist
<1>3. h[0] = Unset
  BY <1>2 DEF Redoes
<1> QED
  BY <1>1, <1>2, <1>3, ReplayIs

\* One more entry is redone on what the others give.
LEMMA ReplayAppend ==
  ASSUME NEW k, NEW l \in Seq(Entries), NEW e \in Entries, NEW now
  PROVE  Replay(k, Append(l, e), now) = Redone(k, Replay(k, l, now), e, now)
<1> DEFINE n == Len(l)
           q == Append(l, e)
<1>1. n \in Nat /\ Len(q) = n + 1 /\ q[n + 1] = e
  OBVIOUS
<1>2. \A i \in 1..n : q[i] = l[i]
  OBVIOUS
<1> HIDE DEF n, q
<1>11. n + 1 \in Nat
  BY <1>1
<1>3. PICK h : Redoes(k, q, now, n + 1, h)
  BY <1>11, RedoesExist
<1>4. \A i \in 1..n : i \in 1..(n + 1)
  BY <1>1
<1>5. Redoes(k, l, now, n, h)
  BY <1>2, <1>3, <1>4 DEF Redoes
<1>6. Replay(k, l, now) = h[n]
  BY <1>1, <1>5, ReplayIs DEF n
<1>7. n + 1 \in 1..(n + 1) /\ (n + 1) - 1 = n
  BY <1>1
<1>8. h[n + 1] = Redone(k, h[n], e, now)
  BY <1>1, <1>3, <1>7 DEF Redoes
<1>9. Len(q) \in Nat
  BY <1>1
<1>10. Replay(k, q, now) = h[n + 1]
  BY <1>1, <1>3, <1>9, ReplayIs
<1> QED
  BY <1>6, <1>8, <1>10 DEF q

LEMMA RedoneTyped ==
  ASSUME NEW k, NEW s, s.held \in Contents, s.deadline \in Deadlines, NEW e \in Entries,
         NEW now \in Int
  PROVE  /\ Redone(k, s, e, now).held \in Contents
         /\ Redone(k, s, e, now).deadline \in Deadlines
<1>1. CASE e.op = "expired"
  BY <1>1 DEF Redone, Unset, Contents, Deadlines
<1>2. CASE e.op # "expired"
  <2>1. e.args \in Args
    BY <1>2 DEF Entries
  <2> QED
    BY <1>2, <2>1, SetRunTyped DEF Redone
<1> QED
  BY <1>1, <1>2

LEMMA ReplayTyped ==
  ASSUME NEW k, NEW l \in Seq(Entries), NEW now \in Int
  PROVE  /\ Replay(k, l, now).held \in Contents
         /\ Replay(k, l, now).deadline \in Deadlines
<1> DEFINE n == Len(l)
<1>1. n \in Nat /\ \A i \in 1..n : l[i] \in Entries
  OBVIOUS
<1>2. PICK h : Redoes(k, l, now, n, h)
  BY <1>1, RedoesExist
<1> DEFINE T == {i \in 0..n : h[i].held \in Contents /\ h[i].deadline \in Deadlines}
<1> HIDE DEF n
<1>3. 0 \in T
  BY <1>1, <1>2 DEF Redoes, Unset, Contents, Deadlines
<1>4. ASSUME NEW i \in 1..n, i - 1 \in T PROVE i \in T
  <2>1. h[i] = Redone(k, h[i - 1], l[i], now) /\ l[i] \in Entries
    BY <1>1, <1>2 DEF Redoes
  <2>2. h[i].held \in Contents /\ h[i].deadline \in Deadlines
    BY <1>4, <2>1, RedoneTyped
  <2> QED
    BY <1>1, <2>2
<1> HIDE DEF T
<1>5. \A i \in 0..n : i \in T
  BY <1>1, <1>3, <1>4, InductTo
<1>6. n \in 0..n
  BY <1>1
<1>7. n \in T
  BY <1>5, <1>6
<1> QED
  BY <1>1, <1>2, <1>7, ReplayIs DEF T, n

-----------------------------------------------------------------------------
LEMMA ParsingTyped ==
  ASSUME Typed, call = "PB.SET", pc = "parsed"
  PROVE  Parsing \in Args
<1>1. argv \in Seq(Words) /\ Argc \in Nat /\ idx \in Nat /\ Argc - idx \in {2, 3}
  BY ArgIsWord DEF Typed, ArgInv, ArgType, InWords
<1>2. idx < Argc /\ Argc - 1 \in Nat /\ Argc - 1 < Argc
  BY <1>1
<1>3. Arg(idx) \in Words /\ Arg(Argc - 1) \in Words
  BY <1>1, <1>2, ArgIsWord
<1> QED
  BY <1>3 DEF Parsing, Args, Typed, TypeOK

LEMMA OpenedTyped ==
  ASSUME Typed
  PROVE  Present \in Contents /\ Until \in Deadlines /\ LogOpened \in Seq(Entries)
<1>1. [op |-> "expired"] \in Entries
  BY DEF Entries
<1> QED
  BY <1>1 DEF Typed, TypeOK, Present, Until, LogOpened, Contents, Deadlines

LEMMA AskedTyped ==
  ASSUME argv \in Seq(Words), idx \in Nat
  PROVE  AskedFor \in Int
<1>1. CASE \E i \in 2..(idx - 2) : ExpiryAt(i)
  <2> DEFINE i == CHOOSE j \in 2..(idx - 2) : ExpiryAt(j)
             n == sv_to_int64(Arg(i + 1))
  <2>1. i \in 2..(idx - 2) /\ ExpiryAt(i)
    BY <1>1
  <2>2. i + 1 \in Nat /\ i + 1 < Argc /\ n # None
    BY <2>1 DEF ExpiryAt
  <2>3. Arg(i + 1) \in Words
    BY <2>2, ArgIsWord
  <2>4. n \in Int
    BY <2>2, <2>3, LeadingAssumption DEF sv_to_int64, ToSigned
  <2>5. AskedFor = IF Name[Arg(i)] = "--EX" THEN n * Second ELSE n
    BY <1>1 DEF AskedFor
  <2> HIDE DEF i, n
  <2> QED
    BY <2>4, <2>5, SpanAssumption
<1>2. CASE ~ \E i \in 2..(idx - 2) : ExpiryAt(i)
  BY <1>2 DEF AskedFor
<1> QED
  BY <1>1, <1>2

\* What ArgInv does not say of the types.
ArgsTyped ==
    /\ call \in Calls \cup {None}
    /\ pc \in {"idle", "arity", "options", "path", "parsed", "failed", "crashed"}
    /\ opt \in Conditions \cup {"none"} /\ expire \in ValuesOf(Span64)
    /\ format \in Formats \cup {"none"} /\ dir \in Words \cup {None}
    /\ path \in Words \cup {None}

LEMMA ParseKeepsTypes ==
  ASSUME ArgInv, ArgsTyped, ParseStep
  PROVE  ArgsTyped'
<1>1. argv \in Seq(Words) /\ Argc \in Nat /\ idx \in Nat
  BY ArgIsWord DEF ArgInv, ArgType
<1>2. CASE CheckArity
  BY <1>2 DEF ArgsTyped, CheckArity, Fail, callVars, pathVars
<1>3. CASE ConditionOption
  BY <1>3 DEF ArgsTyped, ConditionOption, AtOption, Fail, callVars, pathVars
<1>4. CASE ExpireOption
  <2>1. expire' \in ValuesOf(Span64)
    <3>1. CASE UNCHANGED expire
      BY <3>1 DEF ArgsTyped
    <3>2. CASE expire' # expire
      <4> DEFINE n == sv_to_int64(Arg(idx + 1))
      <4>1. ~(idx + 1 >= Argc) /\ n # None /\ expire' = Milliseconds(Name[Arg(idx)], n)
        BY <1>4, <3>2 DEF ExpireOption, Fail
      <4>2. Arg(idx + 1) \in Words
        BY <1>1, <4>1, ArgIsWord
      <4>3. n \in ValuesOf(Span64) /\ n \in Int
        BY <4>1, <4>2, LeadingAssumption DEF sv_to_int64, ToSigned
      <4>4. n * Second \in Int /\ Span64 \in Nat /\ Span64 >= 4 /\ Span64 % 2 = 0
        BY <4>3, SpanAssumption
      <4>5. Signed(n * Second, Span64) \in ValuesOf(Span64)
        BY <4>4, SignedIn
      <4> QED
        BY <4>1, <4>3, <4>5 DEF Milliseconds
    <3> QED
      BY <3>1, <3>2
  <2> QED
    BY <1>4, <2>1 DEF ArgsTyped, ExpireOption, Fail, callVars, pathVars
<1>5. CASE FormatOption
  BY <1>5 DEF ArgsTyped, FormatOption, Fail, callVars, pathVars
<1>6. CASE DirOption
  <2>1. ASSUME idx + 1 < Argc PROVE Arg(idx + 1) \in Words
    BY <1>1, <2>1, ArgIsWord
  <2>2. dir' \in Words \cup {None}
    BY <1>6, <2>1 DEF ArgsTyped, DirOption
  <2> QED
    BY <1>6, <2>2 DEF ArgsTyped, DirOption, Fail, callVars, pathVars
<1>7. CASE EndOptions
  <2>1. ArgInv'
    BY <1>7, EndOptionsStep
  <2>2. \/ pc' \in {"failed", "parsed"} /\ UNCHANGED path
        \/ pc' = "path"
    BY <1>7 DEF EndOptions, Fail, Parsed, TakePath, pathVars
  <2>3. path' \in Words \cup {None}
    BY <2>1, <2>2 DEF ArgsTyped, ArgInv, InPath
  <2> QED
    BY <1>7, <2>2, <2>3 DEF ArgsTyped, EndOptions, callVars, optionVars
<1>8. CASE StartPath \/ NextChar \/ EndPath
  BY <1>8 DEF ArgsTyped, StartPath, NextChar, EndPath, Fail, callVars, optionVars
<1> QED
  BY <1>2, <1>3, <1>4, <1>5, <1>6, <1>7, <1>8 DEF ParseStep

LEMMA ReturnTyped ==
  ASSUME Return
  PROVE  ArgsTyped'
<1>1. 0 \in ValuesOf(Span64)
  BY SpanAssumption DEF ValuesOf
<1> QED
  BY <1>1 DEF Return, ArgsTyped

\* The types of the rest.
KeyTyped ==
    /\ kind \in Kinds /\ clock \in 0..MaxClock
    /\ held \in Contents /\ deadline \in Deadlines
    /\ calls \in 0..MaxCalls /\ restarts \in 0..MaxRestarts
    /\ made \in BOOLEAN /\ given \in Words \cup {None} /\ due \in Int \cup {None}
    /\ log \in Seq(Entries)

LEMMA TypedIs == Typed <=> ArgInv /\ ArgsTyped /\ KeyTyped
  BY DEF Typed, TypeOK, ArgsTyped, KeyTyped, ArgInv, ArgType, Contents, Deadlines

LEMMA SetTyped == ASSUME Typed, RunSet PROVE KeyTyped'
<1> DEFINE r == SetRun(kind, Present, Until, Parsing, clock)
<1>1. call = "PB.SET" /\ pc = "parsed"
  BY DEF RunSet
<1>2. KeyTyped /\ clock \in Int
  BY TypedIs, BoundsAssumption DEF KeyTyped
<1>3. /\ Parsing \in Args /\ Present \in Contents /\ Until \in Deadlines
      /\ LogOpened \in Seq(Entries)
  BY <1>1, ParsingTyped, OpenedTyped
<1>4. r.held \in Contents /\ r.deadline \in Deadlines
  BY <1>2, <1>3, SetRunTyped
<1>5. [op |-> "set", args |-> Parsing] \in Entries
  BY <1>3 DEF Entries
<1> HIDE DEF r
<1>6. /\ held' = r.held /\ deadline' = r.deadline
      /\ log' = LogOpened \/ log' = Append(LogOpened, [op |-> "set", args |-> Parsing])
      /\ \/ UNCHANGED historyVars
         \/ /\ made' = TRUE
            /\ given' = IF path = None THEN None ELSE Arg(Argc - 1)
            /\ due' = DueAfter(Parsing, AskedFor)
      /\ UNCHANGED <<kind, clock, calls, restarts>>
  BY DEF RunSet, r
<1>7. log' \in Seq(Entries)
  BY <1>3, <1>5, <1>6
<1>8. given' \in Words \cup {None}
  BY <1>2, <1>3, <1>6 DEF KeyTyped, historyVars, Parsing, Args
<1>9. due' \in Int \cup {None}
  <2>1. AskedFor \in Int
    BY AskedTyped DEF Typed, ArgInv, ArgType
  <2>2. DueAfter(Parsing, AskedFor) \in Int \cup {None}
    BY <1>2, <2>1 DEF DueAfter, KeyTyped
  <2> QED
    BY <1>2, <1>6, <2>2 DEF KeyTyped, historyVars
<1> QED
  BY <1>2, <1>4, <1>6, <1>7, <1>8, <1>9 DEF KeyTyped, historyVars

LEMMA NextTyped == Typed /\ [Next]_allVars => Typed'
<1> SUFFICES ASSUME Typed, [Next]_allVars PROVE Typed'
  OBVIOUS
<1> SUFFICES ArgsTyped' /\ KeyTyped'
  <2>1. ArgInv'
    BY NextInv DEF Typed
  <2> QED
    BY <2>1 DEF Typed, TypeOK, ArgsTyped, KeyTyped, ArgInv, ArgType, Contents, Deadlines
<1>1. ArgInv /\ ArgsTyped /\ KeyTyped
  BY TypedIs
<1>2. ASSUME NEW l \in Lists, Begin(l[1], l[2])
      PROVE  ArgsTyped' /\ KeyTyped'
  <2>1. l[1] \in Calls
    BY ListsAssumption
  <2>2. /\ call' = l[1] /\ pc' = "arity" /\ calls < MaxCalls /\ calls' = calls + 1
        /\ UNCHANGED <<opt, expire, format, dir, path>>
        /\ UNCHANGED <<kind, clock, held, deadline, restarts, made, given, due, log>>
    BY <1>2 DEF Begin, optionVars, pathVars, keyVars, historyVars
  <2>3. calls' \in 0..MaxCalls
    BY <1>1, <2>2, BoundsAssumption DEF KeyTyped
  <2> QED
    BY <1>1, <2>1, <2>2, <2>3 DEF ArgsTyped, KeyTyped
<1>3. CASE Parse
  BY <1>1, <1>3, ParseKeepsTypes DEF Parse, KeyTyped, keyVars, historyVars, outerVars
<1>4. CASE Loaded \/ Refuse
  BY <1>1, <1>4, ReturnTyped DEF Loaded, Refuse, KeyTyped, keyVars, historyVars, outerVars
<1>5. CASE RunSet
  BY <1>5, SetTyped, ReturnTyped DEF RunSet
<1>6. CASE RunGet
  BY <1>1, <1>6, ReturnTyped, OpenedTyped DEF RunGet, KeyTyped, historyVars
<1>7. CASE Tick
  <2>1. clock' \in 0..MaxClock
    BY <1>1, <1>7, BoundsAssumption DEF Tick, KeyTyped
  <2> QED
    BY <1>1, <1>7, <2>1
       DEF Tick, ArgsTyped, KeyTyped, argVars, callVars, optionVars, pathVars, keyVars, historyVars
<1>8. CASE ExpireKey
  <2>1. held' = None /\ deadline' = None /\ log' = LogOpened
    BY <1>8 DEF ExpireKey
  <2> QED
    BY <1>1, <1>8, <2>1, OpenedTyped
       DEF ExpireKey, ArgsTyped, KeyTyped, argVars, callVars, optionVars, pathVars, historyVars,
           Contents, Deadlines
<1>9. CASE Restart
  <2>1. restarts' \in 0..MaxRestarts /\ clock \in Int
    BY <1>1, <1>9, BoundsAssumption DEF Restart, KeyTyped
  <2>2. held' = Replay(kind, log, clock).held /\ deadline' = Replay(kind, log, clock).deadline
    BY <1>9 DEF Restart, Replayed
  <2>3. held' \in Contents /\ deadline' \in Deadlines
    BY <1>1, <2>1, <2>2, ReplayTyped DEF KeyTyped
  <2> QED
    BY <1>1, <1>9, <2>1, <2>3
       DEF Restart, ArgsTyped, KeyTyped, argVars, callVars, optionVars, pathVars, historyVars
<1>10. CASE UNCHANGED allVars
  BY <1>1, <1>10
     DEF allVars, ArgsTyped, KeyTyped, argVars, callVars, optionVars, pathVars, keyVars,
         historyVars, outerVars
<1> QED
  BY <1>2, <1>3, <1>4, <1>5, <1>6, <1>7, <1>8, <1>9, <1>10 DEF Next, Execute

LEMMA InitTyped == Init => Typed
<1>1. 0 \in ValuesOf(Span64) /\ <<>> \in Seq(Entries)
  BY SpanAssumption DEF ValuesOf
<1>2. Init => ArgsTyped
  BY <1>1 DEF Init, Clean, ArgsTyped, Calls
<1>3. ASSUME Init PROVE KeyTyped
  <2>1. /\ kind \in Kinds /\ clock = 0 /\ held = None /\ deadline = None /\ log = <<>>
        /\ calls = 0 /\ restarts = 0 /\ made = FALSE /\ given = None /\ due = None
    BY <1>3 DEF Init
  <2>2. 0 \in 0..MaxClock /\ 0 \in 0..MaxCalls /\ 0 \in 0..MaxRestarts
    BY BoundsAssumption
  <2> QED
    BY <1>1, <2>1, <2>2 DEF KeyTyped, Contents, Deadlines
<1> QED
  BY <1>2, <1>3, InitInv, TypedIs

LEMMA ServerTyped == Spec => []Typed
  BY InitTyped, NextTyped, PTL DEF Spec

\* Whatever clients send and whenever the server is restarted: a field holds a number or
\* nothing, a deadline is one of 64 bits, and the arguments are what the parsers may give,
\* with an expiry that has wrapped around but never left its width.
THEOREM ServerTypes == Spec => []TypeOK
  BY ServerTyped, PTL DEF Typed

-----------------------------------------------------------------------------
(***************************************************************************)
(* The append-only file and the key.                                       *)
(***************************************************************************)

\* Whenever it is replayed, file l gives content h, and no deadline where there is no key.
Restores(k, l, h) ==
    \A now : /\ Replay(k, l, now).held = h
             /\ h = None => Replay(k, l, now).deadline = None

RestoresInv == Restores(kind, log, held) /\ (held = None => deadline = None)

\* Neither the deadline nor the time matters for the content.
LEMMA HeldAlone ==
  ASSUME NEW k, NEW n, NEW a, NEW d, NEW now, NEW e, NEW later
  PROVE  /\ SetRun(k, n, d, a, now).held = SetRun(k, n, e, a, later).held
         /\ SetRun(k, n, d, a, now).reply = SetRun(k, n, e, a, later).reply
<1>1. CASE Skips(n, a)
  BY <1>1, SetRunIs
<1>2. CASE ~Skips(n, a) /\ Wrong(k, a)
  BY <1>2, SetRunIs
<1>3. CASE ~Skips(n, a) /\ ~Wrong(k, a)
  BY <1>3, SetRunIs
<1> QED
  BY <1>1, <1>2, <1>3

LEMMA NoKeyNoDeadline ==
  ASSUME NEW k, NEW n, NEW d, n = None => d = None, NEW a, NEW now,
         SetRun(k, n, d, a, now).held = None
  PROVE  SetRun(k, n, d, a, now).deadline = None
<1>1. CASE Skips(n, a)
  BY <1>1, SetRunIs
<1>2. CASE ~Skips(n, a) /\ Wrong(k, a)
  BY <1>2, SetRunIs
<1>3. CASE ~Skips(n, a) /\ ~Wrong(k, a)
  BY <1>3, SetRunIs DEF Wrong
<1> QED
  BY <1>1, <1>2, <1>3

LEMMA Opened ==
  ASSUME Typed, RestoresInv
  PROVE  /\ Restores(kind, LogOpened, Present)
         /\ Present = None => Until = None
         /\ Present # None => LogOpened = log /\ Present = held /\ Until = deadline
<1>1. CASE Expired
  <2> DEFINE e == [op |-> "expired"]
  <2>1. e \in Entries /\ e.op = "expired"
    BY DEF Entries
  <2>2. log \in Seq(Entries) /\ LogOpened = Append(log, e)
    BY <1>1 DEF Typed, LogOpened
  <2> HIDE DEF e
  <2>3. \A now : Replay(kind, LogOpened, now) = Redone(kind, Replay(kind, log, now), e, now)
    BY <2>1, <2>2, ReplayAppend
  <2>4. \A now : Replay(kind, LogOpened, now) = Unset
    BY <2>1, <2>3 DEF Redone
  <2> QED
    BY <1>1, <2>4 DEF Restores, Unset, Present, Until
<1>2. CASE ~Expired
  BY <1>2 DEF RestoresInv, LogOpened, Present, Until
<1> QED
  BY <1>1, <1>2

\* The entry that PB.SET with arguments a leaves does again what was done.
LEMMA SetRestores ==
  ASSUME NEW k, NEW l \in Seq(Entries), NEW n, Restores(k, l, n), NEW a \in Args,
         NEW d, NEW time
  PROVE  LET q == Append(l, [op |-> "set", args |-> a]) IN
         /\ \A now : Replay(k, q, now) = SetRun(k, n, Replay(k, l, now).deadline, a, now)
         /\ Restores(k, q, SetRun(k, n, d, a, time).held)
<1> DEFINE e == [op |-> "set", args |-> a]
           q == Append(l, e)
           m == SetRun(k, n, d, a, time).held
<1>1. e \in Entries /\ e.op # "expired" /\ e.args = a
  BY DEF Entries
<1> HIDE DEF e, m
<1>2. \A now : Replay(k, q, now) = Redone(k, Replay(k, l, now), e, now)
  BY <1>1, ReplayAppend
<1>3. \A now : Replay(k, q, now)
                 = SetRun(k, Replay(k, l, now).held, Replay(k, l, now).deadline, a, now)
  BY <1>1, <1>2 DEF Redone
<1>4. \A now : Replay(k, q, now) = SetRun(k, n, Replay(k, l, now).deadline, a, now)
  BY <1>3 DEF Restores
<1>5. ASSUME NEW now
      PROVE  /\ Replay(k, q, now).held = m
             /\ m = None => Replay(k, q, now).deadline = None
  <2>1. Replay(k, q, now).held = m
    BY <1>4, HeldAlone DEF m
  <2>2. n = None => Replay(k, l, now).deadline = None
    BY DEF Restores
  <2> QED
    BY <1>4, <2>1, <2>2, NoKeyNoDeadline
<1> HIDE DEF q
<1>6. Restores(k, q, m)
  BY <1>5 DEF Restores
<1> QED
  BY <1>4, <1>6 DEF q, e, m

LEMMA SetKeepsFile == ASSUME Typed, RestoresInv, RunSet PROVE RestoresInv'
<1> DEFINE r == SetRun(kind, Present, Until, Parsing, clock)
           e == [op |-> "set", args |-> Parsing]
<1>1. /\ held' = r.held /\ deadline' = r.deadline /\ kind' = kind
      /\ log' = IF r.reply = <<"error">> THEN LogOpened ELSE Append(LogOpened, e)
      /\ call = "PB.SET" /\ pc = "parsed"
  BY DEF RunSet
<1>2. Parsing \in Args /\ LogOpened \in Seq(Entries)
  BY <1>1, ParsingTyped, OpenedTyped
<1>3. Restores(kind, LogOpened, Present) /\ (Present = None => Until = None)
  BY Opened
<1>4. held' = None => deadline' = None
  BY <1>1, <1>3, NoKeyNoDeadline
<1>5. CASE r.reply = <<"error">>
  <2>1. held' = Present /\ log' = LogOpened
    <3>1. CASE Skips(Present, Parsing)
      BY <1>1, <1>5, <3>1, SetRunIs
    <3>2. CASE ~Skips(Present, Parsing) /\ Wrong(kind, Parsing)
      BY <1>1, <1>5, <3>2, SetRunIs
    <3>3. CASE ~Skips(Present, Parsing) /\ ~Wrong(kind, Parsing)
      BY <1>1, <1>5, <3>3, SetRunIs
    <3> QED
      BY <3>1, <3>2, <3>3
  <2> QED
    BY <1>1, <1>3, <1>4, <2>1 DEF RestoresInv
<1>6. CASE r.reply # <<"error">>
  <2>1. log' = Append(LogOpened, e)
    BY <1>1, <1>6
  <2>2. Restores(kind, Append(LogOpened, e), r.held)
    BY <1>2, <1>3, SetRestores
  <2> QED
    BY <1>1, <1>4, <2>1, <2>2 DEF RestoresInv
<1> QED
  BY <1>5, <1>6

LEMMA NextRestores == Typed /\ RestoresInv /\ [Next]_allVars => RestoresInv'
<1> SUFFICES ASSUME Typed, RestoresInv, [Next]_allVars PROVE RestoresInv'
  OBVIOUS
<1>1. CASE UNCHANGED <<kind, log, held, deadline>>
  BY <1>1 DEF RestoresInv
<1>2. CASE RunGet \/ ExpireKey
  <2>1. kind' = kind /\ held' = Present /\ deadline' = Until /\ log' = LogOpened
    BY <1>2 DEF RunGet, ExpireKey, Present, Until
  <2> QED
    BY <2>1, Opened DEF RestoresInv
<1>3. CASE Restart
  <2>1. /\ kind' = kind /\ log' = log /\ held' = Replay(kind, log, clock).held
        /\ deadline' = Replay(kind, log, clock).deadline
    BY <1>3 DEF Restart, Replayed
  <2> QED
    BY <2>1 DEF RestoresInv, Restores
<1> QED
  BY <1>1, <1>2, <1>3, SetKeepsFile
     DEF Next, Begin, Parse, Execute, Loaded, Refuse, Tick, allVars, keyVars, outerVars

LEMMA ServerRestores == Spec => [](Typed /\ RestoresInv)
<1>1. Init => RestoresInv
  <2>1. ASSUME Init PROVE log = <<>> /\ held = None /\ deadline = None
    BY <2>1 DEF Init
  <2> QED
    BY <2>1, ReplayEmpty DEF RestoresInv, Restores, Unset
<1>2. Init => Typed
  BY InitTyped
<1>3. Typed /\ [Next]_allVars => Typed'
  BY NextTyped
<1> QED
  BY <1>1, <1>2, <1>3, NextRestores, PTL DEF Spec

\* However many commands have run and at whatever time the server is started again: the
\* append-only file gives the number the key held, and no key where there was none.  What
\* PB.SET makes of the words and of the key before does not depend on the clock.
THEOREM FileRestores == Spec => []ReplayRestores
<1>1. RestoresInv => ReplayRestores
  BY DEF RestoresInv, Restores, ReplayRestores, Replayed
<1> QED
  BY <1>1, ServerRestores, PTL

-----------------------------------------------------------------------------
(***************************************************************************)
(* Numbers.                                                                *)
(***************************************************************************)

NumbersInv ==
    (given # None /\ Leading[given] \in Holds(kind)) =>
        /\ held # None => Shown(held) = Leading[given]
        /\ (reply # <<>> /\ reply[1] = "number") => reply[2] = Leading[given]

LEMMA InRange ==
  ASSUME NEW w \in Words, NEW k \in Kinds, Leading[w] \in Holds(k)
  PROVE  Leading[w] # None /\ w \notin {"true", "false"}
<1>1. Holds(k) \subseteq Int
  BY SpanAssumption DEF Holds, ValuesOf, Max64
<1> QED
  BY <1>1, LeadingAssumption

LEMMA SetKeepsNumbers == ASSUME Typed, NumbersInv, RunSet PROVE NumbersInv'
<1> DEFINE r == SetRun(kind, Present, Until, Parsing, clock)
<1>1. /\ held' = r.held /\ kind' = kind /\ reply' = r.reply
      /\ call = "PB.SET" /\ pc = "parsed"
      /\ IF r.reply = <<"set", 1>>
         THEN given' = IF path = None THEN None ELSE Arg(Argc - 1)
         ELSE given' = given
  BY DEF RunSet, historyVars
<1>2. Parsing \in Args /\ Parsing.path = path /\ Parsing.val = Arg(Argc - 1)
  BY <1>1, ParsingTyped DEF Parsing
<1>3. kind \in Kinds /\ given \in Words \cup {None}
  BY DEF Typed, TypeOK
<1>4. reply' # <<>> => reply'[1] # "number"
  <2>1. reply' \in {<<"set", 0>>, <<"error">>, <<"set", 1>>}
    <3>1. CASE Skips(Present, Parsing)
      BY <1>1, <3>1, SetRunIs
    <3>2. CASE ~Skips(Present, Parsing) /\ Wrong(kind, Parsing)
      BY <1>1, <3>2, SetRunIs
    <3>3. CASE ~Skips(Present, Parsing) /\ ~Wrong(kind, Parsing)
      BY <1>1, <3>3, SetRunIs
    <3> QED
      BY <3>1, <3>2, <3>3
  <2> QED
    BY <2>1
<1>5. ASSUME given' # None, Leading[given'] \in Holds(kind), held' # None
      PROVE  Shown(held') = Leading[given']
  <2>1. CASE Skips(Present, Parsing) \/ Wrong(kind, Parsing)
    <3>1. held' = Present /\ given' = given
      <4>1. CASE Skips(Present, Parsing)
        BY <1>1, <4>1, SetRunIs
      <4>2. CASE ~Skips(Present, Parsing) /\ Wrong(kind, Parsing)
        BY <1>1, <4>2, SetRunIs
      <4> QED
        BY <2>1, <4>1, <4>2
    <3>2. held' = held
      BY <1>5, <3>1 DEF Present
    <3> QED
      BY <1>5, <3>1, <3>2 DEF NumbersInv
  <2>2. CASE ~Skips(Present, Parsing) /\ ~Wrong(kind, Parsing)
    <3>1. held' = Value(kind, Parsing) /\ r.reply = <<"set", 1>>
      BY <1>1, <2>2, SetRunIs
    <3>2. path # None /\ given' = Parsing.val
      BY <1>1, <1>2, <1>5, <3>1
    <3>3. held' = Convert(kind, Parsing.val)
      BY <1>2, <1>5, <3>1, <3>2 DEF Value
    <3>4. Parsing.val \in Words
      BY <1>2 DEF Args
    <3> QED
      BY <1>3, <1>5, <3>2, <3>3, <3>4, InRange, InRangeRoundTrip
  <2> QED
    BY <2>1, <2>2
<1> QED
  BY <1>1, <1>4, <1>5 DEF NumbersInv

LEMMA NextNumbers == Typed /\ RestoresInv /\ NumbersInv /\ [Next]_allVars => NumbersInv'
<1> SUFFICES ASSUME Typed, RestoresInv, NumbersInv, [Next]_allVars PROVE NumbersInv'
  OBVIOUS
<1>1. CASE UNCHANGED <<kind, held, given, reply>>
  BY <1>1 DEF NumbersInv
<1>2. CASE Refuse
  <2>1. UNCHANGED <<kind, held, given>> /\ reply' = <<"error">>
    BY <1>2 DEF Refuse, keyVars, historyVars
  <2> QED
    BY <2>1 DEF NumbersInv
<1>3. CASE RunGet
  <2>1. UNCHANGED <<kind, given>> /\ held' = Present /\ reply' = GetReply
    BY <1>3 DEF RunGet, historyVars
  <2>2. held' # None => held' = held
    BY <2>1 DEF Present
  <2>3. ASSUME reply' # <<>>, reply'[1] = "number"
        PROVE  held # None /\ reply'[2] = Shown(held)
    <3>1. reply' = <<"number", Shown(Present)>> /\ Present # None
      BY <2>1, <2>3 DEF GetReply
    <3> QED
      BY <2>1, <2>2, <3>1
  <2> QED
    BY <2>1, <2>2, <2>3 DEF NumbersInv
<1>4. CASE ExpireKey
  <2>1. UNCHANGED <<kind, given, reply>> /\ held' = None
    BY <1>4 DEF ExpireKey, historyVars
  <2> QED
    BY <2>1 DEF NumbersInv
<1>5. CASE Restart
  <2>1. UNCHANGED <<kind, given, reply>> /\ held' = Replay(kind, log, clock).held
    BY <1>5 DEF Restart, Replayed, historyVars
  <2>2. held' = held
    BY <2>1 DEF RestoresInv, Restores
  <2> QED
    BY <1>1, <2>1, <2>2
<1> QED
  BY <1>1, <1>2, <1>3, <1>4, <1>5, SetKeepsNumbers
     DEF Next, Begin, Parse, Execute, Loaded, Tick, allVars, keyVars, outerVars, historyVars

\* A number in the range of its field is what PB.GET replies, after however many commands
\* that were refused or did nothing, reads, and restarts in between.
THEOREM ServerKeepsNumbers == Spec => []NumbersInRangeKept
<1>1. Init => NumbersInv
  BY DEF Init, NumbersInv
<1>2. NumbersInv => NumbersInRangeKept
  BY DEF NumbersInv, NumbersInRangeKept, Present
<1> QED
  BY <1>1, <1>2, NextNumbers, ServerRestores, PTL DEF Spec

-----------------------------------------------------------------------------
(***************************************************************************)
(* Expiry.                                                                 *)
(***************************************************************************)

\* At time now, file l gives no deadline before due.
NotBefore(k, l, now) ==
    LET s == Replay(k, l, now) IN s.held # None => s.deadline # None /\ s.deadline >= due

\* A key is due when its deadline is, unless a replay has put it off; and it has been there
\* since it was made if it is not due.
ExpiryInv ==
    /\ ~made => held = None /\ due = None
    /\ (made /\ due = None) =>
          held # None /\ deadline = None /\ \A now : Replay(kind, log, now).deadline = None
    /\ (due # None /\ due + clock <= Max64) =>
          /\ \/ held # None /\ deadline # None /\ deadline >= due /\ (restarts = 0 => deadline = due)
             \/ held = None /\ clock > due
          /\ \A now \in Nat : (now >= clock /\ due + now <= Max64) => NotBefore(kind, log, now)

\* The expiry of a PB.SET is the one asked for, if that fits into 64 bits.
LEMMA AskedExpiry ==
  ASSUME Typed, OptInv, call = "PB.SET", pc = "parsed"
  PROVE  /\ AskedFor \in Nat
         /\ AskedFor = 0 => expire = 0
         /\ (AskedFor # 0 /\ AskedFor <= Max64) => expire = AskedFor
<1>1. argv \in Seq(Words) /\ ExpireRead
  BY DEF Typed, ArgInv, ArgType, OptInv
<1>2. CASE \E i \in 2..(idx - 2) : ExpiryAt(i)
  <2> DEFINE i == CHOOSE j \in 2..(idx - 2) : ExpiryAt(j)
             n == sv_to_int64(Arg(i + 1))
  <2>1. i \in 2..(idx - 2) /\ ExpiryAt(i)
    BY <1>2
  <2>2. i + 1 \in Nat /\ i + 1 < Argc /\ n # None /\ n > 0
    BY <2>1 DEF ExpiryAt
  <2>3. n \in ValuesOf(Span64) /\ n \in Int
    <3>1. Arg(i + 1) \in Words
      BY <1>1, <2>2, ArgIsWord
    <3> QED
      BY <2>2, <3>1, LeadingAssumption DEF sv_to_int64, ToSigned
  <2>4. AskedFor = IF Name[Arg(i)] = "--EX" THEN n * Second ELSE n
    BY <1>2 DEF AskedFor
  <2>5. MsAt(i) # 0 => expire = MsAt(i)
    BY <1>1, <2>1 DEF ExpireRead
  <2>6. MsAt(i) = IF Name[Arg(i)] = "--EX" THEN Signed(n * Second, Span64) ELSE n
    BY DEF MsAt, Milliseconds
  <2> HIDE DEF i, n
  <2>7. n * Second \in Nat \ {0}
    <3>1. Second \in Nat \ {0} /\ n \in Nat \ {0}
      BY <2>2, <2>3, SpanAssumption
    <3> QED
      BY <3>1
  <2>8. AskedFor \in Nat \ {0}
    BY <2>2, <2>3, <2>4, <2>7
  <2>9. ASSUME AskedFor <= Max64 PROVE MsAt(i) = AskedFor
    <3>1. CASE Name[Arg(i)] = "--EX"
      <4>1. /\ n * Second <= Max64 /\ n * Second \in Nat
            /\ Span64 \in Nat \ {0} /\ Span64 % 2 = 0
        BY <2>4, <2>7, <2>9, <3>1, SpanAssumption
      <4>2. n * Second \in ValuesOf(Span64)
        BY <4>1 DEF ValuesOf, Max64
      <4>3. Signed(n * Second, Span64) = n * Second
        BY <4>1, <4>2, SignedKeeps
      <4> QED
        BY <2>4, <2>6, <3>1, <4>3
    <3>2. CASE Name[Arg(i)] # "--EX"
      BY <2>4, <2>6, <3>2
    <3> QED
      BY <3>1, <3>2
  <2> QED
    BY <2>5, <2>8, <2>9
<1>3. CASE ~ \E i \in 2..(idx - 2) : ExpiryAt(i)
  BY <1>1, <1>3 DEF AskedFor, ExpireRead
<1> QED
  BY <1>2, <1>3

\* A command or Redis itself looks at the key, and a key past its deadline goes.
LEMMA LookExpiry ==
  ASSUME Typed, RestoresInv, ExpiryInv, held' = Present, deadline' = Until,
         \A now : /\ Replay(kind', log', now).held = Replay(kind, LogOpened, now).held
                  /\ Replay(kind', log', now).deadline = Replay(kind, LogOpened, now).deadline,
         UNCHANGED <<clock, restarts, made, due>>
  PROVE  ExpiryInv'
<1>1. CASE Expired
  <2>1. held' = None /\ deadline' = None /\ held # None /\ deadline # None /\ deadline < clock
    BY <1>1 DEF Expired, Present, Until
  <2>2. \A now : Replay(kind', log', now).held = None
    <3>1. Present = None
      BY <1>1 DEF Present
    <3> QED
      BY <3>1, Opened DEF Restores
  <2>3. clock \in Int /\ deadline \in Int /\ (due = None \/ due \in Int)
    BY <2>1, BoundsAssumption, SpanAssumption DEF Typed, TypeOK, ValuesOf
  <2>4. made /\ due # None
    BY <2>1 DEF ExpiryInv
  <2>5. due + clock <= Max64 => clock > due
    BY <2>1, <2>3, <2>4 DEF ExpiryInv
  <2>6. \A now : NotBefore(kind, log, now)'
    BY <2>2 DEF NotBefore
  <2> QED
    BY <2>1, <2>4, <2>5, <2>6 DEF ExpiryInv
<1>2. CASE ~Expired
  <2>1. held' = held /\ deadline' = deadline /\ LogOpened = log
    BY <1>2 DEF Present, Until, LogOpened
  <2>2. \A now : /\ Replay(kind', log', now).held = Replay(kind, log, now).held
                 /\ Replay(kind', log', now).deadline = Replay(kind, log, now).deadline
    BY <2>1
  <2>3. \A now : NotBefore(kind, log, now)' = NotBefore(kind, log, now)
    BY <2>2 DEF NotBefore
  <2> QED
    BY <2>1, <2>2, <2>3 DEF ExpiryInv
<1> QED
  BY <1>1, <1>2

\* A PB.SET that sets.
LEMMA SetExpiry ==
  ASSUME Typed, OptInv, RestoresInv, ExpiryInv, RunSet,
         ~Skips(Present, Parsing), ~Wrong(kind, Parsing)
  PROVE  ExpiryInv'
<1> DEFINE a == Parsing
           n == AskedFor
           r == SetRun(kind, Present, Until, a, clock)
           q == Append(LogOpened, [op |-> "set", args |-> a])
<1>1. call = "PB.SET" /\ pc = "parsed" /\ UNCHANGED <<kind, clock, restarts>>
  BY DEF RunSet
<1>2. r = [held |-> Value(kind, a), deadline |-> SetDeadline(Until, a, clock),
           reply |-> <<"set", 1>>]
  BY SetRunIs
<1>3. /\ held' = Value(kind, a) /\ deadline' = SetDeadline(Until, a, clock)
      /\ log' = q /\ made' = TRUE /\ due' = DueAfter(a, n)
  BY <1>2 DEF RunSet
<1>4. a \in Args /\ a.path = path /\ a.expire = expire /\ LogOpened \in Seq(Entries)
  BY <1>1, ParsingTyped, OpenedTyped DEF Parsing
<1>5. /\ Restores(kind, LogOpened, Present)
      /\ Present = None => Until = None
      /\ Present # None => LogOpened = log /\ Present = held /\ Until = deadline
  BY Opened
<1>6. /\ n \in Nat
      /\ n = 0 => expire = 0
      /\ (n # 0 /\ n <= Max64) => expire = n
  BY <1>1, AskedExpiry
<1>7. /\ clock \in Nat /\ Span64 \in Nat \ {0} /\ Span64 % 2 = 0 /\ None \notin Int
      /\ due = None \/ due \in Int
  BY BoundsAssumption, SpanAssumption, LeadingAssumption DEF Typed, TypeOK
<1>8. held' # None
  BY <1>3 DEF Wrong
<1> HIDE DEF r, a, n, q
<1>9. \A now : /\ Replay(kind', log', now).held # None
               /\ Replay(kind', log', now).deadline
                     = SetDeadline(Replay(kind, LogOpened, now).deadline, a, now)
  <2>1. \A now : Replay(kind, q, now)
                   = SetRun(kind, Present, Replay(kind, LogOpened, now).deadline, a, now)
    BY <1>4, <1>5, SetRestores DEF q
  <2>2. \A d, now : SetRun(kind, Present, d, a, now)
                      = [held |-> Value(kind, a), deadline |-> SetDeadline(d, a, now),
                         reply |-> <<"set", 1>>]
    BY SetRunIs DEF a
  <2>3. Value(kind, a) # None
    BY <1>3, <1>8
  <2> QED
    BY <1>1, <1>3, <2>1, <2>2, <2>3
<1>10. CASE n # 0
  <2>1. due' = clock + n /\ due' \in Int /\ due' # None
    BY <1>3, <1>6, <1>7, <1>10 DEF DueAfter
  <2>2. ASSUME NEW now \in Nat, due' + now <= Max64, NEW d
        PROVE  SetDeadline(d, a, now) = now + n
    <3>5. Max64 \in Int
      BY <1>7 DEF Max64
    <3>1. n <= Max64 /\ now + n \in Nat /\ now + n <= Max64
      BY <1>6, <1>7, <2>1, <2>2, <3>5
    <3>2. now + n \in ValuesOf(Span64)
      BY <1>7, <3>1 DEF Max64, ValuesOf
    <3>3. expire = n /\ n > 0
      BY <1>6, <1>10, <3>1
    <3>4. Signed(now + n, Span64) = now + n
      BY <1>7, <3>2, SignedKeeps
    <3> QED
      BY <1>4, <3>3, <3>4 DEF SetDeadline, DeadlineAfter
  <2>3. ASSUME due' + clock' <= Max64
        PROVE  /\ deadline' = due'
               /\ \A now \in Nat : (now >= clock' /\ due' + now <= Max64)
                                      => NotBefore(kind, log, now)'
    <3>1. deadline' = due'
      BY <1>1, <1>3, <1>7, <2>1, <2>2, <2>3
    <3>2. ASSUME NEW now \in Nat, now >= clock', due' + now <= Max64
          PROVE  NotBefore(kind, log, now)'
      <4>1. Replay(kind', log', now).deadline = now + n
        BY <1>9, <2>2, <3>2
      <4>2. now + n >= due' /\ now + n # None
        BY <1>1, <1>6, <1>7, <2>1, <3>2
      <4> QED
        BY <4>1, <4>2 DEF NotBefore
    <3> QED
      BY <3>1, <3>2
  <2>4. due' + clock' <= Max64 => deadline' >= due'
    BY <2>1, <2>3
  <2> QED
    BY <1>3, <1>8, <2>1, <2>3, <2>4 DEF ExpiryInv
<1>11. CASE n = 0
  <2>1. expire = 0 /\ ~(a.expire > 0)
    BY <1>4, <1>6, <1>11
  <2>2. \A d, now : SetDeadline(d, a, now) = IF path = None THEN None ELSE d
    BY <1>4, <2>1 DEF SetDeadline
  <2>3. CASE path = None \/ Present = None
    <3>1. due' = None
      BY <1>3, <1>4, <1>11, <2>3 DEF DueAfter
    <3>2. deadline' = None
      BY <1>3, <1>5, <2>2, <2>3
    <3>3. \A now : Replay(kind', log', now).deadline = None
      BY <1>5, <1>9, <2>2, <2>3 DEF Restores
    <3> QED
      BY <1>3, <1>8, <3>1, <3>2, <3>3 DEF ExpiryInv
  <2>4. CASE path # None /\ Present # None
    <3>1. due' = due
      BY <1>3, <1>4, <1>11, <2>4 DEF DueAfter
    <3>2. LogOpened = log /\ held # None /\ deadline' = deadline
      BY <1>3, <1>5, <2>2, <2>4
    <3>3. made
      BY <3>2 DEF ExpiryInv
    <3>4. \A now : /\ Replay(kind', log', now).held # None
                   /\ Replay(kind', log', now).deadline = Replay(kind, log, now).deadline
      BY <1>9, <2>2, <2>4, <3>2
    <3>5. \A now : Replay(kind, log, now).held # None
      BY <3>2 DEF RestoresInv, Restores
    <3>6. \A now : NotBefore(kind, log, now)' = NotBefore(kind, log, now)
      BY <3>1, <3>4, <3>5 DEF NotBefore
    <3> QED
      BY <1>1, <1>3, <1>8, <3>1, <3>2, <3>3, <3>4, <3>6 DEF ExpiryInv
  <2> QED
    BY <2>3, <2>4
<1> QED
  BY <1>10, <1>11

LEMMA SetKeepsExpiry ==
  ASSUME Typed, OptInv, RestoresInv, ExpiryInv, RunSet
  PROVE  ExpiryInv'
<1> DEFINE r == SetRun(kind, Present, Until, Parsing, clock)
           q == Append(LogOpened, [op |-> "set", args |-> Parsing])
<1>1. CASE Skips(Present, Parsing) \/ Wrong(kind, Parsing)
  <2>1. \A d, now : LET s == SetRun(kind, Present, d, Parsing, now) IN
                      s.held = Present /\ s.deadline = d /\ s.reply # <<"set", 1>>
    <3>1. CASE Skips(Present, Parsing)
      BY <3>1, SetRunIs
    <3>2. CASE ~Skips(Present, Parsing) /\ Wrong(kind, Parsing)
      BY <3>2, SetRunIs
    <3> QED
      BY <1>1, <3>1, <3>2
  <2>2. r.held = Present /\ r.deadline = Until /\ r.reply # <<"set", 1>>
    BY <2>1
  <2>3. /\ call = "PB.SET" /\ pc = "parsed" /\ kind' = kind
        /\ held' = Present /\ deadline' = Until
        /\ UNCHANGED <<clock, restarts, made, due>>
        /\ log' = LogOpened \/ log' = q
    BY <2>2 DEF RunSet, historyVars
  <2>4. \A now : /\ Replay(kind, q, now).held = Replay(kind, LogOpened, now).held
                 /\ Replay(kind, q, now).deadline = Replay(kind, LogOpened, now).deadline
    <3>1. /\ Parsing \in Args /\ LogOpened \in Seq(Entries)
          /\ Restores(kind, LogOpened, Present)
      BY <2>3, ParsingTyped, OpenedTyped, Opened
    <3>2. \A now : Replay(kind, q, now)
                     = SetRun(kind, Present, Replay(kind, LogOpened, now).deadline, Parsing, now)
      BY <3>1, SetRestores
    <3>3. \A now : Replay(kind, LogOpened, now).held = Present
      BY <3>1 DEF Restores
    <3> HIDE DEF q
    <3> QED
      BY <2>1, <3>2, <3>3
  <2> HIDE DEF q
  <2>5. \A now : /\ Replay(kind', log', now).held = Replay(kind, LogOpened, now).held
                 /\ Replay(kind', log', now).deadline = Replay(kind, LogOpened, now).deadline
    BY <2>3, <2>4
  <2> QED
    BY <2>3, <2>5, LookExpiry
<1>2. CASE ~Skips(Present, Parsing) /\ ~Wrong(kind, Parsing)
  BY <1>2, SetExpiry
<1> QED
  BY <1>1, <1>2

LEMMA NextExpiry ==
  Typed /\ OptInv /\ RestoresInv /\ ExpiryInv /\ [Next]_allVars => ExpiryInv'
<1> SUFFICES ASSUME Typed, OptInv, RestoresInv, ExpiryInv, [Next]_allVars PROVE ExpiryInv'
  OBVIOUS
<1>1. CASE UNCHANGED <<kind, clock, held, deadline, log, restarts, made, due>>
  BY <1>1 DEF ExpiryInv, NotBefore
<1>2. CASE RunGet \/ ExpireKey
  <2>1. /\ kind' = kind /\ held' = Present /\ deadline' = Until /\ log' = LogOpened
        /\ UNCHANGED <<clock, restarts, made, due>>
    BY <1>2 DEF RunGet, ExpireKey, Present, Until, historyVars
  <2> QED
    BY <2>1, LookExpiry
<1>3. CASE Tick
  <2>1. /\ clock' = clock + 1
        /\ UNCHANGED <<kind, held, deadline, log, restarts, made, due>>
    BY <1>3 DEF Tick, keyVars, historyVars
  <2>2. clock \in Int /\ (due = None \/ due \in Int) /\ Max64 \in Int
    BY BoundsAssumption, SpanAssumption DEF Typed, TypeOK, Max64
  <2>3. /\ (due # None /\ due + clock' <= Max64) => due + clock <= Max64
        /\ (due # None /\ clock > due) => clock' > due
        /\ \A now \in Nat : now >= clock' => now >= clock
    BY <2>1, <2>2
  <2>4. \A now : NotBefore(kind, log, now)' = NotBefore(kind, log, now)
    BY <2>1 DEF NotBefore
  <2> QED
    BY <2>1, <2>3, <2>4 DEF ExpiryInv
<1>4. CASE Restart
  <2>1. /\ restarts' = restarts + 1 /\ held' = Replay(kind, log, clock).held
        /\ deadline' = Replay(kind, log, clock).deadline
        /\ UNCHANGED <<kind, clock, log, made, due>>
    BY <1>4 DEF Restart, Replayed, historyVars
  <2>2. /\ held' = held /\ (held = None => deadline' = None)
    BY <2>1 DEF RestoresInv, Restores
  <2>3. clock \in Nat /\ clock >= clock /\ restarts' # 0
    BY <2>1, BoundsAssumption DEF Typed, TypeOK
  <2>4. (due # None /\ due + clock <= Max64 /\ held' # None)
           => deadline' # None /\ deadline' >= due
    BY <2>1, <2>3 DEF ExpiryInv, NotBefore
  <2>5. \A now : NotBefore(kind, log, now)' = NotBefore(kind, log, now)
    BY <2>1 DEF NotBefore
  <2> QED
    BY <2>1, <2>2, <2>3, <2>4, <2>5 DEF ExpiryInv
<1> QED
  BY <1>1, <1>2, <1>3, <1>4, SetKeepsExpiry
     DEF Next, Begin, Parse, Execute, Loaded, Refuse, allVars, keyVars, outerVars, historyVars

\* A key is there from the PB.SET that makes it until it is due, and no longer, whatever
\* comes in between that does not set it anew: reads, refused commands, a PB.SET of one
\* field, which leaves the expiry alone, and restarts, which may put it off.  The words ask
\* for a time that, with the clock, fits into 64 bits.
THEOREM ExpiryIsAsAsked == Spec => []ExpiryAsAsked
<1>1. Init => ExpiryInv
  BY DEF Init, ExpiryInv
<1>2. Typed /\ ExpiryInv => ExpiryAsAsked
  <2> SUFFICES ASSUME Typed, ExpiryInv PROVE ExpiryAsAsked
    OBVIOUS
  <2>1. /\ clock \in Int /\ (due = None \/ due \in Int)
        /\ deadline = None \/ deadline \in Int
    BY BoundsAssumption, SpanAssumption DEF Typed, TypeOK, ValuesOf
  <2>2. (made /\ due = None) => Present # None
    BY DEF ExpiryInv, Present, Expired
  <2>3. ASSUME due # None, due + clock <= Max64
        PROVE  /\ clock <= due => Present # None
               /\ (clock > due /\ restarts = 0) => Present = None
    <3>1. CASE held # None /\ deadline # None /\ deadline >= due /\ (restarts = 0 => deadline = due)
      BY <2>1, <2>3, <3>1 DEF Present, Expired
    <3>2. CASE held = None /\ clock > due
      BY <2>1, <2>3, <3>2 DEF Present, Expired
    <3> QED
      BY <2>3, <3>1, <3>2 DEF ExpiryInv
  <2> QED
    BY <2>2, <2>3 DEF ExpiryAsAsked
<1> QED
  BY <1>1, <1>2, NextExpiry, ServerOptions, ServerRestores, PTL DEF Spec
=============================================================================
