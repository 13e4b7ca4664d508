-------------------------------- MODULE Numbers --------------------------------
(***************************************************************************)
(* The conversions of utils.cpp between words and integers, and what       *)
(* becomes of an integer in a variable of a certain width.                 *)
(*                                                                         *)
(* Leading[w] is the integer at the beginning of word w, or None: stoi and *)
(* its kin read as far as they can and ignore the rest.                    *)
(***************************************************************************)
EXTENDS Integers

CONSTANTS
    Words,       \* the words of commands
    None,
    Leading,     \* word -> the integer it begins with, or None
    Span32,      \* the number of values of 32 bits
    Span64,      \* the number of values of 64 bits
    Second       \* milliseconds in a second

ASSUME LeadingAssumption ==
    /\ Leading \in [Words -> Int \cup {None}] /\ None \notin Int
    /\ \A w \in Words : w \in {"true", "false"} => Leading[w] = None

ASSUME SpanAssumption ==
    /\ Span32 \in Nat /\ Span32 >= 4 /\ Span32 % 2 = 0
    /\ Span64 \in Nat /\ Span64 >= 2 * Span32 /\ Span64 % 2 = 0
    /\ Second \in Nat \ {0}

ValuesOf(span) == (-(span \div 2))..(span \div 2 - 1)

\* The value of n in a signed variable.
Signed(n, span) == ((n + span \div 2) % span) - span \div 2

\* std::stoi and std::stoll: out of range is an error.
ToSigned(w, span) ==
    IF Leading[w] # None /\ Leading[w] \in ValuesOf(span) THEN Leading[w] ELSE None

\* std::stoul and std::stoull, both of 64 bits: a minus sign is taken, and negates.
ToUnsigned64(w) ==
    IF Leading[w] # None /\ Leading[w] \in (1 - Span64)..(Span64 - 1)
    THEN Leading[w] % Span64
    ELSE None

sv_to_int32(w) == ToSigned(w, Span32)
sv_to_int64(w) == ToSigned(w, Span64)
sv_to_uint32(w) == IF ToUnsigned64(w) = None THEN None ELSE ToUnsigned64(w) % Span32
sv_to_uint64(w) == ToUnsigned64(w)

\* A bool is kept as 0 or 1.
sv_to_bool(w) ==
    CASE w = "true" -> 1
      [] w = "false" -> 0
      [] OTHER -> IF sv_to_int32(w) = None THEN None
                  ELSE IF sv_to_int32(w) = 0 THEN 0 ELSE 1
=============================================================================
