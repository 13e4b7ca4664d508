-------------------------------- MODULE Iteration --------------------------------
(***************************************************************************)
(* Induction over the natural numbers, with a set where the library has an *)
(* operator, and what it says of a function that is defined from one       *)
(* number to the next: replaying commands, scanning arguments.             *)
(***************************************************************************)
EXTENDS Integers, WellFoundedInduction, TLAPS

LEMMA Least ==
  ASSUME NEW T, T \subseteq Nat, T # {}
  PROVE  \E x \in T : \A y \in T : ~ (y < x)
<1> DEFINE R == {ss \in Nat \X Nat : ss[1] < ss[2]}
<1>1. IsWellFoundedOn(R, Nat)
  BY NatLessThanWellFounded DEF OpToRel
<1> HIDE DEF R
<1>2. \E x \in T : \A y \in T : ~ (<<y, x>> \in R)
  BY <1>1, WFMin
<1> QED
  BY <1>2 DEF R

LEMMA Induct ==
  ASSUME NEW S, 0 \in S, \A n \in Nat : n \in S => n + 1 \in S
  PROVE  \A n \in Nat : n \in S
<1> SUFFICES ASSUME Nat \ S # {} PROVE FALSE
  OBVIOUS
<1>1. PICK x \in Nat \ S : \A y \in Nat \ S : ~ (y < x)
  BY Least
<1>2. x # 0 /\ x - 1 \in Nat
  OBVIOUS
<1>3. x - 1 \in S
  BY <1>1, <1>2
<1> QED
  BY <1>2, <1>3

\* Up to a number.
LEMMA InductTo ==
  ASSUME NEW N \in Nat, NEW S, 0 \in S, \A i \in 1..N : i - 1 \in S => i \in S
  PROVE  \A i \in 0..N : i \in S
<1> DEFINE T == {n \in Nat : n <= N => n \in S}
<1>1. 0 \in T
  OBVIOUS
<1>2. ASSUME NEW n \in Nat, n \in T PROVE n + 1 \in T
  <2> SUFFICES ASSUME n + 1 <= N PROVE n + 1 \in S
    OBVIOUS
  <2>1. n + 1 \in 1..N /\ (n + 1) - 1 = n /\ n \in S
    BY <1>2
  <2> QED
    BY <2>1
<1> HIDE DEF T
<1>3. \A n \in Nat : n \in T
  BY <1>1, <1>2, Induct
<1> QED
  BY <1>3 DEF T

\* Two functions that begin alike and go on alike are one.
LEMMA Agree ==
  ASSUME NEW N \in Nat, NEW f, NEW h, f[0] = h[0],
         \A i \in 1..N : f[i - 1] = h[i - 1] => f[i] = h[i]
  PROVE  f[N] = h[N]
<1> DEFINE S == {i \in 0..N : f[i] = h[i]}
<1>1. 0 \in S
  OBVIOUS
<1>2. ASSUME NEW i \in 1..N, i - 1 \in S PROVE i \in S
  <2>1. f[i - 1] = h[i - 1]
    BY <1>2
  <2>2. i \in 0..N
    OBVIOUS
  <2> QED
    BY <2>1, <2>2
<1> HIDE DEF S
<1>3. \A i \in 0..N : i \in S
  BY <1>1, <1>2, InductTo
<1> QED
  BY <1>3 DEF S

\* Function h begins with b and goes on with step, up to N, within S.
Follows(h, b, step, N, S) ==
    /\ h[0] = b /\ \A i \in 0..N : h[i] \in S
    /\ \A i \in 1..N : h[i] = step[i][h[i - 1]]

StaysIn(step, N, S) == \A i \in 1..N : \A x \in S : step[i][x] \in S

\* From any first value, steps within a set can be followed.
LEMMA StepsExist ==
  ASSUME NEW N \in Nat, NEW S, NEW b \in S, NEW step, StaysIn(step, N, S)
  PROVE  \E h : Follows(h, b, step, N, S)
<1> DEFINE T == {n \in Nat : n <= N => \E h : Follows(h, b, step, n, S)}
<1>1. 0 \in T
  <2> DEFINE h == [i \in 0..0 |-> b]
  <2>1. Follows(h, b, step, 0, S)
    BY DEF Follows
  <2> QED
    BY <2>1
<1>2. ASSUME NEW n \in Nat, n \in T PROVE n + 1 \in T
  <2> SUFFICES ASSUME n + 1 <= N PROVE \E h : Follows(h, b, step, n + 1, S)
    OBVIOUS
  <2>1. PICK h : Follows(h, b, step, n, S)
    BY <1>2
  <2> DEFINE e == [i \in 0..(n + 1) |-> IF i <= n THEN h[i] ELSE step[n + 1][h[n]]]
  <2>2. n + 1 \in 1..N /\ h[n] \in S
    BY <2>1 DEF Follows
  <2>3. step[n + 1][h[n]] \in S
    BY <2>2 DEF StaysIn
  <2>4. ASSUME NEW i \in 0..(n + 1) PROVE e[i] \in S
    BY <2>1, <2>3 DEF Follows
  <2>5. e[0] = b /\ e[n + 1] = step[n + 1][e[n]]
    BY <2>1 DEF Follows
  <2>6. ASSUME NEW i \in 1..n PROVE e[i] = step[i][e[i - 1]]
    BY <2>1, <2>6 DEF Follows
  <2>7. \A i \in 1..(n + 1) : i = n + 1 \/ i \in 1..n
    OBVIOUS
  <2>8. (n + 1) - 1 = n
    OBVIOUS
  <2> HIDE DEF e
  <2>9. ASSUME NEW i \in 1..(n + 1) PROVE e[i] = step[i][e[i - 1]]
    BY <2>5, <2>6, <2>7, <2>8
  <2> QED
    BY <2>4, <2>5, <2>9 DEF Follows
<1> HIDE DEF T
<1>3. \A n \in Nat : n \in T
  BY <1>1, <1>2, Induct
<1> QED
  BY <1>3 DEF T
=============================================================================
