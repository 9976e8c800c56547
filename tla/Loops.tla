------------------------------- MODULE Loops --------------------------------
(***************************************************************************)
(* What the search loops and the counting loops of the code have in        *)
(* common: the least element of a set of naturals, as Min() of             *)
(* FiniteSetsExt yields it, what every turn of a loop keeps, and that a    *)
(* loop, written as a recursive function, has a run.                       *)
(***************************************************************************)
EXTENDS Integers, FiniteSetsExt, WellFoundedInduction, TLAPS

LessThan == {p \in Nat \X Nat : p[1] < p[2]}

\* The naturals are well-founded.
LEMMA LessThanWellFounded == IsWellFoundedOn(LessThan, Nat)
<1>1. IsWellFoundedOn(OpToRel(<, Nat), Nat)
  BY NatLessThanWellFounded
<1>2. OpToRel(<, Nat) = LessThan
  BY DEF OpToRel, LessThan
<1> QED
  BY <1>1, <1>2

\* A set of naturals that is not empty has a least element.
LEMMA MinProperty ==
  ASSUME NEW S \in SUBSET Nat, S # {}
  PROVE  Min(S) \in S /\ \A y \in S : Min(S) <= y
<1>1. PICK x \in S : \A y \in S : ~(<<y, x>> \in LessThan)
  BY LessThanWellFounded, WFMin
<1>2. \A y \in S : x <= y
  <2> SUFFICES ASSUME NEW y \in S PROVE x <= y
    OBVIOUS
  <2>1. <<y, x>> \in Nat \X Nat /\ x \in Nat /\ y \in Nat
    OBVIOUS
  <2>2. ~(y < x)
    BY <1>1, <2>1 DEF LessThan
  <2> QED
    BY <2>1, <2>2
<1>3. \E z \in S : \A y \in S : z <= y
  BY <1>2
<1> QED
  BY <1>3 DEF Min

\* What holds before a loop and is kept by every turn holds all along.
LEMMA LoopInvariant ==
  ASSUME NEW N \in Nat, NEW P, 0 \in P, \A k \in 1..N : k - 1 \in P => k \in P
  PROVE  \A k \in 0..N : k \in P
<1> SUFFICES ASSUME NEW k \in 0..N, k \notin P PROVE FALSE
  OBVIOUS
<1> DEFINE S == {j \in 0..N : j \notin P}
<1>1. S \in SUBSET Nat /\ S # {}
  OBVIOUS
<1>2. Min(S) \in S /\ \A y \in S : Min(S) <= y
  BY <1>1, MinProperty
<1> DEFINE m == Min(S)
<1> HIDE DEF S
<1> HIDE DEF m
<1>3. m \in 0..N /\ m \notin P /\ \A y \in 0..N : y \notin P => m <= y
  BY <1>2 DEF m, S
<1>4. m # 0 /\ m \in 1..N /\ m - 1 \in 0..N
  BY <1>3
<1>5. m - 1 \in P
  BY <1>3, <1>4
<1> QED
  BY <1>3, <1>4, <1>5

\* A loop of N turns over states in S, from base: its run is a function.
LoopOf(N, S, base, step) == base \in S /\ step \in [1..N -> [S -> S]]
IsRun(f, N, S, base, step) ==
  /\ f \in [0..N -> S] /\ f[0] = base
  /\ \A k \in 1..N : f[k] = step[k][f[k - 1]]

\* So what the recursive function is defined by describes it.
LEMMA LoopRuns ==
  ASSUME NEW N \in Nat, NEW S, NEW base, NEW step, LoopOf(N, S, base, step)
  PROVE  \E f : IsRun(f, N, S, base, step)
<1> USE DEF LoopOf, IsRun
<1> DEFINE Run(f, n) == /\ f \in [0..n -> S] /\ f[0] = base
                        /\ \A k \in 1..n : f[k] = step[k][f[k - 1]]
           P == {n \in 0..N : \E f : Run(f, n)}
<1>1. 0 \in P
  <2>1. Run([k \in 0..0 |-> base], 0)
    OBVIOUS
  <2> HIDE DEF Run
  <2>2. \E f : Run(f, 0)
    BY <2>1
  <2> QED
    BY <2>2
<1>2. ASSUME NEW n \in 1..N, n - 1 \in P PROVE n \in P
  <2>1. PICK f : Run(f, n - 1)
    BY <1>2
  <2> DEFINE g == [k \in 0..n |-> IF k = n THEN step[n][f[n - 1]] ELSE f[k]]
  <2>2. f[n - 1] \in S /\ step[n] \in [S -> S]
    BY <2>1
  <2>3. \A k \in 0..n : k # n => k \in 0..(n - 1)
    OBVIOUS
  <2>4. g \in [0..n -> S]
    BY <2>1, <2>2, <2>3
  <2>5. g[0] = base
    BY <2>1
  <2>6. ASSUME NEW k \in 1..n PROVE g[k] = step[k][g[k - 1]]
    <3>1. k - 1 \in 0..n /\ k - 1 # n /\ g[k - 1] = f[k - 1]
      OBVIOUS
    <3>2. CASE k = n
      BY <3>1, <3>2
    <3>3. CASE k # n
      <4>1. k \in 1..(n - 1)
        BY <3>3
      <4>2. f[k] = step[k][f[k - 1]]
        BY <2>1, <4>1
      <4> QED
        BY <3>1, <3>3, <4>2
    <3> QED
      BY <3>2, <3>3
  <2>7. Run(g, n)
    BY <2>4, <2>5, <2>6
  <2> HIDE DEF Run, g
  <2>8. \E h : Run(h, n)
    BY <2>7
  <2> QED
    BY <2>8
<1> HIDE DEF P
<1>3. \A k \in 0..N : k \in P
  BY <1>1, <1>2, LoopInvariant
<1> QED
  BY <1>3 DEF P
=============================================================================
