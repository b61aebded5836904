---------------------------- MODULE RecursionLemmas ----------------------------
(***************************************************************************)
(* Induction and recursion over the natural numbers.  The library states   *)
(* both for predicates and definitions that are operators, which a proof   *)
(* here cannot instantiate.  Here the predicate is the set of the numbers  *)
(* it holds of, and the step of a recursion is a function from indices to  *)
(* functions on the values; what is left is first-order.                   *)
(***************************************************************************)
EXTENDS Integers, FiniteSetTheorems, TLAPS

-----------------------------------------------------------------------------
(* Induction.                                                              *)

(* A nonempty set of natural numbers has a least element: among the finite *)
(* sets 0 .. n for its elements n one is minimal under inclusion.          *)
LEMMA LeastNumber ==
  ASSUME NEW T, T \subseteq Nat, T # {}
  PROVE  \E n \in T : \A m \in T : n <= m
<1> DEFINE Segments == {0 .. n : n \in T}
<1>1. IsWellFoundedOn(StrictSubsetOrdering(Nat), FiniteSubsetsOf(Nat))
  BY FS_StrictSubsetOrderingWellFounded
<1>2. ASSUME NEW n \in T PROVE 0 .. n \in FiniteSubsetsOf(Nat)
  <2>1. n \in Int /\ 0 \in Int /\ 0 .. n \subseteq Nat
    OBVIOUS
  <2>2. IsFiniteSet(0 .. n)
    BY <2>1, FS_Interval
  <2>3. QED
    BY <2>1, <2>2 DEF FiniteSubsetsOf
<1>3. Segments \subseteq FiniteSubsetsOf(Nat) /\ Segments # {}
  BY <1>2
<1>4. \E s \in Segments : \A t \in Segments : ~ (<<t, s>> \in StrictSubsetOrdering(Nat))
  <2> HIDE DEF Segments
  <2>1. QED
    BY <1>1, <1>3, WFMin
<1>5. PICK n \in T : \A m \in T : ~ (<<0 .. m, 0 .. n>> \in StrictSubsetOrdering(Nat))
  BY <1>4
<1>6. ASSUME NEW m \in T, m < n PROVE FALSE
  <2>1. 0 .. m \subseteq 0 .. n /\ n \in 0 .. n /\ n \notin 0 .. m
    BY <1>6
  <2>2. 0 .. m # 0 .. n
    BY <2>1
  <2>3. 0 .. m \in SUBSET Nat /\ 0 .. n \in SUBSET Nat
    BY <1>2 DEF FiniteSubsetsOf
  <2>4. <<0 .. m, 0 .. n>> \in StrictSubsetOrdering(Nat)
    BY <2>1, <2>2, <2>3 DEF StrictSubsetOrdering
  <2>5. QED
    BY <1>5, <2>4
<1>7. \A m \in T : n <= m
  BY <1>6
<1>8. QED
  BY <1>7

(* What holds of 0, and of n + 1 if it holds of n, holds of every number.  *)
LEMMA SetInduction ==
  ASSUME NEW S, 0 \in S, \A n \in Nat : n \in S => n + 1 \in S
  PROVE  \A n \in Nat : n \in S
<1> DEFINE T == Nat \ S
<1>1. SUFFICES ASSUME T # {} PROVE FALSE
  OBVIOUS
<1>2. PICK n \in T : \A m \in T : n <= m
  BY <1>1, LeastNumber
<1>3. n # 0 /\ n \in Nat
  OBVIOUS
<1>4. n - 1 \in Nat /\ n - 1 \notin T /\ (n - 1) + 1 = n
  BY <1>2, <1>3
<1>5. QED
  BY <1>4

-----------------------------------------------------------------------------
(* Recursion.                                                              *)

(* g has the first n + 1 values of the recursion that begins with a.       *)
RunsTo(g, n, a, step) ==
  /\ g \in [0 .. n -> Int]
  /\ g[0] = a
  /\ \A k \in 0 .. n - 1 : g[k + 1] = step[k + 1][g[k]]

(* Two runs agree as far as both go.                                       *)
LEMMA RunsAgree ==
  ASSUME NEW a \in Int, NEW step \in [Nat -> [Int -> Int]],
         NEW n \in Nat, NEW m \in Nat,
         NEW g, RunsTo(g, n, a, step),
         NEW h, RunsTo(h, m, a, step)
  PROVE  \A k \in 0 .. n : k <= m => g[k] = h[k]
<1> DEFINE Agree == {k \in Nat : k <= n /\ k <= m => g[k] = h[k]}
<1>1. 0 \in Agree
  BY DEF RunsTo
<1>2. ASSUME NEW k \in Nat, k \in Agree PROVE k + 1 \in Agree
  <2>1. CASE k + 1 <= n /\ k + 1 <= m
    <3>1. k \in 0 .. n - 1 /\ k \in 0 .. m - 1 /\ g[k] = h[k]
      BY <1>2, <2>1
    <3>2. g[k + 1] = step[k + 1][g[k]] /\ h[k + 1] = step[k + 1][h[k]]
      BY <3>1 DEF RunsTo
    <3>3. g[k + 1] = h[k + 1]
      BY <3>1, <3>2
    <3>4. QED
      BY <3>3
  <2>2. QED
    BY <2>1
<1>3. \A k \in Nat : k \in Agree
  <2> HIDE DEF Agree
  <2>1. QED
    BY <1>1, <1>2, SetInduction
<1>4. QED
  BY <1>3

(* There is a run of every length: the last one and a step.                *)
LEMMA RunExists ==
  ASSUME NEW a \in Int, NEW step \in [Nat -> [Int -> Int]]
  PROVE  \A n \in Nat : \E g : RunsTo(g, n, a, step)
<1> DEFINE Found == {n \in Nat : \E g : RunsTo(g, n, a, step)}
<1>1. 0 \in Found
  <2>1. RunsTo([k \in 0 .. 0 |-> a], 0, a, step)
    BY DEF RunsTo
  <2>2. QED
    BY <2>1
<1>2. ASSUME NEW n \in Nat, n \in Found PROVE n + 1 \in Found
  <2>1. PICK g : RunsTo(g, n, a, step)
    BY <1>2
  <2> DEFINE h == [k \in 0 .. n + 1 |-> IF k = n + 1 THEN step[n + 1][g[n]] ELSE g[k]]
  <2>2. g[n] \in Int /\ step[n + 1][g[n]] \in Int
    <3>1. n \in 0 .. n /\ n + 1 \in Nat
      OBVIOUS
    <3>2. g[n] \in Int
      BY <2>1, <3>1 DEF RunsTo
    <3>3. QED
      BY <3>1, <3>2
  <2>3. h \in [0 .. n + 1 -> Int] /\ h[0] = a
    <3>1. g \in [0 .. n -> Int] /\ g[0] = a
      BY <2>1 DEF RunsTo
    <3>2. ASSUME NEW k \in 0 .. n + 1, k # n + 1 PROVE k \in 0 .. n /\ g[k] \in Int
      BY <3>1, <3>2
    <3>3. QED
      BY <2>2, <3>1, <3>2
  <2>4. ASSUME NEW k \in 0 .. n PROVE h[k + 1] = step[k + 1][h[k]]
    <3>1. h[k] = g[k] /\ k + 1 \in 0 .. n + 1
      OBVIOUS
    <3>2. CASE k = n
      BY <3>1, <3>2
    <3>3. CASE k # n
      <4>1. k \in 0 .. n - 1 /\ h[k + 1] = g[k + 1]
        BY <3>3
      <4>2. QED
        BY <2>1, <3>1, <4>1 DEF RunsTo
    <3>4. QED
      BY <3>2, <3>3
  <2>5. \A k \in 0 .. (n + 1) - 1 : h[k + 1] = step[k + 1][h[k]]
    <3> HIDE DEF h
    <3>1. (n + 1) - 1 = n
      OBVIOUS
    <3>2. QED
      BY <2>4, <3>1
  <2>6. RunsTo(h, n + 1, a, step)
    <3> HIDE DEF h
    <3>1. QED
      BY <2>3, <2>5 DEF RunsTo
  <2>7. n + 1 \in Nat
    OBVIOUS
  <2>8. QED
    <3> HIDE DEF h
    <3>1. QED
      BY <2>6, <2>7
<1>3. QED
  <2> HIDE DEF Found
  <2>1. \A n \in Nat : n \in Found
    BY <1>1, <1>2, SetInduction
  <2>2. QED
    BY <2>1 DEF Found

(* A recursion over the natural numbers defines a function: its n-th value *)
(* is the last one of the run to n.                                        *)
LEMMA RecursionDefines ==
  ASSUME NEW a \in Int, NEW step \in [Nat -> [Int -> Int]]
  PROVE  \E f \in [Nat -> Int] :
           f[0] = a /\ \A n \in Nat : f[n + 1] = step[n + 1][f[n]]
<1> DEFINE P(n) == CHOOSE g : RunsTo(g, n, a, step)
           f == [n \in Nat |-> P(n)[n]]
<1>1. ASSUME NEW n \in Nat PROVE RunsTo(P(n), n, a, step)
  BY RunExists
<1> HIDE DEF P
<1>2. ASSUME NEW n \in Nat PROVE P(n)[n] \in Int
  BY <1>1 DEF RunsTo
<1>3. f \in [Nat -> Int]
  BY <1>2
<1>4. f[0] = a
  BY <1>1 DEF RunsTo
<1>5. ASSUME NEW n \in Nat PROVE f[n + 1] = step[n + 1][f[n]]
  <2>1. n + 1 \in Nat /\ n \in 0 .. (n + 1) - 1 /\ n \in 0 .. n /\ n <= n + 1
    OBVIOUS
  <2>2. P(n + 1)[n + 1] = step[n + 1][P(n + 1)[n]]
    BY <1>1, <2>1 DEF RunsTo
  <2>3. RunsTo(P(n), n, a, step) /\ RunsTo(P(n + 1), n + 1, a, step)
    BY <1>1, <2>1
  <2>4. P(n)[n] = P(n + 1)[n]
    BY <2>1, <2>3, RunsAgree
  <2>5. QED
    BY <2>1, <2>2, <2>4
<1>6. QED
  <2> HIDE DEF f
  <2>1. QED
    BY <1>3, <1>4, <1>5

(* The running sums of n terms, from a on.                                 *)
Sums(f, a, n, t) == f[0] = a /\ \A i \in 1 .. n : f[i] = f[i - 1] + t[i]

LEMMA SumsDefined ==
  ASSUME NEW a \in Int, NEW n \in Nat, NEW t, \A i \in 1 .. n : t[i] \in Int
  PROVE  \E f \in [0 .. n -> Int] : Sums(f, a, n, t)
<1> DEFINE term(i) == IF i \in 1 .. n THEN t[i] ELSE 0
           step == [i \in Nat |-> [x \in Int |-> x + term(i)]]
<1>1. \A i \in Nat : term(i) \in Int
  OBVIOUS
<1> HIDE DEF term
<1>2. step \in [Nat -> [Int -> Int]]
  BY <1>1
<1>3. PICK f \in [Nat -> Int] : f[0] = a /\ \A i \in Nat : f[i + 1] = step[i + 1][f[i]]
  <2> HIDE DEF step
  <2>1. QED
    BY <1>2, RecursionDefines
<1> DEFINE g == [i \in 0 .. n |-> f[i]]
<1>4. g \in [0 .. n -> Int] /\ g[0] = a
  BY <1>3
<1>5. ASSUME NEW i \in 1 .. n PROVE g[i] = g[i - 1] + t[i]
  <2>1. /\ i - 1 \in Nat /\ (i - 1) + 1 = i /\ i - 1 \in 0 .. n /\ f[i - 1] \in Int
        /\ i \in 0 .. n /\ i \in Nat
    OBVIOUS
  <2>2. f[i] = step[i][f[i - 1]]
    BY <1>3, <2>1
  <2>3. f[i] = f[i - 1] + term(i)
    BY <2>1, <2>2
  <2>4. g[i] = f[i] /\ g[i - 1] = f[i - 1]
    BY <2>1
  <2>5. QED
    BY <2>3, <2>4 DEF term
<1> HIDE DEF g
<1>6. QED
  BY <1>4, <1>5 DEF Sums
=============================================================================
