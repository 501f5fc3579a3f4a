----------------------------- MODULE Inductions -----------------------------
(***************************************************************************)
(* What the proofs about sequences of any length rest on: induction over   *)
(* the numbers, in sets instead of predicates, from the library's minimum  *)
(* of a well-founded order; and that a fold of the community modules runs  *)
(* through its sequence step by step.                                      *)
(***************************************************************************)
EXTENDS Integers, FiniteSets, FiniteSetsExt, WellFoundedInduction, TLAPS

(* A set of numbers has a first one.                                        *)
LEMMA FirstNumber ==
  ASSUME NEW T \in SUBSET Nat, T # {}
  PROVE  \E x \in T : \A y \in T : x <= y
<1>. DEFINE R == OpToRel(<, Nat)
<1>1. IsWellFoundedOn(R, Nat) BY NatLessThanWellFounded
<1>2. PICK m \in T : \A u \in T : <<u, m>> \notin R
  <2>. HIDE DEF R
  <2>. QED BY <1>1, WFMin
<1>3. \A u \in T : ~(u < m)
  <2>. TAKE u \in T
  <2>1. u \in Nat /\ m \in Nat OBVIOUS
  <2>. QED BY <1>2, <2>1 DEF OpToRel
<1>. QED BY <1>3

(* And up to a bound a last one.                                            *)
LEMMA LastNumber ==
  ASSUME NEW N \in Nat, NEW T \in SUBSET (0..N), T # {}
  PROVE  \E x \in T : \A y \in T : y <= x
<1>. DEFINE U == {N - x : x \in T}
<1>1. U \in SUBSET Nat /\ U # {}
  <2>1. \A x \in T : x \in 0..N OBVIOUS
  <2>2. \A x \in T : N - x \in Nat BY <2>1
  <2>3. PICK x \in T : TRUE OBVIOUS
  <2>4. N - x \in U BY <2>3
  <2>. QED BY <2>2, <2>4
<1>2. PICK m \in U : \A u \in U : m <= u
  <2>. HIDE DEF U
  <2>. QED BY <1>1, FirstNumber
<1>3. PICK x \in T : m = N - x BY <1>2
<1>4. \A y \in T : y <= x
  <2>. TAKE y \in T
  <2>1. N - y \in U OBVIOUS
  <2>2. N - x <= N - y BY <1>2, <1>3, <2>1
  <2>. QED BY <2>2, SMT
<1>. QED BY <1>4

(* Max of FiniteSetsExt, of such a set, and Min.                            *)
LEMMA MaxIsLast ==
  ASSUME NEW N \in Nat, NEW T \in SUBSET (0..N), T # {}
  PROVE  Max(T) \in T /\ \A y \in T : y <= Max(T)
<1>1. \E x \in T : \A y \in T : x >= y BY LastNumber
<1>2. Max(T) \in T /\ \A y \in T : Max(T) >= y BY <1>1 DEF Max
<1>. QED BY <1>2

LEMMA MinIsFirst ==
  ASSUME NEW T \in SUBSET Nat, T # {}
  PROVE  Min(T) \in T /\ \A y \in T : Min(T) <= y
<1>1. \E x \in T : \A y \in T : x <= y BY FirstNumber
<1>. QED BY <1>1 DEF Min

(* Induction up to a bound.                                                 *)
LEMMA UpTo ==
  ASSUME NEW n \in Nat, NEW T, 0 \in T, \A i \in 0..(n - 1) : i \in T => i + 1 \in T
  PROVE  \A i \in 0..n : i \in T
<1>. SUFFICES ASSUME \E i \in 0..n : i \notin T PROVE FALSE
  OBVIOUS
<1>. DEFINE U == {i \in 0..n : i \notin T}
<1>1. U \in SUBSET Nat /\ U # {} OBVIOUS
<1>2. PICK m \in U : \A u \in U : m <= u
  <2>. HIDE DEF U
  <2>. QED BY <1>1, FirstNumber
<1>3. m # 0 /\ m \in 0..n /\ m \notin T BY <1>2
<1>4. m - 1 \in 0..(n - 1) BY <1>3
<1>5. m - 1 \notin U BY <1>2, <1>4
<1>6. m - 1 \in T BY <1>4, <1>5
<1>7. (m - 1) + 1 \in T BY <1>4, <1>6
<1>. QED BY <1>3, <1>7

-----------------------------------------------------------------------------
(* The function that a fold over 1..n iterates exists: for the sets up to   *)
(* each number, from those up to the number before.                         *)
IteratesTo(g, k, base, step) ==
  \A s \in SUBSET (1..k) :
    g[s] = IF s = {} THEN base ELSE step[<<Max(s), g[s \ {Max(s)}]>>]

LEMMA FoldExists ==
  ASSUME NEW V, NEW base \in V, NEW n \in Nat, NEW step \in [(1..n) \X V -> V]
  PROVE  \E g \in [SUBSET (1..n) -> V] : IteratesTo(g, n, base, step)
<1>. DEFINE Has(k) == \E g \in [SUBSET (1..k) -> V] : IteratesTo(g, k, base, step)
            T == {k \in 0..n : Has(k)}
<1>1. 0 \in T
  <2>1. PICK g : g = [s \in SUBSET (1..0) |-> base] OBVIOUS
  <2>2. \A s \in SUBSET (1..0) : s = {} OBVIOUS
  <2>3. g \in [SUBSET (1..0) -> V] /\ IteratesTo(g, 0, base, step)
    BY <2>1, <2>2 DEF IteratesTo
  <2>4. Has(0) BY <2>3
  <2>. HIDE DEF Has
  <2>. QED BY <2>4
<1>2. ASSUME NEW k \in 0..(n - 1), k \in T PROVE k + 1 \in T
  <2>1. PICK g \in [SUBSET (1..k) -> V] : IteratesTo(g, k, base, step) BY <1>2
  <2>. DEFINE new == [s \in SUBSET (1..(k + 1)) |->
                        IF k + 1 \in s THEN step[<<k + 1, g[s \ {k + 1}]>>] ELSE g[s]]
  <2>2. ASSUME NEW s \in SUBSET (1..(k + 1))
        PROVE  /\ k + 1 \notin s => s \in SUBSET (1..k)
               /\ s \ {k + 1} \in SUBSET (1..k)
    <3>1. k \in Nat OBVIOUS
    <3>2. ASSUME NEW e \in s, e # k + 1 PROVE e \in 1..k BY <3>1, <3>2
    <3>. QED BY <3>2
  <2>3. new \in [SUBSET (1..(k + 1)) -> V]
    <3>1. ASSUME NEW s \in SUBSET (1..(k + 1))
          PROVE  (IF k + 1 \in s THEN step[<<k + 1, g[s \ {k + 1}]>>] ELSE g[s]) \in V
      <4>1. CASE k + 1 \in s
        <5>1. g[s \ {k + 1}] \in V BY <2>1, <2>2
        <5>2. <<k + 1, g[s \ {k + 1}]>> \in (1..n) \X V BY <5>1
        <5>. QED BY <4>1, <5>2
      <4>2. CASE k + 1 \notin s BY <2>1, <2>2, <4>2
      <4>. QED BY <4>1, <4>2
    <3>. QED BY <3>1
  <2>4. ASSUME NEW s \in SUBSET (1..(k + 1))
        PROVE  new[s] = IF s = {} THEN base ELSE step[<<Max(s), new[s \ {Max(s)}]>>]
    <3>1. CASE s = {}
      <4>1. {} \in SUBSET (1..k) OBVIOUS
      <4>2. g[{}] = base BY <2>1, <4>1 DEF IteratesTo
      <4>3. new[{}] = g[{}] OBVIOUS
      <4>. QED BY <3>1, <4>2, <4>3
    <3>2. CASE s # {}
      <4>1. s \in SUBSET (0..(k + 1)) /\ k + 1 \in Nat OBVIOUS
      <4>2. Max(s) \in s /\ \A y \in s : y <= Max(s) BY <3>2, <4>1, MaxIsLast
      <4>3. CASE k + 1 \in s
        <5>1. Max(s) = k + 1
          <6>1. PICK m : m = Max(s) OBVIOUS
          <6>2. m \in 1..(k + 1) /\ k + 1 <= m BY <4>2, <4>3, <6>1
          <6>3. m = k + 1 BY <6>2
          <6>. QED BY <6>1, <6>3
        <5>2. s \ {k + 1} \in SUBSET (1..(k + 1)) /\ k + 1 \notin s \ {k + 1} OBVIOUS
        <5>3. new[s \ {k + 1}] = g[s \ {k + 1}] BY <5>2
        <5>4. new[s] = step[<<k + 1, g[s \ {k + 1}]>>] BY <4>3
        <5>. QED BY <3>2, <5>1, <5>3, <5>4
      <4>4. CASE k + 1 \notin s
        <5>1. s \in SUBSET (1..k) BY <2>2, <4>4
        <5>2. s \ {Max(s)} \in SUBSET (1..(k + 1)) /\ k + 1 \notin s \ {Max(s)} BY <4>4
        <5>3. new[s] = g[s] /\ new[s \ {Max(s)}] = g[s \ {Max(s)}] BY <4>4, <5>2
        <5>4. g[s] = IF s = {} THEN base ELSE step[<<Max(s), g[s \ {Max(s)}]>>]
          BY <2>1, <5>1 DEF IteratesTo
        <5>. HIDE DEF new
        <5>. QED BY <3>2, <5>3, <5>4
      <4>. QED BY <4>3, <4>4
    <3>. QED BY <3>1, <3>2
  <2>. HIDE DEF new
  <2>5. IteratesTo(new, k + 1, base, step) BY <2>4 DEF IteratesTo
  <2>6. Has(k + 1) BY <2>3, <2>5
  <2>. HIDE DEF Has
  <2>. QED BY <2>6
<1>3. \A k \in 0..n : k \in T
  <2>. HIDE DEF T
  <2>. QED BY <1>1, <1>2, UpTo
<1>4. Has(n)
  <2>. HIDE DEF Has
  <2>. QED BY <1>3
<1>. QED BY <1>4

(* Along the numbers up to n it takes them one by one.                      *)
LEMMA RunsInOrder ==
  ASSUME NEW k \in Nat
  PROVE  /\ 1..0 = {} /\ Max(1..(k + 1)) = k + 1 /\ 1..(k + 1) # {}
         /\ (1..(k + 1)) \ {k + 1} = 1..k
<1>1. 1..(k + 1) \in SUBSET (0..(k + 1)) /\ 1..(k + 1) # {} /\ k + 1 \in Nat
  <2>1. k + 1 \in 1..(k + 1) OBVIOUS
  <2>. QED BY <2>1
<1>2. Max(1..(k + 1)) \in 1..(k + 1) /\ \A y \in 1..(k + 1) : y <= Max(1..(k + 1))
  BY <1>1, MaxIsLast
<1>3. Max(1..(k + 1)) = k + 1
  <2>. DEFINE m == Max(1..(k + 1))
  <2>1. k + 1 \in 1..(k + 1) OBVIOUS
  <2>2. m \in 1..(k + 1) /\ k + 1 <= m BY <1>2, <2>1
  <2>. HIDE DEF m
  <2>3. m = k + 1 BY <2>2
  <2>. QED BY <2>3 DEF m
<1>4. (1..(k + 1)) \ {k + 1} = 1..k /\ 1..0 = {} OBVIOUS
<1>. QED BY <1>1, <1>3, <1>4
=============================================================================
