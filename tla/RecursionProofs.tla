---------------------------- MODULE RecursionProofs ----------------------------
(***************************************************************************)
(* What the proofs about loops and recursive functions share.  A recursive *)
(* function is by definition a choice, so that first one with the equation *)
(* has to exist; and what it computes is shown by least counterexamples:   *)
(* among the arguments for which a claim fails there would be one of least *)
(* rank.                                                                   *)
(***************************************************************************)
EXTENDS Naturals, FiniteSetTheorems, TLAPS, WellFoundedInduction

LEMMA LeastElement ==
  ASSUME NEW T, T \subseteq Nat, T # {}
  PROVE  \E n \in T : \A k \in T : n <= k
<1> DEFINE R == OpToRel(<, Nat)
<1>1. IsWellFoundedOn(R, Nat)
  BY NatLessThanWellFounded
<1>2. \A x, y \in Nat : x < y => <<x, y>> \in R
  BY DEF OpToRel
<1> HIDE DEF R
<1>3. PICK n \in T : \A k \in T : ~(<<k, n>> \in R)
  BY <1>1, WFMin
<1>4. ASSUME NEW k \in T PROVE n <= k
  <2>1. n \in Nat /\ k \in Nat
    OBVIOUS
  <2>2. ~(k < n)
    BY <1>2, <1>3, <2>1
  <2> QED  BY <2>1, <2>2
<1> QED  BY <1>4

\* What holds at 0 and with every number at the next holds of all.
LEMMA Reaches ==
  ASSUME NEW T, 0 \in T, \A n \in Nat : n \in T => n + 1 \in T
  PROVE  Nat \subseteq T
<1> SUFFICES ASSUME NEW k \in Nat, k \notin T PROVE FALSE
  OBVIOUS
<1> DEFINE U == {n \in Nat : n \notin T}
<1>1. PICK n \in U : \A j \in U : n <= j
  <2>1. k \in U /\ U \subseteq Nat
    OBVIOUS
  <2> HIDE DEF U
  <2> QED  BY <2>1, LeastElement
<1>2. n \in Nat /\ n \notin T /\ n # 0
  OBVIOUS
<1>3. n - 1 \in Nat /\ n - 1 + 1 = n /\ ~(n <= n - 1)
  BY <1>2
<1>4. n - 1 \in T
  BY <1>1, <1>3
<1>5. n - 1 + 1 \in T
  BY <1>3, <1>4
<1> QED  BY <1>2, <1>3, <1>5

(***************************************************************************)
(* A function defined on a set of nodes, from its value at the parent of a *)
(* node or at once: it exists when the parents have lower ranks.           *)
(***************************************************************************)
Ranks(rank, S, up, par) ==
  /\ \A b \in S : rank[b] \in Nat
  /\ \A b \in up : b \in S /\ par[b] \in S /\ rank[par[b]] < rank[b]

Computes(g, S, V, up, par, first, step) ==
  /\ g \in [S -> V]
  /\ g = [b \in S |-> IF b \in up THEN step[<<b, g[par[b]]>>] ELSE first[b]]

LEMMA RankedClaim ==
  ASSUME NEW S, NEW up, NEW par, NEW rank, Ranks(rank, S, up, par),
         NEW T, \A b \in S : (b \in up => par[b] \in T) => b \in T
  PROVE  S \subseteq T
<1> DEFINE U == {n \in Nat : \A b \in S : rank[b] < n => b \in T}
<1>1. 0 \in U
  BY DEF Ranks
<1>2. \A n \in Nat : n \in U => n + 1 \in U
  <2> SUFFICES ASSUME NEW n \in U, NEW b \in S, rank[b] < n + 1
               PROVE  b \in T
    OBVIOUS
  <2>1. b \in up => par[b] \in S /\ rank[par[b]] < n
    BY DEF Ranks
  <2> QED  BY <2>1
<1>3. Nat \subseteq U
  <2> HIDE DEF U
  <2> QED  BY <1>1, <1>2, Reaches
<1>4. ASSUME NEW b \in S PROVE b \in T
  <2>1. rank[b] + 1 \in Nat /\ rank[b] < rank[b] + 1
    BY DEF Ranks
  <2>2. rank[b] + 1 \in U
    BY <1>3, <2>1
  <2> QED  BY <2>1, <2>2
<1> QED  BY <1>4

LEMMA RankedRecursion ==
  ASSUME NEW S, NEW up, NEW par, NEW rank, Ranks(rank, S, up, par),
         NEW limit \in Nat, \A b \in S : rank[b] < limit,
         NEW V, NEW first \in [S -> V], NEW step \in [S \X V -> V]
  PROVE  \E g : Computes(g, S, V, up, par, first, step)
<1> DEFINE Below(n, g) ==
             \A b \in S : rank[b] < n =>
               g[b] = IF b \in up THEN step[<<b, g[par[b]]>>] ELSE first[b]
           Onward(g) == [b \in S |-> IF b \in up THEN step[<<b, g[par[b]]>>] ELSE first[b]]
           U == {n \in Nat : \E g \in [S -> V] : Below(n, g)}
<1>1. 0 \in U
  <2>1. Below(0, first)
    BY DEF Ranks
  <2> QED  BY <2>1
<1>2. ASSUME NEW n \in Nat, NEW g \in [S -> V], Below(n, g)
      PROVE  Onward(g) \in [S -> V] /\ Below(n + 1, Onward(g))
  <2>1. \A b \in up : g[par[b]] \in V /\ <<b, g[par[b]]>> \in S \X V
    BY DEF Ranks
  <2>2. Onward(g) \in [S -> V]
    BY <2>1
  <2>3. \A b \in S : rank[b] < n => Onward(g)[b] = g[b]
    BY <1>2
  <2>4. ASSUME NEW b \in S, rank[b] < n + 1
        PROVE  Onward(g)[b] =
                 IF b \in up THEN step[<<b, Onward(g)[par[b]]>>] ELSE first[b]
    <3>1. CASE b \in up
      <4>1. par[b] \in S /\ rank[par[b]] < n
        BY <2>4, <3>1 DEF Ranks
      <4>2. Onward(g)[par[b]] = g[par[b]]
        BY <2>3, <4>1
      <4>3. Onward(g)[b] = step[<<b, g[par[b]]>>]
        BY <3>1
      <4> QED  BY <3>1, <4>2, <4>3
    <3>2. CASE b \notin up
      BY <3>2
    <3> QED  BY <3>1, <3>2
  <2> QED  BY <2>2, <2>4
<1>3. \A n \in Nat : n \in U => n + 1 \in U
  <2> SUFFICES ASSUME NEW n \in Nat, NEW g \in [S -> V], Below(n, g)
               PROVE  \E h \in [S -> V] : Below(n + 1, h)
    OBVIOUS
  <2> HIDE DEF Below, Onward
  <2> QED  BY <1>2
<1>4. Nat \subseteq U
  <2> HIDE DEF U
  <2> QED  BY <1>1, <1>3, Reaches
<1>5. PICK g \in [S -> V] : Below(limit, g)
  <2>1. limit \in U
    BY <1>4
  <2> QED  BY <2>1
<1>6. g = Onward(g)
  BY <1>5
<1> QED  BY <1>6 DEF Computes

(***************************************************************************)
(* A fold over a finite set takes its elements out one at a time, in an    *)
(* order "pick" decides: so it is a recursion on the subsets of the set.   *)
(***************************************************************************)
Picks(pick, S) == \A A \in SUBSET S : A # {} => pick[A] \in A

FoldsOver(g, S, pick, base, step) ==
  g = [A \in SUBSET S |->
         IF A = {} THEN base ELSE step[<<pick[A], g[A \ {pick[A]}]>>]]

LEMMA SubsetRanks ==
  ASSUME NEW S, IsFiniteSet(S), NEW pick, Picks(pick, S)
  PROVE  /\ Ranks([A \in SUBSET S |-> Cardinality(A)], SUBSET S,
                  (SUBSET S) \ {{}}, [A \in SUBSET S |-> A \ {pick[A]}])
         /\ Cardinality(S) + 1 \in Nat
         /\ \A A \in SUBSET S : Cardinality(A) < Cardinality(S) + 1
<1>1. \A A \in SUBSET S : IsFiniteSet(A) /\ Cardinality(A) <= Cardinality(S)
  BY FS_Subset
<1>2. \A A \in SUBSET S : Cardinality(A) \in Nat
  BY <1>1, FS_CardinalityType
<1>3. ASSUME NEW A \in SUBSET S, A # {}
      PROVE  A \ {pick[A]} \in SUBSET S
             /\ Cardinality(A \ {pick[A]}) = Cardinality(A) - 1
  BY <1>1, <1>3, FS_RemoveElement DEF Picks
<1>4. \A A \in SUBSET S : A # {} => Cardinality(A \ {pick[A]}) < Cardinality(A)
  BY <1>2, <1>3
<1>5. Cardinality(S) \in Nat
  BY <1>2
<1>6. \A A \in SUBSET S : Cardinality(A) < Cardinality(S) + 1
  BY <1>1, <1>2, <1>5
<1> QED  BY <1>2, <1>3, <1>4, <1>5, <1>6 DEF Ranks

\* What holds of the empty set and is kept by putting an element back holds
\* of every subset.
LEMMA SubsetClaim ==
  ASSUME NEW S, IsFiniteSet(S), NEW pick, Picks(pick, S),
         NEW T, {} \in T,
         \A A \in SUBSET S : A # {} /\ A \ {pick[A]} \in T => A \in T
  PROVE  \A A \in SUBSET S : A \in T
<1> DEFINE nodes == SUBSET S
           up    == (SUBSET S) \ {{}}
           par   == [A \in SUBSET S |-> A \ {pick[A]}]
           rank  == [A \in SUBSET S |-> Cardinality(A)]
<1>1. Ranks(rank, nodes, up, par)
  BY SubsetRanks
<1>2. \A A \in nodes : (A \in up => par[A] \in T) => A \in T
  OBVIOUS
<1> HIDE DEF nodes, up, par, rank
<1>3. nodes \subseteq T
  BY <1>1, <1>2, RankedClaim
<1> QED  BY <1>3 DEF nodes

LEMMA FoldExists ==
  ASSUME NEW S, IsFiniteSet(S), NEW pick, Picks(pick, S),
         NEW V, NEW base \in V, NEW step \in [S \X V -> V]
  PROVE  \E g \in [SUBSET S -> V] : FoldsOver(g, S, pick, base, step)
<1> DEFINE nodes == SUBSET S
           up    == (SUBSET S) \ {{}}
           par   == [A \in SUBSET S |-> A \ {pick[A]}]
           rank  == [A \in SUBSET S |-> Cardinality(A)]
           limit == Cardinality(S) + 1
           first == [A \in SUBSET S |-> base]
           next  == [p \in (SUBSET S) \X V |->
                       IF p[1] = {} THEN base ELSE step[<<pick[p[1]], p[2]>>]]
<1>1. Ranks(rank, nodes, up, par) /\ limit \in Nat /\ \A A \in nodes : rank[A] < limit
  BY SubsetRanks
<1>2. first \in [nodes -> V]
  OBVIOUS
<1>3. next \in [nodes \X V -> V]
  <2> SUFFICES ASSUME NEW A \in SUBSET S, NEW v \in V, A # {}
               PROVE  step[<<pick[A], v>>] \in V
    OBVIOUS
  <2>1. pick[A] \in S
    BY DEF Picks
  <2> QED  BY <2>1
<1> HIDE DEF nodes, up, par, rank, limit, first, next
<1>4. PICK g : Computes(g, nodes, V, up, par, first, next)
  BY <1>1, <1>2, <1>3, RankedRecursion
<1> USE DEF nodes, up, par, first, next
<1>5. g \in [SUBSET S -> V]
  BY <1>4 DEF Computes
<1>6. ASSUME NEW A \in SUBSET S
      PROVE  g[A] = IF A = {} THEN base ELSE step[<<pick[A], g[A \ {pick[A]}]>>]
  <2>1. g[A] = IF A \in up THEN next[<<A, g[par[A]]>>] ELSE first[A]
    BY <1>4 DEF Computes
  <2>2. CASE A = {}
    BY <2>1, <2>2
  <2>3. CASE A # {}
    <3>1. A \in up /\ par[A] = A \ {pick[A]} /\ A \ {pick[A]} \in SUBSET S
      BY <2>3
    <3>2. g[A \ {pick[A]}] \in V
      BY <1>5, <3>1
    <3>3. next[<<A, g[A \ {pick[A]}]>>] = step[<<pick[A], g[A \ {pick[A]}]>>]
      BY <2>3, <3>2
    <3> HIDE DEF up, par, next, first
    <3> QED  BY <2>1, <2>3, <3>1, <3>3
  <2> QED  BY <2>2, <2>3
<1>7. FoldsOver(g, S, pick, base, step)
  BY <1>5, <1>6 DEF FoldsOver
<1> QED  BY <1>5, <1>7

=============================================================================
