----------------------------- MODULE ListsAndSums -----------------------------
(***************************************************************************)
(* Lemmas about finite data that the proofs about plans and archives need: *)
(* the least element of a set of numbers, sums over finite sets, and the   *)
(* list of a finite set in a strict total order.                           *)
(***************************************************************************)
EXTENDS Integers, Sequences, FiniteSetsExt, FiniteSetTheorems,
        WellFoundedInduction, TLAPS

\* Every set of natural numbers that is not empty has a least element: what
\* stands for induction below.
LEMMA LeastNumber ==
  ASSUME NEW T, T \subseteq Nat, T # {}
  PROVE  \E n \in T : \A m \in T : n <= m
<1>1. PICK n \in T : \A m \in T : ~ (<<m, n>> \in OpToRel(<, Nat))
  BY NatLessThanWellFounded, WFMin, Zenon
<1>2. \A m \in T : m \in Nat /\ n \in Nat
  OBVIOUS
<1>3. \A m \in T : ~ (m < n)
  <2>1. ASSUME NEW m \in T, m < n PROVE FALSE
    <3>1. <<m, n>> \in OpToRel(<, Nat)
      BY <1>2, <2>1 DEF OpToRel
    <3> QED
      BY <1>1, <3>1
  <2> QED
    BY <2>1
<1> QED
  BY <1>2, <1>3

\* A finite set less an element is smaller by one.
LEMMA OneLess ==
  ASSUME NEW S, IsFiniteSet(S), NEW x \in S
  PROVE  /\ IsFiniteSet(S \ {x})
         /\ Cardinality(S) \in Nat /\ Cardinality(S \ {x}) \in Nat
         /\ Cardinality(S \ {x}) = Cardinality(S) - 1
BY FS_RemoveElement, FS_CardinalityType

\* What holds of a set whenever it holds of its proper subsets holds of every
\* finite set.
LEMMA SetInduction ==
  ASSUME NEW S, IsFiniteSet(S), NEW P,
         \A s \in SUBSET S : (\A t \in SUBSET s : t # s => t \in P) => s \in P
  PROVE  \A s \in SUBSET S : s \in P
<1> DEFINE Sizes == {Cardinality(s) : s \in (SUBSET S) \ P}
<1>1. SUFFICES ASSUME NEW r \in SUBSET S, r \notin P PROVE FALSE
  OBVIOUS
<1>2. \A s \in SUBSET S : IsFiniteSet(s) /\ Cardinality(s) \in Nat
  BY FS_Subset, FS_CardinalityType
<1>3. Sizes \subseteq Nat /\ Sizes # {}
  BY <1>1, <1>2
<1>4. PICK n \in Sizes : \A m \in Sizes : n <= m
  BY <1>3, LeastNumber
<1>5. PICK s \in (SUBSET S) \ P : Cardinality(s) = n
  OBVIOUS
<1>6. ASSUME NEW t \in SUBSET s, t # s PROVE t \in P
  <2>1. /\ Cardinality(t) \in Nat /\ Cardinality(s) \in Nat
        /\ Cardinality(t) <= Cardinality(s) /\ Cardinality(t) # Cardinality(s)
    BY <1>2, <1>6, FS_Subset
  <2>2. Cardinality(t) \notin Sizes
    BY <1>4, <1>5, <2>1
  <2> QED
    BY <2>2
<1> QED
  BY <1>5, <1>6

------------------------------------------------------------------------------
(* Sums.                                                                   *)

\* The sum of the weights of the elements of S ...
SumOf(w, S) == MapThenSumSet(LAMBDA x : w[x], S)

\* ... and the recursion behind it.
Chosen(s) == CHOOSE x \in s : TRUE
Rest(s) == s \ {Chosen(s)}
Adds(g, w, S) ==
  g = [s \in SUBSET S |-> IF s = {} THEN 0 ELSE w[Chosen(s)] + g[Rest(s)]]
Adder(w, S) == CHOOSE g : Adds(g, w, S)

\* The library's sum is that recursion.
LEMMA SumIsFold ==
  ASSUME NEW w, NEW S PROVE SumOf(w, S) = Adder(w, S)[S]
BY DEF SumOf, MapThenSumSet, MapThenFoldSet, Adds, Adder, Chosen, Rest

\* What is left of a finite set is smaller by one.
LEMMA RestSmaller ==
  ASSUME NEW S, IsFiniteSet(S), S # {}
  PROVE  /\ Chosen(S) \in S /\ Rest(S) \subseteq S /\ IsFiniteSet(Rest(S))
         /\ Cardinality(S) \in Nat /\ Cardinality(Rest(S)) \in Nat
         /\ Cardinality(Rest(S)) = Cardinality(S) - 1
<1>1. Chosen(S) \in S
  BY DEF Chosen
<1> QED
  BY <1>1, OneLess DEF Rest

\* One step of the recursion.
LEMMA AddsStep ==
  ASSUME NEW g, NEW w, NEW S, Adds(g, w, S), NEW s, s \subseteq S
  PROVE  /\ s = {} => g[s] = 0
         /\ s # {} => g[s] = w[Chosen(s)] + g[Rest(s)]
BY DEF Adds

\* Two recursions over the weights agree where both are defined.
LEMMA AddsAgree ==
  ASSUME NEW w, NEW S, NEW T, NEW g, NEW h, Adds(g, w, S), Adds(h, w, T),
         NEW s, s \subseteq S, s \subseteq T, IsFiniteSet(s)
  PROVE  g[s] = h[s]
<1> DEFINE P == {t \in SUBSET s : g[t] = h[t]}
<1>1. ASSUME NEW t \in SUBSET s, \A u \in SUBSET t : u # t => u \in P
      PROVE  t \in P
  <2>1. CASE t = {}
    BY <2>1, AddsStep
  <2>2. CASE t # {}
    <3>1. Rest(t) \in SUBSET t /\ Rest(t) # t
      BY <2>2, FS_Subset, RestSmaller DEF Rest
    <3>2. g[Rest(t)] = h[Rest(t)]
      BY <1>1, <3>1
    <3>3. /\ g[t] = w[Chosen(t)] + g[Rest(t)]
          /\ h[t] = w[Chosen(t)] + h[Rest(t)]
      BY <2>2, AddsStep
    <3> QED
      BY <3>2, <3>3
  <2> QED
    BY <2>1, <2>2
<1>2. \A t \in SUBSET s : t \in P
  <2> HIDE DEF P
  <2> QED
    BY <1>1, SetInduction
<1> QED
  BY <1>2

\* The recursion is defined on every finite set.
LEMMA AddsExists ==
  ASSUME NEW w, NEW S, IsFiniteSet(S)
  PROVE  Adds(Adder(w, S), w, S)
<1> DEFINE OK(s) == Adds(Adder(w, s), w, s)
           P == {s \in SUBSET S : OK(s)}
<1>1. ASSUME NEW u \in SUBSET S, \A s \in SUBSET u : s # u => s \in P
      PROVE  u \in P
  <2> DEFINE Total(s) == Adder(w, s)[s]
             G == [s \in SUBSET u |-> IF s = {} THEN 0
                                      ELSE w[Chosen(s)] + Total(Rest(s))]
  <2>1. ASSUME NEW s \in SUBSET u, s # {}
        PROVE  /\ Rest(s) \subseteq u /\ Rest(s) \subseteq s
               /\ IsFiniteSet(Rest(s)) /\ OK(Rest(s))
    <3>1. /\ Chosen(s) \in s /\ Rest(s) \subseteq s /\ IsFiniteSet(Rest(s))
          /\ Chosen(s) \notin Rest(s)
      BY <2>1, FS_Subset, RestSmaller DEF Rest
    <3>2. Rest(s) \in SUBSET u /\ Rest(s) # u
      BY <3>1
    <3>3. Rest(s) \in P
      BY <1>1, <3>2
    <3> QED
      BY <3>1, <3>2, <3>3
  <2>2. ASSUME NEW s \in SUBSET u, s # {}
        PROVE  G[Rest(s)] = Total(Rest(s))
    <3> DEFINE t == Rest(s)
    <3>1. t \subseteq u /\ OK(t)
      BY <2>1, <2>2
    <3>2. CASE t = {}
      BY <3>1, <3>2, AddsStep
    <3>3. CASE t # {}
      <4>1. /\ Rest(t) \subseteq u /\ Rest(t) \subseteq t
            /\ OK(Rest(t)) /\ IsFiniteSet(Rest(t))
        BY <2>1, <3>1, <3>3
      <4> HIDE DEF t
      <4>2. Adder(w, t)[Rest(t)] = Total(Rest(t))
        BY <3>1, <4>1, AddsAgree
      <4>3. Total(t) = w[Chosen(t)] + Adder(w, t)[Rest(t)]
        BY <3>1, <3>3, AddsStep
      <4>4. G[t] = w[Chosen(t)] + Total(Rest(t))
        <5> HIDE DEF Total
        <5> QED
          BY <3>1, <3>3
      <4>5. G[t] = Total(t)
        BY <4>2, <4>3, <4>4
      <4> QED
        BY <4>5 DEF t
    <3> QED
      BY <3>2, <3>3
  <2>3. Adds(G, w, u)
    <3>1. \A s \in SUBSET u : s # {} => Total(Rest(s)) = G[Rest(s)]
      BY <2>2
    <3> HIDE DEF Total
    <3> DEFINE H == [s \in SUBSET u |-> IF s = {} THEN 0 ELSE w[Chosen(s)] + G[Rest(s)]]
    <3>2. \A s \in SUBSET u : G[s] = H[s]
      BY <3>1
    <3>3. G = H
      BY <3>2
    <3> HIDE DEF G
    <3> QED
      BY <3>3 DEF Adds
  <2>4. OK(u)
    <3> HIDE DEF G
    <3> QED
      BY <2>3 DEF Adder
  <2> HIDE DEF OK
  <2> QED
    BY <2>4
<1> HIDE DEF P
<1>2. \A s \in SUBSET S : s \in P
  BY <1>1, SetInduction
<1> QED
  BY <1>2 DEF P

\* The sum of the empty set, and of another from one of its elements.
LEMMA SumUnfolds ==
  ASSUME NEW w, NEW S, IsFiniteSet(S)
  PROVE  /\ S = {} => SumOf(w, S) = 0
         /\ S # {} => SumOf(w, S) = w[Chosen(S)] + SumOf(w, Rest(S))
<1>1. Adds(Adder(w, S), w, S)
  BY AddsExists
<1>2. CASE S = {}
  BY <1>1, <1>2, AddsStep, SumIsFold
<1>3. CASE S # {}
  <2>1. Rest(S) \subseteq S /\ IsFiniteSet(Rest(S))
    BY <1>3, RestSmaller
  <2>2. Adds(Adder(w, Rest(S)), w, Rest(S))
    BY <2>1, AddsExists
  <2>3. Adder(w, S)[Rest(S)] = Adder(w, Rest(S))[Rest(S)]
    BY <1>1, <2>1, <2>2, AddsAgree
  <2>4. Adder(w, S)[S] = w[Chosen(S)] + Adder(w, S)[Rest(S)]
    BY <1>1, <1>3, AddsStep
  <2> QED
    BY <1>3, <2>3, <2>4, SumIsFold
<1> QED
  BY <1>2, <1>3

\* A sum of integers is an integer, and any element can be taken out of it.
LEMMA SumTakesOut ==
  ASSUME NEW w, NEW S, IsFiniteSet(S), \A x \in S : w[x] \in Int
  PROVE  /\ SumOf(w, S) \in Int
         /\ \A x \in S : SumOf(w, S) = w[x] + SumOf(w, S \ {x})
<1> DEFINE OK(s) == /\ SumOf(w, s) \in Int
                    /\ \A x \in s : SumOf(w, s) = w[x] + SumOf(w, s \ {x})
           P == {s \in SUBSET S : OK(s)}
<1>1. ASSUME NEW u \in SUBSET S, \A t \in SUBSET u : t # u => t \in P
      PROVE  u \in P
  <2>1. \A t \in SUBSET u : t # u => OK(t)
    BY <1>1
  <2>2. IsFiniteSet(u)
    BY FS_Subset
  <2>3. ASSUME u = {} PROVE OK(u)
    <3>1. SumOf(w, u) = 0
      BY <2>2, <2>3, SumUnfolds
    <3> QED
      BY <2>3, <3>1
  <2>4. ASSUME u # {} PROVE OK(u)
    <3> DEFINE c == Chosen(u)
    <3>1. c \in u /\ SumOf(w, u) = w[c] + SumOf(w, u \ {c})
      BY <2>2, <2>4, SumUnfolds DEF Chosen, Rest
    <3> HIDE DEF c
    <3>2. SumOf(w, u) \in Int
      BY <2>1, <3>1
    <3>3. ASSUME NEW x \in u, x # c
          PROVE  SumOf(w, u) = w[x] + SumOf(w, u \ {x})
      <4> DEFINE r == SumOf(w, (u \ {x}) \ {c})
      <4>1. (u \ {c}) \ {x} = (u \ {x}) \ {c}
        OBVIOUS
      <4>2. SumOf(w, u \ {c}) = w[x] + r
        BY <2>1, <3>1, <3>3, <4>1
      <4>3. SumOf(w, u \ {x}) = w[c] + r
        BY <2>1, <3>1, <3>3
      <4>4. r \in Int
        BY <2>1, <3>1
      <4>5. w[x] \in Int /\ w[c] \in Int
        BY <3>1
      <4> DEFINE a == SumOf(w, u)  b == SumOf(w, u \ {x})
      <4>6. a = w[c] + (w[x] + r)
        BY <3>1, <4>2
      <4> HIDE DEF a, b, r
      <4>7. a = w[x] + (w[c] + r)
        BY <4>4, <4>5, <4>6
      <4> QED
        BY <4>3, <4>7 DEF a, b
    <3> QED
      BY <3>1, <3>2, <3>3
  <2> HIDE DEF OK
  <2>5. OK(u)
    BY <2>3, <2>4
  <2> QED
    BY <2>5
<1> HIDE DEF P
<1>2. \A s \in SUBSET S : s \in P
  BY <1>1, SetInduction
<1> QED
  BY <1>2 DEF P

\* A sum grows by what is put in.
LEMMA SumPutsIn ==
  ASSUME NEW w, NEW S, IsFiniteSet(S), NEW x, x \notin S,
         \A y \in S \cup {x} : w[y] \in Int
  PROVE  SumOf(w, S \cup {x}) = SumOf(w, S) + w[x]
<1>1. IsFiniteSet(S \cup {x}) /\ (S \cup {x}) \ {x} = S
  BY FS_AddElement
<1>2. SumOf(w, S \cup {x}) = w[x] + SumOf(w, S) /\ SumOf(w, S) \in Int
  BY <1>1, SumTakesOut
<1> QED
  BY <1>2

\* A sum depends on the weights of its elements only.
LEMMA SumSame ==
  ASSUME NEW w, NEW v, NEW S, IsFiniteSet(S), \A x \in S : w[x] = v[x]
  PROVE  SumOf(w, S) = SumOf(v, S)
<1> DEFINE g == Adder(w, S)
<1>1. Adds(g, w, S) /\ Adds(Adder(v, S), v, S)
  BY AddsExists
<1> HIDE DEF g
<1>2. Adds(g, v, S)
  <2> DEFINE H == [s \in SUBSET S |-> IF s = {} THEN 0 ELSE w[Chosen(s)] + g[Rest(s)]]
             K == [s \in SUBSET S |-> IF s = {} THEN 0 ELSE v[Chosen(s)] + g[Rest(s)]]
  <2>1. \A s \in SUBSET S : s # {} => Chosen(s) \in S
    BY DEF Chosen
  <2>2. \A s \in SUBSET S : H[s] = K[s]
    BY <2>1
  <2>3. H = K
    BY <2>2
  <2>4. g = H
    BY <1>1 DEF Adds
  <2> HIDE DEF H
  <2> QED
    BY <2>3, <2>4 DEF Adds
<1>3. g[S] = Adder(v, S)[S]
  BY <1>1, <1>2, AddsAgree
<1> QED
  BY <1>3, SumIsFold DEF g

\* With natural weights a sum is no smaller than one over a part of the set.
LEMMA SumGrows ==
  ASSUME NEW w, NEW S, IsFiniteSet(S), \A x \in S : w[x] \in Nat
  PROVE  \A t \in SUBSET S : SumOf(w, t) \in Nat /\ SumOf(w, t) <= SumOf(w, S)
<1> DEFINE OK(s) == \A t \in SUBSET s :
                      SumOf(w, t) \in Nat /\ SumOf(w, t) <= SumOf(w, s)
           P == {s \in SUBSET S : OK(s)}
<1>1. ASSUME NEW u \in SUBSET S, \A t \in SUBSET u : t # u => t \in P
      PROVE  u \in P
  <2>1. \A t \in SUBSET u : t # u => OK(t)
    BY <1>1
  <2>2. IsFiniteSet(u) /\ \A x \in u : w[x] \in Int
    BY FS_Subset
  <2>3. SumOf(w, u) \in Nat
    <3>1. CASE u = {}
      <4>1. SumOf(w, u) = 0
        BY <2>2, <3>1, SumUnfolds
      <4> QED
        BY <4>1
    <3>2. CASE u # {}
      <4>1. PICK x \in u : TRUE
        BY <3>2
      <4>2. SumOf(w, u) = w[x] + SumOf(w, u \ {x})
        BY <2>2, SumTakesOut
      <4>3. SumOf(w, u \ {x}) \in Nat /\ w[x] \in Nat
        BY <2>1
      <4> QED
        BY <4>2, <4>3
    <3> QED
      BY <3>1, <3>2
  <2>4. ASSUME NEW t \in SUBSET u, t # u
        PROVE  SumOf(w, t) \in Nat /\ SumOf(w, t) <= SumOf(w, u)
    <3>1. PICK x \in u : x \notin t
      BY <2>4
    <3>2. SumOf(w, u) = w[x] + SumOf(w, u \ {x})
      BY <2>2, SumTakesOut
    <3>3. /\ SumOf(w, t) \in Nat /\ SumOf(w, t) <= SumOf(w, u \ {x})
          /\ SumOf(w, u \ {x}) \in Nat /\ w[x] \in Nat
      <4>1. OK(u \ {x}) /\ t \in SUBSET (u \ {x})
        BY <2>1, <3>1
      <4> QED
        BY <4>1
    <3> DEFINE a == SumOf(w, t)  b == SumOf(w, u \ {x})  d == SumOf(w, u)
    <3>4. a \in Nat /\ b \in Nat /\ a <= b /\ d = w[x] + b /\ w[x] \in Nat
      BY <3>2, <3>3
    <3> HIDE DEF a, b, d
    <3>5. a <= d
      BY <3>4
    <3> QED
      BY <3>3, <3>5 DEF a, d
  <2>5. OK(u)
    BY <2>3, <2>4
  <2> HIDE DEF OK
  <2> QED
    BY <2>5
<1> HIDE DEF P
<1>2. \A s \in SUBSET S : s \in P
  BY <1>1, SetInduction
<1> QED
  BY <1>2 DEF P

------------------------------------------------------------------------------
(* Lists.                                                                  *)

\* A strict total order on S, as a set of pairs.
Orders(R, S) ==
  /\ \A x \in S : <<x, x>> \notin R
  /\ \A x, y, z \in S : <<x, y>> \in R /\ <<y, z>> \in R => <<x, z>> \in R
  /\ \A x, y \in S : x = y \/ <<x, y>> \in R \/ <<y, x>> \in R

\* How many come before x, and a list of S by that number.
Rank(R, S, x) == Cardinality({y \in S : <<y, x>> \in R})
Listed(R, S, q) ==
  /\ q = [i \in 1..Cardinality(S) |-> q[i]]
  /\ \A i \in 1..Cardinality(S) :
       (\E x \in S : Rank(R, S, x) = i - 1)
         => q[i] \in S /\ Rank(R, S, q[i]) = i - 1

\* The list of a finite set in a strict total order has every element, once,
\* each after those that are before it.
LEMMA ListedInOrder ==
  ASSUME NEW R, NEW S, IsFiniteSet(S), Orders(R, S), NEW q, Listed(R, S, q)
  PROVE  /\ q \in Seq(S) /\ Len(q) = Cardinality(S) /\ Cardinality(S) \in Nat
         /\ \A x \in S : \E i \in 1..Len(q) : q[i] = x
         /\ \A i, j \in 1..Len(q) : i < j => <<q[i], q[j]>> \in R
<1> DEFINE n == Cardinality(S)
           rank(x) == Rank(R, S, x)
<1>1. n \in Nat
  BY FS_CardinalityType
<1>2. \A x \in S : rank(x) \in Nat
  BY FS_Subset, FS_CardinalityType DEF Rank
<1>3. ASSUME NEW x \in S, NEW y \in S, <<x, y>> \in R
      PROVE  rank(x) < rank(y)
  <2> DEFINE A == {z \in S : <<z, x>> \in R}
             B == {z \in S : <<z, y>> \in R}
  <2>1. A \subseteq B /\ B \subseteq S /\ x \in B /\ x \notin A
    BY <1>3 DEF Orders
  <2>2. rank(x) = Cardinality(A) /\ rank(y) = Cardinality(B)
    BY DEF Rank
  <2> HIDE DEF A, B
  <2>3. Cardinality(A) <= Cardinality(B) /\ Cardinality(A) # Cardinality(B)
    BY <2>1, FS_Subset
  <2> HIDE DEF rank
  <2> QED
    BY <1>2, <2>2, <2>3
<1>4. ASSUME NEW x \in S PROVE rank(x) + 1 \in 1..n
  <2> DEFINE A == {z \in S : <<z, x>> \in R}
  <2>1. A \subseteq S /\ x \notin A /\ rank(x) = Cardinality(A)
    BY DEF Orders, Rank
  <2> HIDE DEF A
  <2>2. Cardinality(A) <= n /\ Cardinality(A) # n
    BY <2>1, FS_Subset
  <2> HIDE DEF rank
  <2> QED
    BY <1>1, <1>2, <2>1, <2>2
<1>5. /\ n = Cardinality(S)
      /\ \A i \in 1..n : (\E x \in S : rank(x) = i - 1)
                            => q[i] \in S /\ rank(q[i]) = i - 1
      /\ q = [i \in 1..n |-> q[i]]
  BY DEF Listed
<1> HIDE DEF rank, n
<1>6. ASSUME NEW x \in S, NEW y \in S, x # y PROVE rank(x) # rank(y)
  <2>1. <<x, y>> \in R \/ <<y, x>> \in R
    BY <1>6 DEF Orders
  <2>2. rank(x) \in Nat /\ rank(y) \in Nat
    BY <1>2
  <2>3. rank(x) < rank(y) \/ rank(y) < rank(x)
    BY <1>3, <2>1
  <2> QED
    BY <2>2, <2>3
<1> DEFINE f == [x \in S |-> rank(x) + 1]
<1>7. \A x \in S : f[x] = rank(x) + 1
  OBVIOUS
<1>8. f \in Surjection(S, 1..n)
  <2>1. f \in [S -> 1..n]
    BY <1>4
  <2> HIDE DEF f
  <2>2. \A x, y \in S : f[x] = f[y] => x = y
    <3>1. ASSUME NEW x \in S, NEW y \in S, f[x] = f[y] PROVE x = y
      <4>1. rank(x) = rank(y)
        BY <1>2, <1>7, <3>1
      <4> QED
        BY <1>6, <4>1
    <3> QED
      BY <3>1
  <2>3. f \in Injection(S, 1..n)
    BY <2>1, <2>2 DEF Injection, IsInjective
  <2>4. IsFiniteSet(1..n) /\ Cardinality(1..n) = n
    BY <1>1, FS_Interval
  <2> QED
    BY <1>5, <2>3, <2>4, FS_Injection
<1> HIDE DEF f
<1>9. ASSUME NEW i \in 1..n PROVE q[i] \in S /\ rank(q[i]) = i - 1
  <2>1. PICK x \in S : f[x] = i
    BY <1>8 DEF Surjection
  <2>2. rank(x) = i - 1
    BY <1>1, <1>2, <1>7, <2>1
  <2> QED
    BY <1>5, <2>2
<1>10. q \in Seq(S) /\ Len(q) = n
  BY <1>1, <1>5, <1>9
<1>11. ASSUME NEW x \in S PROVE \E i \in 1..Len(q) : q[i] = x
  <2> DEFINE i == rank(x) + 1
  <2>1. i \in 1..n /\ i - 1 = rank(x)
    BY <1>2, <1>4
  <2> HIDE DEF i
  <2>2. q[i] \in S /\ rank(q[i]) = rank(x)
    BY <1>9, <2>1
  <2>3. q[i] = x
    BY <1>6, <2>2
  <2> QED
    BY <1>10, <2>1, <2>3
<1>12. ASSUME NEW i \in 1..n, NEW j \in 1..n, i < j
       PROVE  <<q[i], q[j]>> \in R
  <2>1. /\ q[i] \in S /\ q[j] \in S
        /\ rank(q[i]) = i - 1 /\ rank(q[j]) = j - 1
    BY <1>9
  <2>2. q[i] # q[j]
    BY <1>1, <1>12, <2>1
  <2>3. ASSUME <<q[j], q[i]>> \in R PROVE FALSE
    <3>1. rank(q[j]) < rank(q[i])
      BY <1>3, <2>1, <2>3
    <3> QED
      BY <1>1, <1>12, <2>1, <3>1
  <2> QED
    BY <2>1, <2>2, <2>3 DEF Orders
<1> QED
  BY <1>1, <1>5, <1>10, <1>11, <1>12
=============================================================================
