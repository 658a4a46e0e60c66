---------------------------- MODULE FoldTheorems ----------------------------
(***************************************************************************)
(* Sums over finite sets and folds over sequences, as the community        *)
(* modules compute them: SumFunctionOnSet by a recursive function on the   *)
(* subsets, which takes out one chosen element after the other, FoldLeft   *)
(* by one that takes out the last place.  Induction over a finite set or   *)
(* up to a number is a first-order argument about a least counterexample.  *)
(***************************************************************************)
EXTENDS Integers, SequencesExt, FiniteSetTheorems, SequenceTheorems, FunctionTheorems,
        WellFoundedInduction, TLAPS

Pick(s) == CHOOSE x \in s : TRUE

(* g is the function that computes the sum of f over S. *)
Summing(g, f, S) ==
  g = [s \in SUBSET S |-> IF s = {} THEN 0 ELSE f[Pick(s)] + g[s \ {Pick(s)}]]
Folded(f, S) == CHOOSE g : Summing(g, f, S)

-----------------------------------------------------------------------------
(* A set of numbers has a least one.                                       *)
LEMMA Least ==
  ASSUME NEW T \in SUBSET Nat, T # {} PROVE \E n \in T : \A m \in T : n <= m
<1>1. IsWellFoundedOn(OpToRel(<, Nat), Nat)
  BY NatLessThanWellFounded
<1>2. PICK n \in T : \A m \in T : ~(<<m, n>> \in OpToRel(<, Nat))
  BY <1>1, WFMin
<1>3. \A m \in T : ~(m < n)
  BY <1>2 DEF OpToRel
<1> QED BY <1>3

(* Induction: a set is in P when every subset of it is in P as soon as it  *)
(* is without any one of its elements.                                     *)
LEMMA Shrinking ==
  ASSUME NEW S, IsFiniteSet(S), NEW P,
         \A s \in SUBSET S : (\A x \in s : s \ {x} \in P) => s \in P
  PROVE  S \in P
<1> SUFFICES ASSUME S \notin P PROVE FALSE
  OBVIOUS
<1> DEFINE T == {n \in Nat : \E s \in SUBSET S : Cardinality(s) = n /\ s \notin P}
<1>1. Cardinality(S) \in T
  BY FS_CardinalityType
<1>2. PICK n \in T : \A m \in T : n <= m
  <2> HIDE DEF T
  <2> QED BY <1>1, Least DEF T
<1>3. PICK s \in SUBSET S : Cardinality(s) = n /\ s \notin P
  BY <1>2
<1>4. PICK x \in s : s \ {x} \notin P
  BY <1>3
<1> PICK r : r = s \ {x}
  OBVIOUS
<1>5. IsFiniteSet(s) /\ Cardinality(s) \in Nat
  BY FS_Subset, FS_CardinalityType
<1>6. Cardinality(r) = Cardinality(s) - 1 /\ Cardinality(r) \in Nat
  BY <1>5, FS_RemoveElement, FS_CardinalityType
<1>7. Cardinality(r) \in T
  BY <1>4, <1>6
<1> HIDE DEF T
<1> QED BY <1>2, <1>3, <1>5, <1>6, <1>7

(* The element that is taken out is one of the set.                        *)
LEMMA PickIn == ASSUME NEW s, s # {} PROVE Pick(s) \in s
  BY DEF Pick

(* The library's operator, in these terms.                                 *)
LEMMA SumIsFolded ==
  ASSUME NEW f, NEW S PROVE SumFunctionOnSet(f, S) = Folded(f, S)[S]
  BY DEF SumFunctionOnSet, FoldFunctionOnSet, MapThenFoldSet, Folded, Summing, Pick

(* Two such functions agree where both are defined.                        *)
LEMMA Unique ==
  ASSUME NEW f, NEW A, NEW B, NEW g, NEW h, Summing(g, f, A), Summing(h, f, B),
         NEW t, IsFiniteSet(t), t \subseteq A, t \subseteq B
  PROVE  g[t] = h[t]
<1> DEFINE P == {s \in SUBSET t : g[s] = h[s]}
<1>1. ASSUME NEW s \in SUBSET t, \A x \in s : s \ {x} \in P PROVE s \in P
  <2>1. s \in SUBSET A /\ s \in SUBSET B
    OBVIOUS
  <2>2. g[s] = IF s = {} THEN 0 ELSE f[Pick(s)] + g[s \ {Pick(s)}]
    BY <2>1 DEF Summing
  <2>3. h[s] = IF s = {} THEN 0 ELSE f[Pick(s)] + h[s \ {Pick(s)}]
    BY <2>1 DEF Summing
  <2>4. CASE s = {}
    BY <2>2, <2>3, <2>4
  <2>5. CASE s # {}
    <3>1. g[s \ {Pick(s)}] = h[s \ {Pick(s)}]
      BY <2>5, <1>1, PickIn
    <3> QED BY <2>2, <2>3, <2>5, <3>1
  <2> QED BY <2>4, <2>5
<1>2. t \in P
  <2> HIDE DEF P
  <2> QED BY <1>1, Shrinking
<1> QED BY <1>2

(* So the sum is what any of them says.                                    *)
LEMMA SumOfAny ==
  ASSUME NEW f, NEW S, NEW g, Summing(g, f, S),
         NEW s, IsFiniteSet(s), s \subseteq S, \E h : Summing(h, f, s)
  PROVE  SumFunctionOnSet(f, s) = g[s]
<1>1. Summing(Folded(f, s), f, s)
  BY DEF Folded
<1>2. Folded(f, s)[s] = g[s]
  BY <1>1, Unique
<1> QED BY <1>2, SumIsFolded

(* There is one for every finite set.                                      *)
LEMMA FoldExists ==
  ASSUME NEW f, NEW S, IsFiniteSet(S) PROVE \E g : Summing(g, f, S)
<1> DEFINE P == {s \in SUBSET S : \A t \in SUBSET s : \E g : Summing(g, f, t)}
<1>1. ASSUME NEW s \in SUBSET S, \A x \in s : s \ {x} \in P PROVE s \in P
  <2>1. ASSUME NEW t \in SUBSET s, t # s PROVE IsFiniteSet(t) /\ \E g : Summing(g, f, t)
    <3>1. PICK x \in s : x \notin t
      BY <2>1
    <3>2. t \in SUBSET (s \ {x})
      BY <3>1
    <3> QED BY <1>1, <3>1, <3>2, FS_Subset
  <2>2. ASSUME s = {} PROVE \E g : Summing(g, f, s)
    <3> DEFINE g == [r \in SUBSET s |-> 0]
    <3>1. Summing(g, f, s)
      BY <2>2 DEF Summing
    <3> QED BY <3>1
  <2>3. ASSUME NEW t \in SUBSET s, t # s
        PROVE  SumFunctionOnSet(f, t) = IF t = {} THEN 0 ELSE f[Pick(t)] + SumFunctionOnSet(f, t \ {Pick(t)})
    <3>1. PICK g : Summing(g, f, t)
      BY <2>1, <2>3
    <3>2. IsFiniteSet(t)
      BY <2>1, <2>3
    <3>3. SumFunctionOnSet(f, t) = g[t]
      BY <3>1, <3>2, SumOfAny
    <3>4. t \in SUBSET t
      OBVIOUS
    <3>5. g[t] = IF t = {} THEN 0 ELSE f[Pick(t)] + g[t \ {Pick(t)}]
      BY <3>1, <3>4 DEF Summing
    <3>6. CASE t = {}
      BY <3>3, <3>5, <3>6
    <3>7. CASE t # {}
      <4> PICK r : r = t \ {Pick(t)}
        OBVIOUS
      <4>1. r \in SUBSET s /\ r # s /\ r \subseteq t
        BY <3>7, PickIn
      <4>2. IsFiniteSet(r) /\ \E h : Summing(h, f, r)
        BY <4>1, <2>1
      <4>3. SumFunctionOnSet(f, r) = g[r]
        BY <3>1, <4>1, <4>2, SumOfAny
      <4> QED BY <3>3, <3>5, <3>7, <4>3
    <3> QED BY <3>6, <3>7
  <2>4. ASSUME s # {} PROVE \E g : Summing(g, f, s)
    <3> DEFINE g == [t \in SUBSET s |-> IF t = s THEN f[Pick(s)] + SumFunctionOnSet(f, s \ {Pick(s)})
                                        ELSE SumFunctionOnSet(f, t)]
    <3>1. \A t \in SUBSET s : g[t] = IF t = {} THEN 0 ELSE f[Pick(t)] + g[t \ {Pick(t)}]
      <4> TAKE t \in SUBSET s
      <4>1. CASE t = s
        <5>1. s \ {Pick(s)} \in SUBSET s /\ s \ {Pick(s)} # s
          BY <2>4, PickIn
        <5>2. g[s \ {Pick(s)}] = SumFunctionOnSet(f, s \ {Pick(s)})
          BY <5>1
        <5>3. g[s] = f[Pick(s)] + SumFunctionOnSet(f, s \ {Pick(s)})
          OBVIOUS
        <5> HIDE DEF g
        <5> QED BY <4>1, <5>2, <5>3, <2>4
      <4>2. CASE t # s
        <5>1. g[t] = SumFunctionOnSet(f, t)
          BY <4>2
        <5>2. CASE t = {}
          BY <5>1, <5>2, <4>2, <2>3
        <5>3. CASE t # {}
          <6>1. t \ {Pick(t)} \in SUBSET s /\ t \ {Pick(t)} # s
            BY <5>3, <4>2, PickIn
          <6>2. g[t \ {Pick(t)}] = SumFunctionOnSet(f, t \ {Pick(t)})
            BY <6>1
          <6>3. SumFunctionOnSet(f, t) = f[Pick(t)] + SumFunctionOnSet(f, t \ {Pick(t)})
            BY <5>3, <4>2, <2>3
          <6> HIDE DEF g
          <6> QED BY <5>1, <5>3, <6>2, <6>3
        <5> QED BY <5>2, <5>3
      <4> QED BY <4>1, <4>2
    <3>2. g = [t \in SUBSET s |-> g[t]]
      OBVIOUS
    <3>3. Summing(g, f, s)
      <4> HIDE DEF g
      <4> QED BY <3>1, <3>2 DEF Summing
    <3> QED BY <3>3
  <2>5. \A t \in SUBSET s : \E g : Summing(g, f, t)
    <3> TAKE t \in SUBSET s
    <3> QED BY <2>1, <2>2, <2>4
  <2> QED BY <2>5
<1>2. S \in P
  <2> HIDE DEF P
  <2> QED BY <1>1, Shrinking
<1> QED BY <1>2

-----------------------------------------------------------------------------
(* A sum takes out one chosen element.                                     *)
LEMMA SumUnfolds ==
  ASSUME NEW f, NEW S, IsFiniteSet(S)
  PROVE  SumFunctionOnSet(f, S) = IF S = {} THEN 0 ELSE f[Pick(S)] + SumFunctionOnSet(f, S \ {Pick(S)})
<1>1. PICK g : Summing(g, f, S)
  BY FoldExists
<1>2. S \in SUBSET S
  OBVIOUS
<1>3. g[S] = IF S = {} THEN 0 ELSE f[Pick(S)] + g[S \ {Pick(S)}]
  BY <1>1, <1>2 DEF Summing
<1>4. SumFunctionOnSet(f, S) = g[S]
  BY <1>1, SumOfAny
<1>5. CASE S = {}
  BY <1>3, <1>4, <1>5
<1>6. CASE S # {}
  <2> PICK r : r = S \ {Pick(S)}
    OBVIOUS
  <2>1. IsFiniteSet(r) /\ r \subseteq S
    BY FS_RemoveElement
  <2>2. \E h : Summing(h, f, r)
    BY <2>1, FoldExists
  <2>3. SumFunctionOnSet(f, r) = g[r]
    BY <1>1, <2>1, <2>2, SumOfAny
  <2> QED BY <1>3, <1>4, <1>6, <2>3
<1> QED BY <1>5, <1>6

(* A sum of integers is one.                                               *)
LEMMA SumIsInt ==
  ASSUME NEW f, NEW S, IsFiniteSet(S), \A x \in S : f[x] \in Int
  PROVE  SumFunctionOnSet(f, S) \in Int
<1> DEFINE P == {s \in SUBSET S : SumFunctionOnSet(f, s) \in Int}
<1>1. ASSUME NEW s \in SUBSET S, \A x \in s : s \ {x} \in P PROVE s \in P
  <2>1. SumFunctionOnSet(f, s) = IF s = {} THEN 0 ELSE f[Pick(s)] + SumFunctionOnSet(f, s \ {Pick(s)})
    BY FS_Subset, SumUnfolds
  <2>2. CASE s = {}
    BY <2>1, <2>2
  <2>3. CASE s # {}
    <3>1. Pick(s) \in s
      BY <2>3, PickIn
    <3>2. f[Pick(s)] \in Int /\ SumFunctionOnSet(f, s \ {Pick(s)}) \in Int
      BY <3>1, <1>1
    <3>3. SumFunctionOnSet(f, s) \in Int
      BY <2>1, <2>3, <3>2
    <3> QED BY <3>3
  <2> QED BY <2>2, <2>3
<1>2. S \in P
  <2> HIDE DEF P
  <2> QED BY <1>1, Shrinking
<1> QED BY <1>2

(* A sum of natural numbers is one.                                        *)
LEMMA SumIsNat ==
  ASSUME NEW f, NEW S, IsFiniteSet(S), \A x \in S : f[x] \in Nat
  PROVE  SumFunctionOnSet(f, S) \in Nat
<1> DEFINE P == {s \in SUBSET S : SumFunctionOnSet(f, s) \in Nat}
<1>1. ASSUME NEW s \in SUBSET S, \A x \in s : s \ {x} \in P PROVE s \in P
  <2>1. SumFunctionOnSet(f, s) = IF s = {} THEN 0 ELSE f[Pick(s)] + SumFunctionOnSet(f, s \ {Pick(s)})
    BY FS_Subset, SumUnfolds
  <2>2. CASE s = {}
    BY <2>1, <2>2
  <2>3. CASE s # {}
    <3>1. Pick(s) \in s
      BY <2>3, PickIn
    <3>2. f[Pick(s)] \in Nat /\ SumFunctionOnSet(f, s \ {Pick(s)}) \in Nat
      BY <3>1, <1>1
    <3>3. SumFunctionOnSet(f, s) \in Nat
      BY <2>1, <2>3, <3>2
    <3> QED BY <3>3
  <2> QED BY <2>2, <2>3
<1>2. S \in P
  <2> HIDE DEF P
  <2> QED BY <1>1, Shrinking
<1> QED BY <1>2

(* It depends on the values over the set only.                             *)
LEMMA SumAgrees ==
  ASSUME NEW f, NEW g, NEW S, IsFiniteSet(S), \A x \in S : f[x] = g[x]
  PROVE  SumFunctionOnSet(f, S) = SumFunctionOnSet(g, S)
<1> DEFINE P == {s \in SUBSET S : SumFunctionOnSet(f, s) = SumFunctionOnSet(g, s)}
<1>1. ASSUME NEW s \in SUBSET S, \A x \in s : s \ {x} \in P PROVE s \in P
  <2>0. IsFiniteSet(s)
    BY FS_Subset
  <2>1. SumFunctionOnSet(f, s) = IF s = {} THEN 0 ELSE f[Pick(s)] + SumFunctionOnSet(f, s \ {Pick(s)})
    BY <2>0, SumUnfolds
  <2>2. SumFunctionOnSet(g, s) = IF s = {} THEN 0 ELSE g[Pick(s)] + SumFunctionOnSet(g, s \ {Pick(s)})
    BY <2>0, SumUnfolds
  <2>3. CASE s = {}
    BY <2>1, <2>2, <2>3
  <2>4. CASE s # {}
    <3>1. Pick(s) \in s
      BY <2>4, PickIn
    <3>2. f[Pick(s)] = g[Pick(s)] /\ SumFunctionOnSet(f, s \ {Pick(s)}) = SumFunctionOnSet(g, s \ {Pick(s)})
      BY <3>1, <1>1
    <3>3. SumFunctionOnSet(f, s) = SumFunctionOnSet(g, s)
      BY <2>1, <2>2, <2>4, <3>2
    <3> QED BY <3>3
  <2> QED BY <2>3, <2>4
<1>2. S \in P
  <2> HIDE DEF P
  <2> QED BY <1>1, Shrinking
<1> QED BY <1>2

(* Any other element may be taken out instead.                             *)
LEMMA SumSplits ==
  ASSUME NEW f, NEW S, IsFiniteSet(S), \A x \in S : f[x] \in Int, NEW a \in S
  PROVE  SumFunctionOnSet(f, S) = f[a] + SumFunctionOnSet(f, S \ {a})
<1> DEFINE P == {s \in SUBSET S : \A b \in s :
                   SumFunctionOnSet(f, s) = f[b] + SumFunctionOnSet(f, s \ {b})}
<1>1. ASSUME NEW s \in SUBSET S, \A x \in s : s \ {x} \in P,
             NEW b \in s
      PROVE  SumFunctionOnSet(f, s) = f[b] + SumFunctionOnSet(f, s \ {b})
  <2> PICK p : p = Pick(s)
    OBVIOUS
  <2>1. p \in s
    BY PickIn
  <2>2. SumFunctionOnSet(f, s) = f[p] + SumFunctionOnSet(f, s \ {p})
    BY FS_Subset, SumUnfolds
  <2>3. CASE p = b
    BY <2>2, <2>3
  <2>4. CASE p # b
    <3> PICK q : q = (s \ {b}) \ {p}
      OBVIOUS
    <3>1. q = (s \ {p}) \ {b} /\ q \in SUBSET S
      OBVIOUS
    <3>2. SumFunctionOnSet(f, s \ {p}) = f[b] + SumFunctionOnSet(f, q)
      <4>1. s \ {p} \in P /\ b \in s \ {p}
        BY <1>1, <2>1, <2>4
      <4> QED BY <3>1, <4>1
    <3>3. SumFunctionOnSet(f, s \ {b}) = f[p] + SumFunctionOnSet(f, q)
      <4>1. s \ {b} \in P /\ p \in s \ {b}
        BY <1>1, <2>1, <2>4
      <4> QED BY <4>1
    <3>4. f[p] \in Int /\ f[b] \in Int /\ SumFunctionOnSet(f, q) \in Int
      BY <2>1, <3>1, FS_Subset, SumIsInt
    <3>5. f[p] + (f[b] + SumFunctionOnSet(f, q)) = f[b] + (f[p] + SumFunctionOnSet(f, q))
      BY <3>4
    <3> QED BY <2>2, <3>2, <3>3, <3>5
  <2> QED BY <2>3, <2>4
<1>2. \A s \in SUBSET S : (\A x \in s : s \ {x} \in P) => s \in P
  BY <1>1
<1>3. S \in P
  <2> HIDE DEF P
  <2> QED BY <1>2, Shrinking
<1> QED BY <1>3

(* The sum over two sets without a common element.                         *)
LEMMA SumJoins ==
  ASSUME NEW f, NEW A, NEW B, IsFiniteSet(A), IsFiniteSet(B), A \cap B = {},
         \A x \in A \cup B : f[x] \in Int
  PROVE  SumFunctionOnSet(f, A \cup B) = SumFunctionOnSet(f, A) + SumFunctionOnSet(f, B)
<1> DEFINE P == {s \in SUBSET A :
                   SumFunctionOnSet(f, s \cup B) = SumFunctionOnSet(f, s) + SumFunctionOnSet(f, B)}
<1>1. ASSUME NEW s \in SUBSET A, \A x \in s : s \ {x} \in P
      PROVE  SumFunctionOnSet(f, s \cup B) = SumFunctionOnSet(f, s) + SumFunctionOnSet(f, B)
  <2>1. IsFiniteSet(s) /\ IsFiniteSet(s \cup B)
    BY FS_Subset, FS_Union
  <2>2. SumFunctionOnSet(f, B) \in Int
    BY SumIsInt
  <2>3. CASE s = {}
    <3> PICK n : n = SumFunctionOnSet(f, B)
      OBVIOUS
    <3>1. SumFunctionOnSet(f, s) = 0
      BY <2>1, <2>3, SumUnfolds
    <3>2. s \cup B = B
      BY <2>3
    <3>3. SumFunctionOnSet(f, s \cup B) = n
      BY <3>2
    <3>4. n = 0 + n
      BY <2>2
    <3> QED BY <3>1, <3>3, <3>4
  <2>4. CASE s # {}
    <3>1. PICK x : x \in s
      BY <2>4
    <3>2. SumFunctionOnSet(f, s) = f[x] + SumFunctionOnSet(f, s \ {x})
      BY <2>1, <3>1, SumSplits
    <3>3. SumFunctionOnSet(f, s \cup B) = f[x] + SumFunctionOnSet(f, (s \cup B) \ {x})
      BY <2>1, <3>1, SumSplits
    <3>4. (s \cup B) \ {x} = (s \ {x}) \cup B
      BY <3>1
    <3>5. SumFunctionOnSet(f, (s \ {x}) \cup B) = SumFunctionOnSet(f, s \ {x}) + SumFunctionOnSet(f, B)
      BY <1>1, <3>1
    <3>6. f[x] \in Int /\ SumFunctionOnSet(f, s \ {x}) \in Int
      <4>1. IsFiniteSet(s \ {x}) /\ \A y \in s \ {x} : f[y] \in Int
        BY <2>1, FS_RemoveElement
      <4> QED BY <3>1, <4>1, SumIsInt
    <3>7. f[x] + (SumFunctionOnSet(f, s \ {x}) + SumFunctionOnSet(f, B))
            = (f[x] + SumFunctionOnSet(f, s \ {x})) + SumFunctionOnSet(f, B)
      BY <2>2, <3>6
    <3> QED BY <3>2, <3>3, <3>4, <3>5, <3>7
  <2> QED BY <2>3, <2>4
<1>2. \A s \in SUBSET A : (\A x \in s : s \ {x} \in P) => s \in P
  BY <1>1
<1>3. A \in P
  <2> HIDE DEF P
  <2> QED BY <1>2, Shrinking
<1> QED BY <1>3

(* sums has the sum of f for each group K that key sorts S into.            *)
Grouped(sums, f, S, key, K) ==
  \A k \in K : sums[k] = SumFunctionOnSet(f, {x \in S : key[x] = k})

(* Summing group by group is summing.                                      *)
LEMMA SumGroups ==
  ASSUME NEW f, NEW S, IsFiniteSet(S), \A x \in S : f[x] \in Int,
         NEW key, NEW K, IsFiniteSet(K), \A x \in S : key[x] \in K,
         NEW sums, Grouped(sums, f, S, key, K)
  PROVE  SumFunctionOnSet(sums, K) = SumFunctionOnSet(f, S)
<1> DEFINE Of(s) == {x \in S : key[x] \in s}
           P == {s \in SUBSET K : SumFunctionOnSet(sums, s) = SumFunctionOnSet(f, Of(s))}
<1>0. \A k \in K : sums[k] = SumFunctionOnSet(f, {x \in S : key[x] = k})
  BY DEF Grouped
<1>1. \A k \in K : sums[k] \in Int
  <2> TAKE k \in K
  <2>1. IsFiniteSet({x \in S : key[x] = k})
    BY FS_Subset
  <2>2. SumFunctionOnSet(f, {x \in S : key[x] = k}) \in Int
    BY <2>1, SumIsInt
  <2> QED BY <1>0, <2>2
<1>2. ASSUME NEW s \in SUBSET K, \A k \in s : s \ {k} \in P
      PROVE  SumFunctionOnSet(sums, s) = SumFunctionOnSet(f, Of(s))
  <2>1. IsFiniteSet(s)
    BY FS_Subset
  <2>2. CASE s = {}
    <3>1. SumFunctionOnSet(sums, s) = 0
      BY <2>1, <2>2, SumUnfolds
    <3>2. Of(s) = {}
      BY <2>2
    <3>3. SumFunctionOnSet(f, {}) = 0
      BY FS_EmptySet, SumUnfolds
    <3> HIDE DEF Of
    <3> QED BY <3>1, <3>2, <3>3
  <2>3. CASE s # {}
    <3>1. PICK k : k \in s
      BY <2>3
    <3> DEFINE one == {x \in S : key[x] = k}
    <3>2. SumFunctionOnSet(sums, s) = sums[k] + SumFunctionOnSet(sums, s \ {k})
      BY <1>1, <2>1, <3>1, SumSplits
    <3>3. SumFunctionOnSet(sums, s \ {k}) = SumFunctionOnSet(f, Of(s \ {k}))
      BY <1>2, <3>1
    <3>4. sums[k] = SumFunctionOnSet(f, one)
      BY <1>0, <3>1
    <3>5. one \cap Of(s \ {k}) = {} /\ Of(s) = one \cup Of(s \ {k})
      BY <3>1
    <3>6. IsFiniteSet(one) /\ IsFiniteSet(Of(s \ {k}))
      BY FS_Subset
    <3>7. \A x \in one \cup Of(s \ {k}) : f[x] \in Int
      OBVIOUS
    <3> HIDE DEF one, Of
    <3>8. SumFunctionOnSet(f, Of(s)) = SumFunctionOnSet(f, one) + SumFunctionOnSet(f, Of(s \ {k}))
      <4> PICK A : A = one
        OBVIOUS
      <4> PICK C : C = Of(s \ {k})
        OBVIOUS
      <4>1. A \cap C = {} /\ Of(s) = A \cup C
        BY <3>5
      <4>2. IsFiniteSet(A) /\ IsFiniteSet(C) /\ \A x \in A \cup C : f[x] \in Int
        BY <3>6, <3>7
      <4>3. SumFunctionOnSet(f, A \cup C) = SumFunctionOnSet(f, A) + SumFunctionOnSet(f, C)
        BY <4>1, <4>2, SumJoins
      <4> QED BY <4>1, <4>3
    <3> QED BY <3>2, <3>3, <3>4, <3>8
  <2> QED BY <2>2, <2>3
<1>3. \A s \in SUBSET K : (\A k \in s : s \ {k} \in P) => s \in P
  BY <1>2
<1>4. K \in P
  <2> HIDE DEF P
  <2> QED BY <1>3, Shrinking
<1>5. Of(K) = S
  OBVIOUS
<1> HIDE DEF Of
<1> QED BY <1>4, <1>5 DEF P

(* A sum over one element is its term.                                     *)
LEMMA SumOfOne ==
  ASSUME NEW f, NEW x, f[x] \in Int
  PROVE  SumFunctionOnSet(f, {x}) = f[x] /\ SumFunctionOnSet(f, {}) = 0
<1>1. SumFunctionOnSet(f, {}) = 0
  BY SumUnfolds, FS_EmptySet
<1>2. SumFunctionOnSet(f, {x}) = f[x] + SumFunctionOnSet(f, {x} \ {x})
  BY SumSplits, FS_Singleton
<1>3. {x} \ {x} = {}
  OBVIOUS
<1> QED BY <1>1, <1>2, <1>3

(* One more term.                                                          *)
LEMMA SumGrows ==
  ASSUME NEW S, IsFiniteSet(S), NEW x, x \notin S, NEW f, NEW g,
         \A y \in S : g[y] = f[y] /\ f[y] \in Int, g[x] \in Int
  PROVE  SumFunctionOnSet(g, S \cup {x}) = SumFunctionOnSet(f, S) + g[x]
<1>1. IsFiniteSet(S \cup {x}) /\ \A y \in S \cup {x} : g[y] \in Int
  BY FS_AddElement
<1>2. (S \cup {x}) \ {x} = S
  OBVIOUS
<1>3. SumFunctionOnSet(g, S \cup {x}) = g[x] + SumFunctionOnSet(g, S)
  BY <1>1, <1>2, SumSplits
<1>4. SumFunctionOnSet(g, S) = SumFunctionOnSet(f, S)
  BY SumAgrees
<1>5. SumFunctionOnSet(f, S) \in Int
  BY SumIsInt
<1> QED BY <1>3, <1>4, <1>5

(* The terms under other names.                                            *)
LEMMA SumRenames ==
  ASSUME NEW S, IsFiniteSet(S), NEW f, \A x \in S : f[x] \in Int,
         NEW key, \A x \in S : \A y \in S : key[x] = key[y] => x = y,
         NEW g, \A x \in S : g[key[x]] = f[x]
  PROVE  SumFunctionOnSet(g, {key[x] : x \in S}) = SumFunctionOnSet(f, S)
<1> PICK K : K = {key[x] : x \in S}
  OBVIOUS
<1>1. IsFiniteSet(K)
  <2> DEFINE h == [x \in S |-> key[x]]
  <2>1. h \in Surjection(S, K)
    <3>1. h \in [S -> K] /\ \A k \in K : \E x \in S : h[x] = k
      OBVIOUS
    <3> HIDE DEF h
    <3> QED BY <3>1, Fun_IsSurj
  <2> HIDE DEF h
  <2> QED BY <2>1, FS_Surjection
<1>2. ASSUME NEW k \in K PROVE g[k] = SumFunctionOnSet(f, {x \in S : key[x] = k})
  <2>1. PICK x \in S : k = key[x]
    OBVIOUS
  <2>2. {y \in S : key[y] = k} = {x}
    BY <2>1
  <2>3. SumFunctionOnSet(f, {x}) = f[x]
    BY SumOfOne
  <2> QED BY <2>1, <2>2, <2>3
<1>3. \A x \in S : key[x] \in K
  OBVIOUS
<1>4. SumFunctionOnSet(g, K) = SumFunctionOnSet(f, S)
  <2>1. Grouped(g, f, S, key, K)
    BY <1>2 DEF Grouped
  <2>2. IsFiniteSet(S) /\ (\A x \in S : f[x] \in Int) /\ IsFiniteSet(K) /\ (\A x \in S : key[x] \in K)
    BY <1>1, <1>3
  <2> QED BY ONLY <2>1, <2>2, SumGroups
<1> QED BY <1>4

(* A sum of zeros is zero.                                                 *)
LEMMA SumOfZeros ==
  ASSUME NEW S, IsFiniteSet(S), NEW f, \A x \in S : f[x] = 0
  PROVE  SumFunctionOnSet(f, S) = 0
<1> DEFINE P == {s \in SUBSET S : SumFunctionOnSet(f, s) = 0}
<1>1. ASSUME NEW s \in SUBSET S, \A x \in s : s \ {x} \in P PROVE s \in P
  <2>1. IsFiniteSet(s) /\ \A x \in s : f[x] \in Int
    BY FS_Subset
  <2>2. CASE s = {}
    BY <2>1, <2>2, SumUnfolds
  <2>3. CASE s # {}
    <3>1. PICK x : x \in s
      BY <2>3
    <3>2. SumFunctionOnSet(f, s) = f[x] + SumFunctionOnSet(f, s \ {x})
      BY <2>1, <3>1, SumSplits
    <3>3. SumFunctionOnSet(f, s \ {x}) = 0 /\ f[x] = 0
      BY <1>1, <3>1
    <3> QED BY <3>2, <3>3
  <2> QED BY <2>2, <2>3
<1>2. S \in P
  <2> HIDE DEF P
  <2> QED BY <1>1, Shrinking
<1> QED BY <1>2

(* A sum, term by term.                                                    *)
LEMMA SumAdds ==
  ASSUME NEW S, IsFiniteSet(S), NEW f, NEW g, NEW h,
         \A x \in S : f[x] \in Int /\ g[x] \in Int /\ h[x] = f[x] + g[x]
  PROVE  SumFunctionOnSet(h, S) = SumFunctionOnSet(f, S) + SumFunctionOnSet(g, S)
<1> DEFINE P == {s \in SUBSET S : SumFunctionOnSet(h, s) = SumFunctionOnSet(f, s) + SumFunctionOnSet(g, s)}
<1>1. ASSUME NEW s \in SUBSET S, \A x \in s : s \ {x} \in P
      PROVE  SumFunctionOnSet(h, s) = SumFunctionOnSet(f, s) + SumFunctionOnSet(g, s)
  <2>1. IsFiniteSet(s) /\ \A x \in s : h[x] \in Int
    BY FS_Subset
  <2>2. CASE s = {}
    <3>1. \A k : SumFunctionOnSet(k, {}) = 0
      BY SumUnfolds, FS_EmptySet
    <3>2. SumFunctionOnSet(h, s) = 0 /\ SumFunctionOnSet(f, s) = 0 /\ SumFunctionOnSet(g, s) = 0
      BY ONLY <2>2, <3>1
    <3> QED BY ONLY <3>2
  <2>3. CASE s # {}
    <3>1. PICK x : x \in s
      BY <2>3
    <3> PICK r \in SUBSET S : r = s \ {x}
      OBVIOUS
    <3>2. /\ SumFunctionOnSet(h, s) = h[x] + SumFunctionOnSet(h, r)
          /\ SumFunctionOnSet(f, s) = f[x] + SumFunctionOnSet(f, r)
          /\ SumFunctionOnSet(g, s) = g[x] + SumFunctionOnSet(g, r)
      BY <2>1, <3>1, SumSplits
    <3>3. SumFunctionOnSet(h, r) = SumFunctionOnSet(f, r) + SumFunctionOnSet(g, r)
      BY <1>1, <3>1
    <3>4. IsFiniteSet(r) /\ (\A y \in r : f[y] \in Int) /\ (\A y \in r : g[y] \in Int)
      BY FS_Subset
    <3> PICK a \in Int : a = SumFunctionOnSet(f, r)
      BY <3>4, SumIsInt
    <3> PICK b \in Int : b = SumFunctionOnSet(g, r)
      BY <3>4, SumIsInt
    <3>5. f[x] \in Int /\ g[x] \in Int /\ h[x] = f[x] + g[x]
      BY <3>1
    <3> QED BY ONLY <3>2, <3>3, <3>5, a \in Int, b \in Int, a = SumFunctionOnSet(f, r), b = SumFunctionOnSet(g, r)
  <2> QED BY <2>2, <2>3
<1>2. \A s \in SUBSET S : (\A x \in s : s \ {x} \in P) => s \in P
  BY <1>1
<1>3. S \in P
  <2> HIDE DEF P
  <2> QED BY <1>2, Shrinking
<1> QED BY <1>3

(* A difference, summed.                                                   *)
LEMMA SumSubtracts ==
  ASSUME NEW S, IsFiniteSet(S), NEW f, NEW g, NEW h,
         \A x \in S : f[x] \in Int /\ g[x] \in Int /\ h[x] = f[x] - g[x]
  PROVE  SumFunctionOnSet(h, S) = SumFunctionOnSet(f, S) - SumFunctionOnSet(g, S)
<1>1. \A x \in S : h[x] \in Int /\ g[x] \in Int /\ f[x] = h[x] + g[x]
  OBVIOUS
<1>2. SumFunctionOnSet(f, S) = SumFunctionOnSet(h, S) + SumFunctionOnSet(g, S)
  BY ONLY <1>1, IsFiniteSet(S), SumAdds
<1>3. SumFunctionOnSet(h, S) \in Int /\ SumFunctionOnSet(g, S) \in Int
  BY <1>1, SumIsInt
<1> QED BY ONLY <1>2, <1>3

(* What is zero outside a set is summed over that set.                     *)
LEMMA SumVanishes ==
  ASSUME NEW D, IsFiniteSet(D), NEW S \in SUBSET D, NEW f,
         \A x \in S : f[x] \in Int, \A x \in D \ S : f[x] = 0
  PROVE  SumFunctionOnSet(f, D) = SumFunctionOnSet(f, S)
<1> PICK N : N = D \ S
  OBVIOUS
<1>1. IsFiniteSet(S) /\ IsFiniteSet(N) /\ S \cap N = {} /\ S \cup N = D
  BY FS_Subset
<1>2. SumFunctionOnSet(f, N) = 0
  BY <1>1, SumOfZeros
<1>3. SumFunctionOnSet(f, S \cup N) = SumFunctionOnSet(f, S) + SumFunctionOnSet(f, N)
  <2>1. \A x \in S \cup N : f[x] \in Int
    BY <1>1
  <2> QED BY ONLY <1>1, <2>1, SumJoins
<1> PICK y \in Int : y = SumFunctionOnSet(f, S)
  BY <1>1, SumIsInt
<1>4. SumFunctionOnSet(f, D) = y + 0
  BY <1>1, <1>2, <1>3
<1> QED BY <1>4

(* A sum of which one term moves.                                          *)
LEMMA SumBumps ==
  ASSUME NEW S, IsFiniteSet(S), NEW x \in S, NEW f, NEW g, NEW d \in Int,
         \A y \in S : f[y] \in Int, g[x] = f[x] + d, \A y \in S \ {x} : g[y] = f[y]
  PROVE  SumFunctionOnSet(g, S) = SumFunctionOnSet(f, S) + d
<1> PICK r : r = S \ {x}
  OBVIOUS
<1>1. IsFiniteSet(r) /\ (\A y \in r : f[y] \in Int) /\ \A y \in S : g[y] \in Int
  BY FS_Subset
<1>2. SumFunctionOnSet(g, S) = g[x] + SumFunctionOnSet(g, r) /\ SumFunctionOnSet(f, S) = f[x] + SumFunctionOnSet(f, r)
  BY <1>1, SumSplits
<1>3. SumFunctionOnSet(g, r) = SumFunctionOnSet(f, r)
  BY <1>1, SumAgrees
<1> PICK a \in Int : a = SumFunctionOnSet(f, r)
  BY <1>1, SumIsInt
<1> PICK b \in Int : b = f[x]
  OBVIOUS
<1>4. SumFunctionOnSet(g, S) = (b + d) + a /\ SumFunctionOnSet(f, S) = b + a
  BY <1>2, <1>3
<1> QED BY <1>4

-----------------------------------------------------------------------------
(* Induction and recursion up to a number *)

(* Induction up to a number. *)
LEMMA Climbing ==
  ASSUME NEW n \in Nat, NEW P, 0 \in P, \A k \in 1..n : k - 1 \in P => k \in P
  PROVE  \A k \in 0..n : k \in P
<1> DEFINE T == {k \in Nat : k \in 0..n /\ k \notin P}
<1>1. ASSUME T # {} PROVE FALSE
  <2>1. PICK k \in T : \A m \in T : k <= m
    <3>1. T \in SUBSET Nat
      OBVIOUS
    <3> HIDE DEF T
    <3> QED BY <1>1, <3>1, Least
  <2>2. k \in 1..n /\ k - 1 \in 0..n
    OBVIOUS
  <2>3. k - 1 \in T
    BY <2>2
  <2> QED BY <2>1, <2>3
<1> QED BY <1>1

(* a is what n steps make of base, within D.                               *)
Climbs(a, step, base, n, D) ==
  a \in [0..n -> D] /\ a[0] = base /\ \A k \in 1..n : a[k] = step[<<a[k - 1], k>>]

(* Recursion up to a number. *)
LEMMA Recursion ==
  ASSUME NEW n \in Nat, NEW D, NEW base \in D, NEW step \in [D \X (1..n) -> D]
  PROVE  \E a : Climbs(a, step, base, n, D)
<1> DEFINE P == {m \in 0..n : \E a : Climbs(a, step, base, m, D)}
<1>1. 0 \in P
  <2> PICK a : a = [k \in 0..0 |-> base]
    OBVIOUS
  <2>1. a \in [0..0 -> D] /\ a[0] = base
    OBVIOUS
  <2>2. \A k \in 1..0 : a[k] = step[<<a[k - 1], k>>]
    OBVIOUS
  <2> QED BY <2>1, <2>2 DEF Climbs
<1>2. ASSUME NEW m \in 1..n, m - 1 \in P PROVE m \in P
  <2>1. PICK a \in [0..(m - 1) -> D] :
          a[0] = base /\ \A k \in 1..(m - 1) : a[k] = step[<<a[k - 1], k>>]
    BY <1>2 DEF Climbs
  <2> DEFINE b == [k \in 0..m |-> IF k = m THEN step[<<a[m - 1], m>>] ELSE a[k]]
  <2>2. a[m - 1] \in D
    OBVIOUS
  <2>3. step[<<a[m - 1], m>>] \in D
    BY <2>2
  <2>4. b \in [0..m -> D]
    BY <2>3
  <2>5. b[0] = base
    BY <2>1
  <2>6. ASSUME NEW k \in 1..m PROVE b[k] = step[<<b[k - 1], k>>]
    <3>1. b[k - 1] = a[k - 1]
      OBVIOUS
    <3>2. CASE k = m
      <4>1. b[k] = step[<<a[m - 1], m>>]
        BY <3>2
      <4> HIDE DEF b
      <4> QED BY <4>1, <3>1, <3>2
    <3>3. CASE k # m
      <4>1. k \in 1..(m - 1) /\ b[k] = a[k]
        BY <3>3
      <4> HIDE DEF b
      <4> QED BY <4>1, <3>1, <2>1
    <3> QED BY <3>2, <3>3
  <2> HIDE DEF b
  <2> QED BY <2>4, <2>5, <2>6 DEF Climbs
<1>3. n \in P
  <2> HIDE DEF P
  <2> QED BY <1>1, <1>2, Climbing
<1> QED BY <1>3

-----------------------------------------------------------------------------
(* The maximum is an element.                                              *)
LEMMA MaxIsIn ==
  ASSUME NEW n \in Nat, NEW s \in SUBSET (1..n), s # {}
  PROVE  Max(s) \in s
<1> DEFINE T == {n - k : k \in s}
<1>1. T \in SUBSET Nat /\ T # {}
  <2>1. PICK x \in s : n - x \in T
    OBVIOUS
  <2>2. \A k \in s : n - k \in Nat
    OBVIOUS
  <2> QED BY <2>1, <2>2
<1>2. PICK t \in T : \A m \in T : t <= m
  <2> HIDE DEF T
  <2> QED BY <1>1, Least
<1>3. PICK x \in s : t = n - x
  OBVIOUS
<1>4. \A y \in s : x >= y
  <2> TAKE y \in s
  <2>1. n - y \in T
    OBVIOUS
  <2>2. n - x <= n - y
    BY <1>2, <1>3, <2>1
  <2>3. x \in Int /\ y \in Int
    OBVIOUS
  <2> QED BY <2>2, <2>3
<1> QED BY <1>4 DEF Max

(* The last place of a prefix is its largest.                              *)
LEMMA MaxOfPrefix ==
  ASSUME NEW k \in Nat, k # 0 PROVE Max(1..k) = k /\ (1..k) \ {Max(1..k)} = 1..(k - 1)
<1>1. Max(1..k) = k
  <2>1. k \in 1..k /\ \A y \in 1..k : k >= y
    OBVIOUS
  <2>2. \A x \in 1..k : (\A y \in 1..k : x >= y) => x = k
    OBVIOUS
  <2> QED BY <2>1, <2>2 DEF Max
<1> QED BY <1>1

(* g is the function by which FoldLeft walks a sequence of length n.       *)
Walks(g, step, base, n, D) ==
  /\ g \in [SUBSET (1..n) -> D]
  /\ \A s \in SUBSET (1..n) :
       g[s] = IF s = {} THEN base ELSE step[<<g[s \ {Max(s)}], Max(s)>>]

(* It exists, when every step stays within D.                              *)
LEMMA WalkExists ==
  ASSUME NEW n \in Nat, NEW D, NEW base \in D, NEW step \in [D \X (1..n) -> D]
  PROVE  \E g : Walks(g, step, base, n, D)
<1> DEFINE Sub == SUBSET (1..n)
           Deep == [Sub -> D]
           On(h, s) == IF s = {} THEN base ELSE step[<<h[s \ {Max(s)}], Max(s)>>]
           deeper == [p \in Deep \X (1..n) |-> [s \in Sub |-> On(p[1], s)]]
           start == [s \in Sub |-> base]
<1>1. \A s \in Sub : s # {} => Max(s) \in 1..n /\ s \ {Max(s)} \in Sub /\ Max(s) \in s
  BY MaxIsIn
<1>2. ASSUME NEW h \in Deep, NEW s \in Sub PROVE On(h, s) \in D
  <2>1. CASE s = {}
    BY <2>1
  <2>2. CASE s # {}
    <3>1. h[s \ {Max(s)}] \in D
      BY <1>1, <2>2
    <3>2. step[<<h[s \ {Max(s)}], Max(s)>>] \in D
      BY <1>1, <2>2, <3>1
    <3> QED BY <3>2, <2>2
  <2> QED BY <2>1, <2>2
<1>3. deeper \in [Deep \X (1..n) -> Deep]
  <2> SUFFICES ASSUME NEW p \in Deep \X (1..n) PROVE [s \in Sub |-> On(p[1], s)] \in Deep
    OBVIOUS
  <2>1. p[1] \in Deep
    OBVIOUS
  <2>2. \A s \in Sub : On(p[1], s) \in D
    BY <2>1, <1>2
  <2> HIDE DEF On, Sub
  <2> QED BY <2>2
<1>4. start \in Deep
  OBVIOUS
<1>5. PICK h \in [0..n -> Deep] : h[0] = start /\ \A k \in 1..n : h[k] = deeper[<<h[k - 1], k>>]
  <2> HIDE DEF Deep, deeper, start
  <2> PICK E : E = Deep
    OBVIOUS
  <2> PICK f : f = deeper
    OBVIOUS
  <2>1. f \in [E \X (1..n) -> E] /\ start \in E
    BY <1>3, <1>4
  <2>2. PICK a : Climbs(a, f, start, n, E)
    BY <2>1, Recursion
  <2> QED BY <2>2 DEF Climbs
<1>6. \A s \in Sub : IsFiniteSet(s) /\ Cardinality(s) \in 0..n
  <2> TAKE s \in Sub
  <2>1. IsFiniteSet(1..n) /\ Cardinality(1..n) = n
    BY FS_Interval
  <2>2. IsFiniteSet(s) /\ Cardinality(s) <= Cardinality(1..n)
    BY <2>1, FS_Subset
  <2>3. Cardinality(s) \in Nat
    BY <2>2, FS_CardinalityType
  <2> QED BY <2>1, <2>2, <2>3
<1>7. ASSUME NEW k \in 1..n, NEW s \in Sub PROVE h[k][s] = On(h[k - 1], s)
  <2>1. h[k - 1] \in Deep
    <3>1. k - 1 \in 0..n
      OBVIOUS
    <3> HIDE DEF Deep
    <3> QED BY <3>1, <1>5
  <2>2. <<h[k - 1], k>> \in Deep \X (1..n)
    BY <2>1
  <2>3. h[k] = [r \in Sub |-> On(h[k - 1], r)]
    <3> HIDE DEF Deep, On, Sub
    <3> QED BY <1>5, <2>2
  <2> HIDE DEF On, Sub
  <2> QED BY <2>3
<1> DEFINE g == [s \in Sub |-> h[Cardinality(s)][s]]
<1>8. ASSUME NEW s \in Sub PROVE g[s] = On(g, s)
  <2>1. CASE s = {}
    <3>1. Cardinality(s) = 0
      BY <2>1, FS_EmptySet
    <3>2. g[s] = start[s]
      BY <3>1, <1>5
    <3> QED BY <3>2, <2>1
  <2>2. CASE s # {}
    <3> PICK m : m = Max(s)
      OBVIOUS
    <3> PICK r : r = s \ {m}
      OBVIOUS
    <3>1. m \in s /\ r \in Sub
      BY <1>1, <2>2
    <3>2. Cardinality(r) = Cardinality(s) - 1 /\ Cardinality(s) \in 1..n
      <4>1. Cardinality(r) = Cardinality(s) - 1
        BY <1>6, <3>1, FS_RemoveElement
      <4>2. Cardinality(r) \in Nat /\ Cardinality(s) \in 0..n
        BY <1>6, <3>1
      <4> QED BY <4>1, <4>2
    <3>3. g[s] = h[Cardinality(s)][s]
      OBVIOUS
    <3>4. h[Cardinality(s)][s] = On(h[Cardinality(s) - 1], s)
      BY <1>7, <3>2
    <3>5. g[r] = h[Cardinality(s) - 1][r]
      BY <3>1, <3>2
    <3> HIDE DEF g
    <3> QED BY <3>3, <3>4, <3>5, <2>2
  <2> QED BY <2>1, <2>2
<1>9. g \in [Sub -> D]
  <2> SUFFICES ASSUME NEW s \in Sub PROVE h[Cardinality(s)][s] \in D
    OBVIOUS
  <2>1. h[Cardinality(s)] \in Deep
    BY <1>6
  <2> QED BY <2>1
<1> HIDE DEF g
<1> QED BY <1>8, <1>9 DEF Walks

-----------------------------------------------------------------------------
(* Sequences *)

(* The smaller of two numbers.                                             *)
LEMMA MinWith == ASSUME NEW x \in Int, NEW y \in Int PROVE Min({x, y}) = IF x <= y THEN x ELSE y
<1> PICK m : m = IF x <= y THEN x ELSE y
  OBVIOUS
<1> PICK s : s = {x, y}
  OBVIOUS
<1>1. m \in s /\ \A z \in s : m <= z
  OBVIOUS
<1>2. Min(s) \in s /\ \A z \in s : Min(s) <= z
  BY <1>1 DEF Min
<1>3. Min(s) <= m /\ m <= Min(s) /\ Min(s) \in Int /\ m \in Int
  BY <1>1, <1>2
<1> QED BY <1>3

(* A number, or zero when it is negative.                                  *)
LEMMA MaxWithZero == ASSUME NEW x \in Int PROVE Max({0, x}) = IF x > 0 THEN x ELSE 0
<1> PICK m : m = IF x > 0 THEN x ELSE 0
  OBVIOUS
<1> PICK s : s = {0, x}
  OBVIOUS
<1>1. m \in s /\ \A y \in s : m >= y
  OBVIOUS
<1>2. Max(s) \in s /\ \A y \in s : Max(s) >= y
  BY <1>1 DEF Max
<1>3. Max(s) >= m /\ m >= Max(s) /\ Max(s) \in Int /\ m \in Int
  BY <1>1, <1>2
<1> QED BY <1>3

(* What is taken from a quantity is taken from its cost.                   *)
LEMMA Distributes ==
  ASSUME NEW a \in Nat, NEW b \in Nat, NEW c \in Nat, b <= a
  PROVE  (a - b) * c + b * c = a * c
  OBVIOUS

(* The minimum is an element and below the others.                         *)
LEMMA MinIsIn ==
  ASSUME NEW T \in SUBSET Nat, T # {} PROVE Min(T) \in T /\ \A y \in T : Min(T) <= y
<1>1. \E n \in T : \A m \in T : n <= m
  BY Least
<1> QED BY <1>1 DEF Min

(* The elements after one more is appended.                                *)
LEMMA ElemsOfAppend ==
  ASSUME NEW V, NEW s \in Seq(V), NEW x \in V
  PROVE  Append(s, x) \in Seq(V) /\ ToSet(Append(s, x)) = ToSet(s) \cup {x}
<1> PICK n \in Nat : n = Len(s)
  OBVIOUS
<1> PICK u : u = Append(s, x)
  OBVIOUS
<1>1. /\ u \in Seq(V) /\ DOMAIN s = 1..n /\ DOMAIN u = 1..(n + 1)
      /\ u[n + 1] = x /\ \A i \in 1..n : u[i] = s[i]
  OBVIOUS
<1>2. 1..(n + 1) = (1..n) \cup {n + 1}
  OBVIOUS
<1>3. ToSet(u) = {u[i] : i \in (1..n) \cup {n + 1}}
  BY <1>1, <1>2 DEF ToSet
<1>4. ToSet(u) = ToSet(s) \cup {x}
  BY <1>1, <1>3 DEF ToSet
<1> QED BY <1>1, <1>4

(* A sequence has finitely many elements.                                  *)
LEMMA ElemsAreFinite ==
  ASSUME NEW V, NEW s \in Seq(V) PROVE IsFiniteSet(ToSet(s)) /\ ToSet(s) \subseteq V
<1> PICK n \in Nat : n = Len(s)
  OBVIOUS
<1>1. s \in Surjection(1..n, ToSet(s))
  <2>1. s \in [1..n -> ToSet(s)] /\ \A x \in ToSet(s) : \E i \in 1..n : s[i] = x
    BY DEF ToSet
  <2> QED BY <2>1, Fun_IsSurj
<1>2. IsFiniteSet(1..n)
  BY FS_Interval
<1> QED BY <1>1, <1>2, FS_Surjection DEF ToSet

(* The elements of two sequences joined.                                   *)
LEMMA ElemsOfConcat ==
  ASSUME NEW V, NEW s \in Seq(V), NEW t \in Seq(V)
  PROVE  s \o t \in Seq(V) /\ ToSet(s \o t) = ToSet(s) \cup ToSet(t)
<1>1. /\ s \o t \in Seq(V) /\ Len(s \o t) = Len(s) + Len(t)
      /\ \A i \in 1..(Len(s) + Len(t)) : (s \o t)[i] = IF i <= Len(s) THEN s[i] ELSE t[i - Len(s)]
  BY ConcatProperties
<1> PICK u : u = s \o t
  OBVIOUS
<1> PICK m \in Nat : m = Len(s)
  OBVIOUS
<1> PICK k \in Nat : k = Len(t)
  OBVIOUS
<1>2. \A i \in 1..(m + k) : u[i] = IF i <= m THEN s[i] ELSE t[i - m]
  BY <1>1
<1>3. \A i \in 1..m : u[i] = s[i]
  BY <1>2
<1>4. \A i \in 1..k : u[m + i] = t[i]
  <2> TAKE i \in 1..k
  <2>1. m + i \in 1..(m + k) /\ ~(m + i <= m) /\ (m + i) - m = i
    OBVIOUS
  <2> QED BY <1>2, <2>1
<1>5. ToSet(s) \subseteq ToSet(u)
  BY <1>1, <1>3 DEF ToSet
<1>6. ToSet(t) \subseteq ToSet(u)
  <2> SUFFICES ASSUME NEW i \in 1..k PROVE t[i] \in ToSet(u)
    BY DEF ToSet
  <2>1. m + i \in 1..(m + k) /\ DOMAIN u = 1..(m + k)
    BY <1>1
  <2>2. u[m + i] = t[i]
    BY <1>4
  <2> PICK j : j = m + i
    OBVIOUS
  <2>3. j \in DOMAIN u /\ u[j] = t[i]
    BY <2>1, <2>2
  <2> QED BY ONLY <2>3 DEF ToSet
<1>7. ToSet(u) \subseteq ToSet(s) \cup ToSet(t)
  <2> SUFFICES ASSUME NEW i \in 1..(m + k) PROVE u[i] \in ToSet(s) \cup ToSet(t)
    BY <1>1 DEF ToSet
  <2>1. CASE i <= m
    BY <2>1, <1>3, SMTT(20) DEF ToSet
  <2>2. CASE ~(i <= m)
    <3>1. i - m \in 1..k /\ u[i] = t[i - m]
      BY <2>2, <1>2
    <3> QED BY <3>1 DEF ToSet
  <2> QED BY <2>1, <2>2
<1> QED BY <1>1, <1>5, <1>6, <1>7

Flattens(f, seqs) ==
  f = [i \in 1..Len(seqs) |-> IF i = 1 THEN seqs[i] ELSE f[i - 1] \o seqs[i]]

(* The elements of a flattened list of sequences.                          *)
LEMMA FlattenIs ==
  ASSUME NEW V, NEW seqs \in Seq(Seq(V)), Len(seqs) # 0
  PROVE  \E f : Flattens(f, seqs) /\ FlattenSeq(seqs) = f[Len(seqs)]
<1> PICK n \in Nat : n = Len(seqs)
  OBVIOUS
<1> DEFINE step == [p \in Seq(V) \X (1..n) |-> p[1] \o seqs[p[2]]]
<1>1. \A k \in 1..n : seqs[k] \in Seq(V)
  OBVIOUS
<1>2. step \in [Seq(V) \X (1..n) -> Seq(V)]
  <2> SUFFICES ASSUME NEW q \in Seq(V), NEW k \in 1..n PROVE q \o seqs[k] \in Seq(V)
    OBVIOUS
  <2> QED BY <1>1, ConcatProperties
<1>3. PICK a : Climbs(a, step, <<>>, n, Seq(V))
  <2> PICK st : st = step
    OBVIOUS
  <2> PICK D : D = Seq(V)
    OBVIOUS
  <2>1. st \in [D \X (1..n) -> D] /\ <<>> \in D
    BY <1>2
  <2>2. \E a : Climbs(a, st, <<>>, n, D)
    BY <2>1, Recursion
  <2> QED BY <2>2
<1>4. \A k \in 1..n : a[k] = a[k - 1] \o seqs[k] /\ a[k - 1] \in Seq(V)
  <2> TAKE k \in 1..n
  <2>1. a[k - 1] \in Seq(V)
    <3>1. k - 1 \in 0..n
      OBVIOUS
    <3> QED BY <3>1, <1>3 DEF Climbs
  <2>2. a[k] = step[<<a[k - 1], k>>]
    BY <1>3 DEF Climbs
  <2> QED BY <2>1, <2>2
<1> DEFINE f == [i \in 1..n |-> a[i]]
<1>5. \A i \in 1..n : a[i] = IF i = 1 THEN seqs[i] ELSE f[i - 1] \o seqs[i]
  <2> TAKE i \in 1..n
  <2>1. CASE i = 1
    <3>1. a[1] = a[0] \o seqs[1]
      <4>1. 1 - 1 = 0 /\ 1 \in 1..n
        BY <2>1
      <4> QED BY <4>1, <1>4
    <3>2. a[0] = <<>>
      BY <1>3 DEF Climbs
    <3>3. <<>> \o seqs[1] = seqs[1]
      BY <1>1, <2>1, ConcatEmptySeq
    <3> QED BY <2>1, <3>1, <3>2, <3>3
  <2>2. CASE i # 1
    <3>1. i - 1 \in 1..n
      BY <2>2
    <3> QED BY <3>1, <1>4, <2>2
  <2> QED BY <2>1, <2>2
<1>6. \E g : Flattens(g, seqs)
  <2>1. f = [i \in 1..n |-> IF i = 1 THEN seqs[i] ELSE f[i - 1] \o seqs[i]]
    BY <1>5
  <2> HIDE DEF f
  <2> QED BY <2>1 DEF Flattens
<1>7. FlattenSeq(seqs) = (CHOOSE g : Flattens(g, seqs))[Len(seqs)]
  BY DEF FlattenSeq, Flattens
<1> QED BY <1>6, <1>7

(* What FlattenSeq yields is a sequence of the elements of the sequences.   *)
LEMMA FlattenElems ==
  ASSUME NEW V, NEW seqs \in Seq(Seq(V))
  PROVE  /\ FlattenSeq(seqs) \in Seq(V)
         /\ ToSet(FlattenSeq(seqs)) = UNION {ToSet(seqs[i]) : i \in 1..Len(seqs)}
<1>1. CASE Len(seqs) = 0
  <2>1. FlattenSeq(seqs) = seqs /\ seqs = <<>>
    BY <1>1 DEF FlattenSeq
  <2> QED BY <2>1 DEF ToSet
<1>2. CASE Len(seqs) # 0
  <2> PICK n \in Nat : n = Len(seqs)
    OBVIOUS
  <2>1. PICK f : Flattens(f, seqs) /\ FlattenSeq(seqs) = f[n]
    BY <1>2, FlattenIs
  <2>2. \A k \in 1..n : f[k] = IF k = 1 THEN seqs[k] ELSE f[k - 1] \o seqs[k]
    BY <2>1 DEF Flattens
  <2>3. \A k \in 1..n : seqs[k] \in Seq(V)
    OBVIOUS
  <2> DEFINE Upto(k) == UNION {ToSet(seqs[i]) : i \in 1..k}
             P == {k \in 0..n : k = 0 \/ (f[k] \in Seq(V) /\ ToSet(f[k]) = Upto(k))}
  <2>4. ASSUME NEW k \in 1..n, k - 1 \in P PROVE k \in P
    <3>1. CASE k = 1
      <4>1. f[k] = seqs[k] /\ Upto(k) = ToSet(seqs[k])
        BY <2>2, <3>1
      <4> HIDE DEF Upto
      <4> QED BY <4>1, <2>3
    <3>2. CASE k # 1
      <4>1. k - 1 \in 1..n /\ f[k - 1] \in Seq(V) /\ ToSet(f[k - 1]) = Upto(k - 1)
        BY <2>4, <3>2
      <4>2. f[k] = f[k - 1] \o seqs[k]
        BY <2>2, <3>2
      <4>3. f[k] \in Seq(V) /\ ToSet(f[k]) = ToSet(f[k - 1]) \cup ToSet(seqs[k])
        BY <4>1, <4>2, <2>3, ElemsOfConcat
      <4>4. Upto(k) = Upto(k - 1) \cup ToSet(seqs[k])
        <5>1. 1..k = (1..(k - 1)) \cup {k}
          OBVIOUS
        <5> QED BY <5>1
      <4>5. f[k] \in Seq(V) /\ ToSet(f[k]) = Upto(k)
        <5> HIDE DEF Upto
        <5> QED BY <4>1, <4>3, <4>4
      <4> QED BY <4>5
    <3> QED BY <3>1, <3>2
  <2>5. n \in P
    <3>1. 0 \in P
      OBVIOUS
    <3> PICK Q : Q = P
      OBVIOUS
    <3> HIDE DEF P
    <3>2. 0 \in Q /\ \A k \in 1..n : k - 1 \in Q => k \in Q
      BY <2>4, <3>1
    <3>3. \A k \in 0..n : k \in Q
      BY <3>2, Climbing
    <3> QED BY <3>3
  <2> QED BY <2>1, <2>5, <1>2
<1> QED BY <1>1, <1>2

(* One more sequence flattens to one more piece.                           *)
LEMMA FlattenAppend ==
  ASSUME NEW V, NEW seqs \in Seq(Seq(V)), NEW e \in Seq(V)
  PROVE  FlattenSeq(Append(seqs, e)) = FlattenSeq(seqs) \o e
<1> PICK n \in Nat : n = Len(seqs)
  OBVIOUS
<1> PICK more : more = Append(seqs, e)
  OBVIOUS
<1>1. /\ more \in Seq(Seq(V)) /\ Len(more) = n + 1 /\ more[n + 1] = e
      /\ \A k \in 1..n : more[k] = seqs[k] /\ seqs[k] \in Seq(V)
  OBVIOUS
<1>2. PICK f : Flattens(f, more) /\ FlattenSeq(more) = f[n + 1]
  <2>1. more \in Seq(Seq(V)) /\ Len(more) # 0 /\ Len(more) = n + 1
    BY <1>1
  <2>2. \E f : Flattens(f, more) /\ FlattenSeq(more) = f[Len(more)]
    BY ONLY <2>1, FlattenIs
  <2> QED BY <2>1, <2>2
<1>3. \A k \in 1..(n + 1) : f[k] = IF k = 1 THEN more[k] ELSE f[k - 1] \o more[k]
  BY <1>1, <1>2 DEF Flattens
<1>4. CASE n = 0
  <2>1. FlattenSeq(seqs) = seqs /\ seqs = << >>
    <3>1. Len(seqs) = 0
      BY <1>4
    <3>2. FlattenSeq(seqs) = seqs
      BY ONLY <3>1 DEF FlattenSeq
    <3> QED BY <3>1, <3>2
  <2>2. f[n + 1] = e
    BY <1>1, <1>3, <1>4
  <2>3. << >> \o e = e
    BY ConcatEmptySeq
  <2> QED BY <1>2, <2>1, <2>2, <2>3
<1>5. CASE n # 0
  <2>1. PICK g : Flattens(g, seqs) /\ FlattenSeq(seqs) = g[n]
    BY <1>5, FlattenIs
  <2>2. \A k \in 1..n : g[k] = IF k = 1 THEN seqs[k] ELSE g[k - 1] \o seqs[k]
    BY <2>1 DEF Flattens
  <2> DEFINE P == {k \in 0..n : k = 0 \/ f[k] = g[k]}
  <2>3. ASSUME NEW k \in 1..n, k - 1 \in P PROVE k \in P
    <3>1. k \in 1..(n + 1) /\ more[k] = seqs[k]
      BY <1>1
    <3>2. f[k] = g[k]
      BY <1>3, <2>2, <2>3, <3>1
    <3> QED BY <3>2
  <2>4. n \in P
    <3>1. 0 \in P
      OBVIOUS
    <3> PICK Q : Q = P
      OBVIOUS
    <3> HIDE DEF P
    <3>2. 0 \in Q /\ \A k \in 1..n : k - 1 \in Q => k \in Q
      BY <2>3, <3>1
    <3>3. \A k \in 0..n : k \in Q
      BY <3>2, Climbing
    <3> QED BY <3>3
  <2>5. f[n] = g[n]
    BY <1>5, <2>4
  <2>6. n + 1 \in 1..(n + 1) /\ n + 1 # 1 /\ (n + 1) - 1 = n
    BY <1>5
  <2>7. f[n + 1] = f[n] \o e
    BY <1>1, <1>3, <2>6
  <2> QED BY <1>2, <2>1, <2>5, <2>7
<1> QED BY <1>4, <1>5

(* A finite set of numbers has a greatest one.                             *)
LEMMA MaxOfFinite ==
  ASSUME NEW S \in SUBSET Int, IsFiniteSet(S), S # {}
  PROVE  Max(S) \in S /\ \A y \in S : Max(S) >= y
<1> DEFINE P == {s \in SUBSET S : s = {} \/ \E x \in s : \A y \in s : x >= y}
<1>1. ASSUME NEW s \in SUBSET S, \A x \in s : s \ {x} \in P PROVE s \in P
  <2>1. CASE s = {}
    BY <2>1
  <2>2. CASE s # {}
    <3> PICK x \in s : TRUE
      BY <2>2
    <3>1. s \ {x} = {} \/ \E z \in s \ {x} : \A y \in s \ {x} : z >= y
      BY <1>1
    <3>2. CASE s \ {x} = {}
      <4>1. \A y \in s : x >= y
        BY <3>2
      <4> QED BY <4>1
    <3>3. CASE \E z \in s \ {x} : \A y \in s \ {x} : z >= y
      <4> PICK z \in s \ {x} : \A y \in s \ {x} : z >= y
        BY <3>3
      <4>1. x \in Int /\ z \in Int /\ s \subseteq Int
        OBVIOUS
      <4>2. CASE x >= z
        <5>1. \A y \in s : x >= y
          BY <4>1, <4>2
        <5> QED BY <5>1
      <4>3. CASE ~(x >= z)
        <5>1. \A y \in s : z >= y
          BY <4>1, <4>3
        <5> QED BY <5>1
      <4> QED BY <4>2, <4>3
    <3> QED BY <3>1, <3>2, <3>3
  <2> QED BY <2>1, <2>2
<1>2. S \in P
  <2> PICK Q : Q = P
    OBVIOUS
  <2> HIDE DEF P
  <2>1. \A s \in SUBSET S : (\A x \in s : s \ {x} \in Q) => s \in Q
    BY <1>1
  <2>2. S \in Q
    BY <2>1, Shrinking
  <2> QED BY <2>2
<1>3. \E x \in S : \A y \in S : x >= y
  BY <1>2
<1> QED BY <1>3 DEF Max

(* The sum of a function over all of its domain.                           *)
LEMMA SumOfAll == ASSUME NEW f PROVE SumFunction(f) = SumFunctionOnSet(f, DOMAIN f)
BY DEF SumFunction

(* The values a function takes on a finite set.                            *)
LEMMA ImageIsFinite ==
  ASSUME NEW f, NEW S, IsFiniteSet(S) PROVE IsFiniteSet({f[x] : x \in S})
<1> PICK T : T = {f[x] : x \in S}
  OBVIOUS
<1> PICK g : g = [x \in S |-> f[x]]
  OBVIOUS
<1>1. g \in [S -> T] /\ \A y \in T : \E x \in S : g[x] = y
  OBVIOUS
<1>2. g \in Surjection(S, T)
  BY <1>1, Fun_IsSurj
<1> QED BY <1>2, FS_Surjection
=============================================================================
