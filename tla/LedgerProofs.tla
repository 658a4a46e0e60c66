----------------------------- MODULE LedgerProofs -----------------------------
(***************************************************************************)
(* Proofs about the ledger and the sync: the types, that the two           *)
(* implementations of FIFO agree, that open lots are the latest purchases, *)
(* that a portfolio's equity is what its rows account for, that the        *)
(* reading commands tell one story, and that a sync neither drops what is  *)
(* held nor leaves a file that disagrees with the ledger.  The passes over *)
(* the stream are followed row by row, as sequences of accumulators.       *)
(***************************************************************************)
EXTENDS OpenPositionsSync, Reports, FoldTheorems

(* The transaction stream *)

(* Rows as the table holds them.                                           *)
Rows(R) ==
  /\ IsFiniteSet(R)
  /\ R \subseteq Transaction
  /\ \A t \in R : \A u \in R : t.id = u.id => t = u

Earlier(R, t) == {u \in R : Before(u, t)}

(* The order of the stream is total on rows.                               *)
LEMMA RowOrder ==
  ASSUME NEW R, Rows(R)
  PROVE  /\ \A t \in R : ~Before(t, t)
         /\ \A t \in R : \A u \in R : t # u => Before(t, u) \/ Before(u, t)
         /\ \A t \in R : \A u \in R : ~(Before(t, u) /\ Before(u, t))
         /\ \A t \in R : \A u \in R : \A w \in R : Before(t, u) /\ Before(u, w) => Before(t, w)
<1>1. \A t \in R : t.ts \in Nat /\ t.id \in Nat
  BY DEF Rows, Transaction
<1>2. \A t \in R : \A u \in R : t # u => t.id # u.id
  BY DEF Rows
<1> QED BY <1>1, <1>2 DEF Before

(* A later row has more rows before it.                                    *)
LEMMA EarlierGrows ==
  ASSUME NEW R, Rows(R), NEW t \in R, NEW u \in R, Before(t, u)
  PROVE  Cardinality(Earlier(R, t)) < Cardinality(Earlier(R, u))
<1>1. Earlier(R, t) \subseteq Earlier(R, u) /\ t \in Earlier(R, u) /\ t \notin Earlier(R, t)
  BY RowOrder DEF Earlier
<1>2. IsFiniteSet(Earlier(R, u)) /\ IsFiniteSet(Earlier(R, t))
  BY FS_Subset DEF Earlier, Rows
<1>3. /\ Cardinality(Earlier(R, t)) <= Cardinality(Earlier(R, u))
      /\ Cardinality(Earlier(R, t)) # Cardinality(Earlier(R, u))
  BY <1>1, <1>2, FS_Subset
<1>4. Cardinality(Earlier(R, t)) \in Nat /\ Cardinality(Earlier(R, u)) \in Nat
  BY <1>2, FS_CardinalityType
<1> QED BY <1>3, <1>4

(* Every place of the stream has its row.                                  *)
LEMMA Places ==
  ASSUME NEW R, Rows(R)
  PROVE  /\ Cardinality(R) \in Nat
         /\ \A t \in R : Cardinality(Earlier(R, t)) \in 0..(Cardinality(R) - 1)
         /\ \A i \in 1..Cardinality(R) : \E t \in R : Cardinality(Earlier(R, t)) = i - 1
<1> PICK n : n = Cardinality(R)
  OBVIOUS
<1>1. IsFiniteSet(R) /\ n \in Nat
  BY FS_CardinalityType DEF Rows
<1>2. \A t \in R : Cardinality(Earlier(R, t)) \in 0..(n - 1)
  <2> TAKE t \in R
  <2>1. Earlier(R, t) \subseteq R /\ Earlier(R, t) # R
    BY RowOrder DEF Earlier
  <2>2. IsFiniteSet(Earlier(R, t)) /\ Cardinality(Earlier(R, t)) <= n /\ Cardinality(Earlier(R, t)) # n
    BY <1>1, <2>1, FS_Subset
  <2>3. Cardinality(Earlier(R, t)) \in Nat
    BY <2>2, FS_CardinalityType
  <2> QED BY <1>1, <2>2, <2>3
<1> DEFINE rank == [t \in R |-> Cardinality(Earlier(R, t))]
<1>3. rank \in Injection(R, 0..(n - 1))
  <2>1. rank \in [R -> 0..(n - 1)]
    BY <1>2
  <2>2. ASSUME NEW t \in R, NEW u \in R, rank[t] = rank[u] PROVE t = u
    <3>1. Cardinality(Earlier(R, t)) = Cardinality(Earlier(R, u)) /\ Cardinality(Earlier(R, t)) \in Nat
      BY <2>2, <1>2, <1>1
    <3> QED BY <3>1, RowOrder, EarlierGrows
  <2> HIDE DEF rank
  <2> QED BY <2>1, <2>2, Fun_IsInj
<1>4. IsFiniteSet(0..(n - 1)) /\ Cardinality(0..(n - 1)) = n
  <2>0. \A a \in Int : \A b \in Int :
          IsFiniteSet(a..b) /\ Cardinality(a..b) = IF a > b THEN 0 ELSE b - a + 1
    BY FS_Interval
  <2> PICK m \in Int : m = n - 1
    BY <1>1
  <2> PICK z \in Int : z = 0
    OBVIOUS
  <2>1. IsFiniteSet(z..m) /\ Cardinality(z..m) = IF z > m THEN 0 ELSE m - z + 1
    BY <2>0
  <2> QED BY <2>1, <1>1
<1>5. rank \in Surjection(R, 0..(n - 1))
  <2> HIDE DEF rank
  <2> QED BY <1>3, <1>4, FS_Injection
<1>6. \A i \in 1..n : \E t \in R : rank[t] = i - 1
  <2> TAKE i \in 1..n
  <2>1. i - 1 \in 0..(n - 1)
    BY <1>1
  <2> HIDE DEF rank
  <2> QED BY <1>5, <2>1 DEF Surjection
<1> QED BY <1>1, <1>2, <1>6

(* The stream lists the rows in their order, each once.                    *)
LEMMA StreamIsSorted ==
  ASSUME NEW R, Rows(R)
  PROVE  /\ Len(Stream(R)) = Cardinality(R) /\ Cardinality(R) \in Nat
         /\ Stream(R) \in Seq(R)
         /\ \A i \in 1..Cardinality(R) : Stream(R)[i] \in R /\ Cardinality(Earlier(R, Stream(R)[i])) = i - 1
         /\ \A t \in R : \E i \in 1..Cardinality(R) : Stream(R)[i] = t
         /\ \A i \in 1..Cardinality(R) : \A j \in 1..Cardinality(R) :
              i < j => Before(Stream(R)[i], Stream(R)[j])
<1> PICK n \in Nat : n = Cardinality(R)
  BY Places
<1> PICK S : S = Stream(R)
  OBVIOUS
<1>1. S = [i \in 1..n |-> CHOOSE t \in R : Cardinality(Earlier(R, t)) = i - 1]
  <2>1. Stream(R) = [i \in 1..Cardinality(R) |-> CHOOSE t \in R : Cardinality(Earlier(R, t)) = i - 1]
    BY Zenon DEF Stream, Earlier
  <2> QED BY <2>1
<1>2. \A i \in 1..n : S[i] \in R /\ Cardinality(Earlier(R, S[i])) = i - 1
  BY <1>1, Places
<1>3. Len(S) = n /\ S \in Seq(R)
  BY <1>1, <1>2
<1>4. ASSUME NEW t \in R PROVE \E i \in 1..n : S[i] = t
  <2> PICK k : k = Cardinality(Earlier(R, t))
    OBVIOUS
  <2>1. k \in 0..(n - 1)
    BY Places
  <2>2. k + 1 \in 1..n /\ (k + 1) - 1 = k
    BY <2>1
  <2>3. S[k + 1] \in R /\ Cardinality(Earlier(R, S[k + 1])) = k
    BY <2>2, <1>2
  <2>4. S[k + 1] = t
    BY <2>1, <2>3, RowOrder, EarlierGrows
  <2> QED BY <2>2, <2>4
<1>5. ASSUME NEW i \in 1..n, NEW j \in 1..n, i < j PROVE Before(S[i], S[j])
  <2>1. S[i] \in R /\ S[j] \in R /\ Cardinality(Earlier(R, S[i])) = i - 1 /\ Cardinality(Earlier(R, S[j])) = j - 1
    BY <1>2
  <2>2. S[i] # S[j]
    BY <2>1, <1>5
  <2>3. CASE Before(S[j], S[i])
    <3>1. j - 1 < i - 1
      BY <2>1, <2>3, EarlierGrows
    <3> QED BY <3>1, <1>5
  <2> QED BY <2>1, <2>2, <2>3, RowOrder
<1> QED BY <1>2, <1>3, <1>4, <1>5

-----------------------------------------------------------------------------
(* A sale *)

Lot == [id : Nat, qty : Nat \ {0}, price : Nat]
Sale == [left : Nat, lots : Seq(Lot), taken : SUBSET Lot]

(* One lot of a sale: it is kept, split or used up.                        *)
LEMMA TakeFromCases ==
  ASSUME NEW acc \in Sale, NEW lot \in Lot
  PROVE  LET r == TakeFrom(acc, lot) IN
         \/ acc.left = 0 /\ r = [left |-> 0, lots |-> Append(acc.lots, lot), taken |-> acc.taken]
         \/ /\ 0 < acc.left /\ acc.left < lot.qty
            /\ r = [left |-> 0, lots |-> Append(acc.lots, [lot EXCEPT !.qty = @ - acc.left]),
                    taken |-> acc.taken \cup {[lot EXCEPT !.qty = acc.left]}]
         \/ /\ lot.qty <= acc.left
            /\ r = [left |-> acc.left - lot.qty, lots |-> acc.lots, taken |-> acc.taken \cup {lot}]
<1> PICK q \in Nat : q = lot.qty /\ q # 0
  BY DEF Lot
<1> PICK f \in Nat : f = acc.left
  BY DEF Sale
<1>1. CASE f = 0
  <2> PICK z \in Nat : z = 0
    OBVIOUS
  <2>1. Min({lot.qty, acc.left}) = z /\ z < lot.qty /\ ~(z > 0)
    BY <1>1, MinWith
  <2>2. [lot EXCEPT !.qty = @ - z] = lot
    BY DEF Lot
  <2>3. TakeFrom(acc, lot) = [left |-> acc.left - z, lots |-> Append(acc.lots, [lot EXCEPT !.qty = @ - z]),
                              taken |-> acc.taken]
    BY <2>1 DEF TakeFrom
  <2>4. acc.left - z = 0
    BY <1>1
  <2> QED BY <1>1, <2>2, <2>3, <2>4
<1>2. CASE f # 0 /\ f < q
  <2>1. Min({lot.qty, acc.left}) = f
    BY <1>2, MinWith
  <2>2. acc.left - f = 0 /\ f > 0 /\ f < lot.qty
    BY <1>2
  <2> QED BY <2>1, <2>2 DEF TakeFrom
<1>3. CASE q <= f
  <2>1. Min({lot.qty, acc.left}) = q
    BY <1>3, MinWith
  <2>2. [lot EXCEPT !.qty = q] = lot
    BY DEF Lot
  <2>3. q > 0 /\ ~(q < lot.qty)
    OBVIOUS
  <2> QED BY <1>3, <2>1, <2>2, <2>3 DEF TakeFrom
<1> QED BY <1>1, <1>2, <1>3

(* One lot of a sale leaves a well-typed sale.                             *)
LEMMA TakeFromType ==
  ASSUME NEW acc \in Sale, NEW lot \in Lot PROVE TakeFrom(acc, lot) \in Sale
<1> PICK r : r = TakeFrom(acc, lot)
  OBVIOUS
<1>1. acc.left \in Nat /\ acc.lots \in Seq(Lot) /\ acc.taken \in SUBSET Lot /\ lot.qty \in Nat
  BY DEF Sale, Lot
<1>2. CASE acc.left = 0 /\ r = [left |-> 0, lots |-> Append(acc.lots, lot), taken |-> acc.taken]
  BY <1>1, <1>2 DEF Sale
<1>3. CASE /\ 0 < acc.left /\ acc.left < lot.qty
           /\ r = [left |-> 0, lots |-> Append(acc.lots, [lot EXCEPT !.qty = @ - acc.left]),
                   taken |-> acc.taken \cup {[lot EXCEPT !.qty = acc.left]}]
  <2>1. [lot EXCEPT !.qty = @ - acc.left] \in Lot /\ [lot EXCEPT !.qty = acc.left] \in Lot
    BY <1>1, <1>3 DEF Lot
  <2> QED BY <1>1, <1>3, <2>1 DEF Sale
<1>4. CASE /\ lot.qty <= acc.left
           /\ r = [left |-> acc.left - lot.qty, lots |-> acc.lots, taken |-> acc.taken \cup {lot}]
  <2>1. acc.left - lot.qty \in Nat
    BY <1>1, <1>4
  <2> QED BY <1>1, <1>4, <2>1 DEF Sale
<1> QED BY <1>2, <1>3, <1>4, TakeFromCases

(* g is the function by which FoldLeft walks the lots of a sale.           *)
Consuming(g, lots, qty) ==
  g = [s \in SUBSET (DOMAIN lots) |->
         IF s = {} THEN [left |-> qty, lots |-> <<>>, taken |-> {}]
                   ELSE TakeFrom(g[s \ {Max(s)}], lots[Max(s)])]

(* Consume goes through the lots one by one.                               *)
LEMMA ConsumeSteps ==
  ASSUME NEW lots \in Seq(Lot), NEW qty \in Nat
  PROVE  \E a : /\ a[0] = [left |-> qty, lots |-> <<>>, taken |-> {}]
                /\ \A k \in 1..Len(lots) : a[k] = TakeFrom(a[k - 1], lots[k])
                /\ Consume(lots, qty) = a[Len(lots)]
<1> PICK n \in Nat : n = Len(lots)
  OBVIOUS
<1> PICK base : base = [left |-> qty, lots |-> <<>>, taken |-> {}]
  OBVIOUS
<1>0. DOMAIN lots = 1..n
  OBVIOUS
<1>1. \A k \in 1..n : lots[k] \in Lot
  OBVIOUS
<1> DEFINE step == [p \in Sale \X (1..n) |-> TakeFrom(p[1], lots[p[2]])]
<1>2. PICK g : Walks(g, step, base, n, Sale)
  <2>1. step \in [Sale \X (1..n) -> Sale]
    BY <1>1, TakeFromType
  <2>2. base \in Sale
    BY DEF Sale
  <2> HIDE DEF step
  <2> QED BY <2>1, <2>2, WalkExists
<1>3. \A s \in SUBSET (1..n) : g[s] = IF s = {} THEN base ELSE TakeFrom(g[s \ {Max(s)}], lots[Max(s)])
  <2> TAKE s \in SUBSET (1..n)
  <2>1. CASE s = {}
    BY <1>2, <2>1 DEF Walks
  <2>2. CASE s # {}
    <3>1. Max(s) \in 1..n /\ s \ {Max(s)} \in SUBSET (1..n)
      BY <2>2, MaxIsIn
    <3>2. g[s \ {Max(s)}] \in Sale
      BY <1>2, <3>1 DEF Walks
    <3>3. g[s] = step[<<g[s \ {Max(s)}], Max(s)>>]
      BY <1>2, <2>2 DEF Walks
    <3> QED BY <3>1, <3>2, <3>3, <2>2
  <2> QED BY <2>1, <2>2
<1>4. \E h : Consuming(h, lots, qty)
  <2>1. g = [s \in SUBSET (1..n) |-> g[s]]
    BY <1>2 DEF Walks
  <2> QED BY <1>0, <1>3, <2>1 DEF Consuming
<1>5. PICK h : Consuming(h, lots, qty) /\ Consume(lots, qty) = h[DOMAIN lots]
  <2>1. Consume(lots, qty) = (CHOOSE h : Consuming(h, lots, qty))[DOMAIN lots]
    BY DEF Consume, FoldLeft, MapThenFoldSet, Consuming
  <2> QED BY <1>4, <2>1
<1> DEFINE a == [k \in 0..n |-> h[1..k]]
<1>6. a[0] = base
  <2>1. 1..0 = {} /\ {} \in SUBSET (1..n)
    OBVIOUS
  <2> QED BY <1>0, <1>5, <2>1 DEF Consuming
<1>7. ASSUME NEW k \in 1..n PROVE a[k] = TakeFrom(a[k - 1], lots[k])
  <2>1. 1..k \in SUBSET (1..n) /\ 1..k # {}
    <3>1. k \in 1..k /\ \A i \in 1..k : i \in 1..n
      OBVIOUS
    <3> QED BY <3>1
  <2>2. Max(1..k) = k /\ (1..k) \ {Max(1..k)} = 1..(k - 1)
    BY MaxOfPrefix
  <2>3. h[1..k] = TakeFrom(h[1..(k - 1)], lots[k])
    BY <1>0, <1>5, <2>1, <2>2 DEF Consuming
  <2> QED BY <2>3
<1>8. Consume(lots, qty) = a[n]
  BY <1>0, <1>5
<1> HIDE DEF a
<1> QED BY <1>6, <1>7, <1>8

Distinct(s) == \A i \in DOMAIN s : \A j \in DOMAIN s : s[i].id = s[j].id => i = j

(* A lot with a new id keeps the ids of a list apart.                      *)
LEMMA DistinctAppend ==
  ASSUME NEW s \in Seq(Lot), NEW x \in Lot, Distinct(s), \A l \in ToSet(s) : l.id # x.id
  PROVE  Distinct(Append(s, x))
<1> PICK n \in Nat : n = Len(s)
  OBVIOUS
<1> PICK u : u = Append(s, x)
  OBVIOUS
<1>1. /\ DOMAIN s = 1..n /\ DOMAIN u = 1..(n + 1)
      /\ u[n + 1] = x /\ \A i \in 1..n : u[i] = s[i]
  OBVIOUS
<1>2. \A i \in 1..n : u[i].id # u[n + 1].id
  BY <1>1 DEF ToSet
<1>3. \A i \in 1..(n + 1) : i \in 1..n \/ i = n + 1
  OBVIOUS
<1> QED BY <1>1, <1>2, <1>3 DEF Distinct

(* What a sale leaves and what it takes are the lots it found, or parts of  *)
(* them.                                                                   *)
LEMMA ConsumeKeeps ==
  ASSUME NEW lots \in Seq(Lot), NEW qty \in Nat
  PROVE  LET r == Consume(lots, qty) IN
         /\ r \in Sale
         /\ IsFiniteSet(r.taken)
         /\ \A l \in ToSet(r.lots) \cup r.taken :
              \E i \in 1..Len(lots) : lots[i].id = l.id /\ lots[i].price = l.price
         /\ Distinct(lots) => Distinct(r.lots)
<1> PICK n \in Nat : n = Len(lots)
  OBVIOUS
<1>0. DOMAIN lots = 1..n /\ \A k \in 1..n : lots[k] \in Lot
  OBVIOUS
<1>1. PICK a : /\ a[0] = [left |-> qty, lots |-> <<>>, taken |-> {}]
               /\ \A k \in 1..n : a[k] = TakeFrom(a[k - 1], lots[k])
               /\ Consume(lots, qty) = a[n]
  BY ConsumeSteps
<1> DEFINE From(l, k) == \E i \in 1..k : lots[i].id = l.id /\ lots[i].price = l.price
           Good(k) == /\ a[k] \in Sale
                      /\ IsFiniteSet(a[k].taken)
                      /\ \A l \in ToSet(a[k].lots) \cup a[k].taken : From(l, k)
                      /\ Distinct(lots) => Distinct(a[k].lots)
           P == {k \in 0..n : Good(k)}
<1>2. 0 \in P
  <2>1. a[0].left = qty /\ a[0].lots = <<>> /\ a[0].taken = {} /\ a[0] \in Sale
    BY <1>1 DEF Sale
  <2>2. IsFiniteSet(a[0].taken)
    BY <2>1, FS_EmptySet
  <2>3. ToSet(a[0].lots) = {} /\ Distinct(a[0].lots)
    BY <2>1 DEF ToSet, Distinct
  <2>4. Good(0)
    <3> HIDE DEF From
    <3> QED BY <2>1, <2>2, <2>3
  <2> QED BY <2>4
<1>3. ASSUME NEW k \in 1..n, k - 1 \in P PROVE k \in P
  <2> PICK acc : acc = a[k - 1]
    OBVIOUS
  <2> PICK lot : lot = lots[k]
    OBVIOUS
  <2> PICK r : r = TakeFrom(acc, lot)
    OBVIOUS
  <2>1. a[k] = r /\ lot \in Lot /\ acc \in Sale /\ r \in Sale /\ IsFiniteSet(acc.taken)
    BY <1>0, <1>1, <1>3, TakeFromType
  <2>2. /\ \A l \in ToSet(acc.lots) \cup acc.taken : From(l, k - 1)
        /\ Distinct(lots) => Distinct(acc.lots)
    BY <1>3
  <2>3. \A l : From(l, k - 1) => From(l, k)
    OBVIOUS
  <2>4. \A l : l.id = lot.id /\ l.price = lot.price => From(l, k)
    OBVIOUS
  <2>5. Distinct(lots) => \A l : From(l, k - 1) => l.id # lot.id
    BY <1>0 DEF Distinct
  <2> HIDE DEF From
  <2>6. acc.lots \in Seq(Lot) /\ acc.left \in Nat /\ acc.taken \in SUBSET Lot
    BY <2>1 DEF Sale
  <2>7. ASSUME NEW x \in Lot, x.id = lot.id, x.price = lot.price
        PROVE  LET s == Append(acc.lots, x) IN
               /\ \A l \in ToSet(s) : From(l, k)
               /\ Distinct(lots) => Distinct(s)
    <3>1. ToSet(Append(acc.lots, x)) = ToSet(acc.lots) \cup {x}
      BY <2>6, ElemsOfAppend
    <3>2. Distinct(lots) => \A l \in ToSet(acc.lots) : l.id # x.id
      BY <2>2, <2>5, <2>7
    <3>3. Distinct(lots) => Distinct(Append(acc.lots, x))
      BY <2>2, <2>6, <3>2, DistinctAppend
    <3> QED BY <2>2, <2>3, <2>4, <2>7, <3>1, <3>3
  <2>8. ASSUME NEW x \in Lot, x.id = lot.id, x.price = lot.price
        PROVE  /\ IsFiniteSet(acc.taken \cup {x})
               /\ \A l \in acc.taken \cup {x} : From(l, k)
    <3>1. IsFiniteSet(acc.taken \cup {x})
      BY <2>1, FS_AddElement
    <3> QED BY <2>2, <2>3, <2>4, <2>8, <3>1
  <2>9. \A l \in ToSet(acc.lots) \cup acc.taken : From(l, k)
    BY <2>2, <2>3
  <2> DEFINE Goal == /\ IsFiniteSet(r.taken)
                     /\ \A l \in ToSet(r.lots) \cup r.taken : From(l, k)
                     /\ Distinct(lots) => Distinct(r.lots)
  <2>10. CASE acc.left = 0 /\ r = [left |-> 0, lots |-> Append(acc.lots, lot), taken |-> acc.taken]
    <3>1. Goal
      BY <2>1, <2>7, <2>9, <2>10
    <3> QED BY <2>1, <3>1
  <2>11. CASE /\ 0 < acc.left /\ acc.left < lot.qty
              /\ r = [left |-> 0, lots |-> Append(acc.lots, [lot EXCEPT !.qty = @ - acc.left]),
                      taken |-> acc.taken \cup {[lot EXCEPT !.qty = acc.left]}]
    <3> PICK x : x = [lot EXCEPT !.qty = @ - acc.left]
      OBVIOUS
    <3> PICK y : y = [lot EXCEPT !.qty = acc.left]
      OBVIOUS
    <3>0. lot.qty - acc.left \in Nat \ {0} /\ acc.left \in Nat \ {0}
      <4> PICK q \in Nat : q = lot.qty
        BY <2>1 DEF Lot
      <4> QED BY <2>6, <2>11
    <3>1. x \in Lot /\ y \in Lot /\ x.id = lot.id /\ x.price = lot.price /\ y.id = lot.id /\ y.price = lot.price
      BY <2>1, <3>0 DEF Lot
    <3>2. r.lots = Append(acc.lots, x) /\ r.taken = acc.taken \cup {y}
      BY <2>11
    <3>3. Goal
      BY <2>7, <2>8, <3>1, <3>2
    <3> QED BY <2>1, <3>3
  <2>12. CASE /\ lot.qty <= acc.left
              /\ r = [left |-> acc.left - lot.qty, lots |-> acc.lots, taken |-> acc.taken \cup {lot}]
    <3>1. Goal
      BY <2>1, <2>2, <2>8, <2>9, <2>12
    <3> QED BY <2>1, <3>1
  <2> QED BY <2>1, <2>10, <2>11, <2>12, TakeFromCases
<1>4. n \in P
  <2> PICK Q : Q = P
    OBVIOUS
  <2> HIDE DEF P
  <2>1. 0 \in Q /\ \A k \in 1..n : k - 1 \in Q => k \in Q
    BY <1>2, <1>3
  <2>2. \A k \in 0..n : k \in Q
    BY <2>1, Climbing
  <2> QED BY <2>2
<1> QED BY <1>1, <1>4

-----------------------------------------------------------------------------
(* Books *)

Book == [lots : Seq(Lot), realized : Int, costOfSold : Int, bought : Nat, sold : Nat,
         invested : Nat, proceeds : Nat, fees : Nat]

(* Quantity and cost of a finite set of lots are numbers.                  *)
LEMMA SumsOfLots ==
  ASSUME NEW lots \in SUBSET Lot, IsFiniteSet(lots)
  PROVE  QtyOf(lots) \in Nat /\ CostOf(lots) \in Nat
<1>1. QtyOf(lots) \in Nat
  <2> PICK f : f = [l \in lots |-> l.qty]
    OBVIOUS
  <2>1. DOMAIN f = lots /\ \A l \in lots : f[l] \in Nat
    BY DEF Lot
  <2>2. SumFunctionOnSet(f, lots) \in Nat
    BY <2>1, SumIsNat
  <2> QED BY <2>1, <2>2 DEF QtyOf, SumFunction
<1>2. CostOf(lots) \in Nat
  <2> PICK f : f = [l \in lots |-> l.qty * l.price]
    OBVIOUS
  <2>1. DOMAIN f = lots /\ \A l \in lots : f[l] \in Nat
    BY DEF Lot
  <2>2. SumFunctionOnSet(f, lots) \in Nat
    BY <2>1, SumIsNat
  <2> QED BY <2>1, <2>2 DEF CostOf, SumFunction
<1> QED BY <1>1, <1>2

(* A purchase leaves a book.                                               *)
LEMMA BoughtType ==
  ASSUME NEW book \in Book, NEW t \in Transaction
  PROVE  Bought(book, t) \in Book
<1> PICK q \in Nat : q = t.qty
  BY DEF Transaction
<1> PICK x \in Nat : x = t.price
  BY DEF Transaction
<1>1. [id |-> t.id, qty |-> t.qty, price |-> t.price] \in Lot
  BY DEF Transaction, Lot
<1>2. Append(book.lots, [id |-> t.id, qty |-> t.qty, price |-> t.price]) \in Seq(Lot)
  BY <1>1 DEF Book
<1> PICK y \in Nat : y = q * x
  OBVIOUS
<1>3. t.fee \in Nat
  BY DEF Transaction
<1>4. book.bought + q \in Nat /\ book.invested + y \in Nat /\ book.fees + t.fee \in Nat
  <2>1. book.bought \in Nat /\ book.invested \in Nat /\ book.fees \in Nat
    BY DEF Book
  <2> QED BY <1>3, <2>1
<1>5. Bought(book, t) = [book EXCEPT !.lots = Append(@, [id |-> t.id, qty |-> t.qty, price |-> t.price]),
               !.bought = @ + q,
               !.invested = @ + y,
               !.fees = @ + t.fee]
  BY DEF Bought
<1> QED BY <1>2, <1>4, <1>5 DEF Book

(* A sale leaves a book.                                                   *)
LEMMA SoldType ==
  ASSUME NEW book \in Book, NEW t \in Transaction
  PROVE  Sold(book, t) \in Book
<1> PICK q \in Nat : q = t.qty
  BY DEF Transaction
<1> PICK x \in Nat : x = t.price
  BY DEF Transaction
<1> PICK sale : sale = Consume(book.lots, q)
  OBVIOUS
<1>1. sale \in Sale /\ IsFiniteSet(sale.taken)
  BY ConsumeKeeps DEF Book
<1>2. sale.lots \in Seq(Lot) /\ sale.taken \in SUBSET Lot
  BY <1>1 DEF Sale
<1> PICK c \in Nat : c = CostOf(sale.taken)
  BY <1>1, <1>2, SumsOfLots
<1> PICK u \in Nat : u = QtyOf(sale.taken)
  BY <1>1, <1>2, SumsOfLots
<1> PICK y \in Nat : y = q * x
  OBVIOUS
<1> PICK z \in Nat : z = u * x
  OBVIOUS
<1>3. t.fee \in Nat
  BY DEF Transaction
<1>4. /\ book.realized + z - c \in Int /\ book.costOfSold + c \in Int
      /\ book.sold + q \in Nat /\ book.proceeds + y \in Nat /\ book.fees + t.fee \in Nat
  <2>1. /\ book.realized \in Int /\ book.costOfSold \in Int
        /\ book.sold \in Nat /\ book.proceeds \in Nat /\ book.fees \in Nat
    BY DEF Book
  <2> QED BY <1>3, <2>1
<1>5. Sold(book, t) = [book EXCEPT !.lots = sale.lots,
               !.realized = @ + z - c,
               !.costOfSold = @ + c,
               !.sold = @ + q,
               !.proceeds = @ + y,
               !.fees = @ + t.fee]
  BY DEF Sold, Settle
<1> QED BY <1>2, <1>4, <1>5 DEF Book

(* A row is booked under a key.                                            *)
LEMMA KeyOfType == ASSUME NEW t \in Transaction PROVE KeyOf(t) \in Keys
  BY DEF Transaction, KeyOf, Keys

(* A row leaves every key with a book.                                     *)
LEMMA BookedType ==
  ASSUME NEW books \in [Keys -> Book], NEW t \in Transaction
  PROVE  Booked(books, t) \in [Keys -> Book]
<1> PICK k \in Keys : k = KeyOf(t)
  BY KeyOfType
<1>1. Bought(books[k], t) \in Book /\ Sold(books[k], t) \in Book
  BY BoughtType, SoldType
<1> QED BY <1>1 DEF Booked

(* The book nobody traded on is a book.                                    *)
LEMMA EmptyBookType == EmptyBook \in Book
  BY DEF EmptyBook, Book

(* g is the function by which FoldLeft walks the stream.                   *)
Passing(g, S) ==
  g = [s \in SUBSET (DOMAIN S) |->
         IF s = {} THEN [k \in Keys |-> EmptyBook]
                   ELSE Booked(g[s \ {Max(s)}], S[Max(s)])]

(* compute_fifo goes through the rows one by one.                          *)
LEMMA FifoSteps ==
  ASSUME NEW R, Rows(R)
  PROVE  \E a : /\ a[0] = [k \in Keys |-> EmptyBook]
                /\ \A k \in 1..Cardinality(R) : a[k] = Booked(a[k - 1], Stream(R)[k])
                /\ Fifo(R) = a[Cardinality(R)]
<1> PICK n \in Nat : n = Cardinality(R)
  BY StreamIsSorted
<1> PICK S : S = Stream(R)
  OBVIOUS
<1> PICK base : base = [k \in Keys |-> EmptyBook]
  OBVIOUS
<1> PICK D : D = [Keys -> Book]
  OBVIOUS
<1>0. DOMAIN S = 1..n /\ \A k \in 1..n : S[k] \in Transaction
  BY StreamIsSorted DEF Rows
<1> DEFINE step == [p \in D \X (1..n) |-> Booked(p[1], S[p[2]])]
<1>2. PICK g : Walks(g, step, base, n, D)
  <2>1. step \in [D \X (1..n) -> D]
    BY <1>0, BookedType
  <2>2. base \in D
    BY EmptyBookType
  <2> HIDE DEF step
  <2> QED BY <2>1, <2>2, WalkExists
<1>3. \A s \in SUBSET (1..n) : g[s] = IF s = {} THEN base ELSE Booked(g[s \ {Max(s)}], S[Max(s)])
  <2> TAKE s \in SUBSET (1..n)
  <2>1. CASE s = {}
    BY <1>2, <2>1 DEF Walks
  <2>2. CASE s # {}
    <3>1. Max(s) \in 1..n /\ s \ {Max(s)} \in SUBSET (1..n)
      BY <2>2, MaxIsIn
    <3>2. g[s \ {Max(s)}] \in D
      BY <1>2, <3>1 DEF Walks
    <3>3. g[s] = step[<<g[s \ {Max(s)}], Max(s)>>]
      BY <1>2, <2>2 DEF Walks
    <3> QED BY <3>1, <3>2, <3>3, <2>2
  <2> QED BY <2>1, <2>2
<1>4. \E h : Passing(h, S)
  <2>1. g = [s \in SUBSET (1..n) |-> g[s]]
    BY <1>2 DEF Walks
  <2>2. g = [s \in SUBSET (1..n) |-> IF s = {} THEN base ELSE Booked(g[s \ {Max(s)}], S[Max(s)])]
    BY <1>3, <2>1
  <2>3. Passing(g, S)
    BY ONLY <1>0, <2>2, base = [k \in Keys |-> EmptyBook] DEF Passing
  <2> QED BY <2>3
<1>5. PICK h : Passing(h, S) /\ Fifo(R) = h[DOMAIN S]
  <2>1. Fifo(R) = (CHOOSE h : Passing(h, S))[DOMAIN S]
    BY DEF Fifo, FoldLeft, MapThenFoldSet, Passing
  <2> QED BY <1>4, <2>1
<1> DEFINE a == [k \in 0..n |-> h[1..k]]
<1>6. a[0] = base
  <2>1. 1..0 = {} /\ {} \in SUBSET (1..n)
    OBVIOUS
  <2> QED BY <1>0, <1>5, <2>1 DEF Passing
<1>7. ASSUME NEW k \in 1..n PROVE a[k] = Booked(a[k - 1], S[k])
  <2>1. 1..k \in SUBSET (1..n) /\ 1..k # {}
    <3>1. k \in 1..k /\ \A i \in 1..k : i \in 1..n
      OBVIOUS
    <3> QED BY <3>1
  <2>2. Max(1..k) = k /\ (1..k) \ {Max(1..k)} = 1..(k - 1)
    BY MaxOfPrefix
  <2>3. h[1..k] = Booked(h[1..(k - 1)], S[k])
    BY <1>0, <1>5, <2>1, <2>2 DEF Passing
  <2> QED BY <2>3
<1>8. Fifo(R) = a[n]
  BY <1>0, <1>5
<1> HIDE DEF a
<1> QED BY <1>6, <1>7, <1>8

(* The open lots of every key are purchases of that key, each once, and a   *)
(* key that was never traded has an empty book.                            *)
LEMMA FifoKeeps ==
  ASSUME NEW R, Rows(R)
  PROVE  /\ Fifo(R) \in [Keys -> Book]
         /\ \A k \in Keys :
              /\ (\A t \in R : KeyOf(t) # k) => Fifo(R)[k] = EmptyBook
              /\ Distinct(Fifo(R)[k].lots)
              /\ \A l \in ToSet(Fifo(R)[k].lots) :
                   \E t \in R : t.id = l.id /\ KeyOf(t) = k /\ t.side = "BUY" /\ t.price = l.price
<1> PICK n \in Nat : n = Cardinality(R)
  BY StreamIsSorted
<1> PICK S : S = Stream(R)
  OBVIOUS
<1>1. \A i \in 1..n : S[i] \in R /\ S[i] \in Transaction
  BY StreamIsSorted DEF Rows
<1>2. \A i \in 1..n : \A j \in 1..n : S[i].id = S[j].id => i = j
  <2> SUFFICES ASSUME NEW i \in 1..n, NEW j \in 1..n, S[i].id = S[j].id PROVE i = j
    OBVIOUS
  <2>1. S[i] = S[j]
    BY <1>1 DEF Rows
  <2>2. i - 1 = j - 1
    BY <2>1, StreamIsSorted
  <2> QED BY <2>2
<1>3. PICK a : /\ a[0] = [k \in Keys |-> EmptyBook]
               /\ \A k \in 1..n : a[k] = Booked(a[k - 1], S[k])
               /\ Fifo(R) = a[n]
  BY FifoSteps
<1> DEFINE PurchaseOf(l, k, m) == \E i \in 1..m : /\ S[i].id = l.id /\ KeyOf(S[i]) = k
                                               /\ S[i].side = "BUY" /\ S[i].price = l.price
           Sound(book, k, m) == /\ book \in Book
                                /\ (\A i \in 1..m : KeyOf(S[i]) # k) => book = EmptyBook
                                /\ Distinct(book.lots)
                                /\ \A l \in ToSet(book.lots) : PurchaseOf(l, k, m)
           P == {m \in 0..n : a[m] \in [Keys -> Book] /\ \A k \in Keys : Sound(a[m][k], k, m)}
<1>4. 0 \in P
  <2>1. a[0] \in [Keys -> Book] /\ \A k \in Keys : a[0][k] = EmptyBook
    BY <1>3, EmptyBookType
  <2>2. \A k \in Keys : Sound(EmptyBook, k, 0)
    <3>1. EmptyBook.lots = <<>> /\ EmptyBook \in Book
      BY EmptyBookType DEF EmptyBook
    <3>2. ToSet(EmptyBook.lots) = {} /\ Distinct(EmptyBook.lots)
      BY <3>1 DEF ToSet, Distinct
    <3> HIDE DEF PurchaseOf
    <3> QED BY <3>1, <3>2
  <2> HIDE DEF Sound
  <2> QED BY <2>1, <2>2
<1>5. ASSUME NEW m \in 1..n, m - 1 \in P PROVE m \in P
  <2> PICK t : t = S[m]
    OBVIOUS
  <2> PICK b : b = a[m - 1]
    OBVIOUS
  <2> PICK c \in Keys : c = KeyOf(t)
    BY <1>1, KeyOfType
  <2>1. t \in Transaction /\ a[m] = Booked(b, t)
    BY <1>1, <1>3
  <2>2. b \in [Keys -> Book] /\ \A k \in Keys : Sound(b[k], k, m - 1)
    BY <1>5
  <2>3. \A l : \A k : PurchaseOf(l, k, m - 1) => PurchaseOf(l, k, m)
    OBVIOUS
  <2>4. a[m] \in [Keys -> Book] /\ \A k \in Keys : a[m][k] = IF k = c THEN (IF t.side = "BUY" THEN Bought(b[c], t) ELSE Sold(b[c], t)) ELSE b[k]
    BY <2>1, <2>2, BookedType DEF Booked
  <2>5. \A l : PurchaseOf(l, c, m - 1) => l.id # t.id
    BY <1>2
  <2>6. ASSUME NEW k \in Keys, k # c PROVE Sound(a[m][k], k, m)
    <3>1. Sound(b[k], k, m - 1) /\ a[m][k] = b[k]
      BY <2>2, <2>4, <2>6
    <3>2. (\A i \in 1..m : KeyOf(S[i]) # k) => \A i \in 1..(m - 1) : KeyOf(S[i]) # k
      OBVIOUS
    <3> HIDE DEF PurchaseOf
    <3> QED BY <3>1, <3>2, <2>3
  <2>7. b[c] \in Book /\ b[c].lots \in Seq(Lot) /\ Distinct(b[c].lots)
        /\ \A l \in ToSet(b[c].lots) : PurchaseOf(l, c, m - 1)
    <3> HIDE DEF PurchaseOf
    <3> QED BY <2>2 DEF Book
  <2>8. ~\A i \in 1..m : KeyOf(S[i]) # c
    OBVIOUS
  <2>9. CASE t.side = "BUY"
    <3> PICK x : x = [id |-> t.id, qty |-> t.qty, price |-> t.price]
      OBVIOUS
    <3> PICK s : s = Append(b[c].lots, x)
      OBVIOUS
    <3>1. x \in Lot /\ x.id = t.id /\ x.price = t.price
      BY <2>1 DEF Transaction, Lot
    <3>2. Bought(b[c], t).lots = s
      BY <2>7 DEF Bought, Book
    <3>3. ToSet(s) = ToSet(b[c].lots) \cup {x} /\ PurchaseOf(x, c, m)
      <4>1. ToSet(s) = ToSet(b[c].lots) \cup {x}
        BY <2>7, <3>1, ElemsOfAppend
      <4>2. PurchaseOf(x, c, m)
        BY <2>9, <3>1
      <4> QED BY <4>1, <4>2
    <3>4. Distinct(s)
      <4>1. \A l \in ToSet(b[c].lots) : l.id # x.id
        <5> HIDE DEF PurchaseOf
        <5> QED BY <2>5, <2>7, <3>1
      <4> QED BY <4>1, <2>7, <3>1, DistinctAppend
    <3>5. Bought(b[c], t) \in Book
      BY <2>1, <2>7, BoughtType
    <3>6. Sound(Bought(b[c], t), c, m)
      <4> HIDE DEF PurchaseOf
      <4> QED BY <2>3, <2>7, <2>8, <3>2, <3>3, <3>4, <3>5
    <3>7. Sound(a[m][c], c, m)
      BY <2>4, <2>9, <3>6
    <3> QED BY <2>4, <2>6, <3>7
  <2>10. CASE t.side # "BUY"
    <3> PICK q \in Nat : q = t.qty
      BY <2>1 DEF Transaction
    <3> PICK r : r = Consume(b[c].lots, q)
      OBVIOUS
    <3>1. /\ r \in Sale /\ Distinct(r.lots)
          /\ \A l \in ToSet(r.lots) : \E i \in 1..Len(b[c].lots) : b[c].lots[i].id = l.id /\ b[c].lots[i].price = l.price
      <4> PICK L \in Seq(Lot) : L = b[c].lots
        BY <2>7
      <4>1. Distinct(L) /\ r = Consume(L, q)
        BY <2>7
      <4>2. /\ r \in Sale /\ Distinct(r.lots)
            /\ \A l \in ToSet(r.lots) \cup r.taken : \E i \in 1..Len(L) : L[i].id = l.id /\ L[i].price = l.price
        BY ONLY <4>1, ConsumeKeeps, L \in Seq(Lot), q \in Nat
      <4> QED BY ONLY <4>2, L = b[c].lots
    <3>2. \A l \in ToSet(r.lots) : PurchaseOf(l, c, m - 1)
      <4> SUFFICES ASSUME NEW l \in ToSet(r.lots) PROVE PurchaseOf(l, c, m - 1)
        OBVIOUS
      <4>1. PICK i \in 1..Len(b[c].lots) : b[c].lots[i].id = l.id /\ b[c].lots[i].price = l.price
        BY <3>1
      <4>2. b[c].lots[i] \in ToSet(b[c].lots)
        BY <2>7 DEF ToSet
      <4>3. PurchaseOf(b[c].lots[i], c, m - 1)
        <5> HIDE DEF PurchaseOf
        <5> QED BY <2>7, <4>2
      <4> QED BY <4>1, <4>3
    <3>3. Sold(b[c], t) \in Book
      BY <2>1, <2>7, SoldType
    <3>4. Sold(b[c], t).lots = r.lots
      BY <2>7 DEF Sold, Settle, Book
    <3>5. Sound(Sold(b[c], t), c, m)
      <4> HIDE DEF PurchaseOf
      <4> QED BY <2>3, <2>8, <3>1, <3>2, <3>3, <3>4
    <3>6. Sound(a[m][c], c, m)
      BY <2>4, <2>10, <3>5
    <3> QED BY <2>4, <2>6, <3>6
  <2> QED BY <2>9, <2>10
<1>6. n \in P
  <2> PICK Q : Q = P
    OBVIOUS
  <2> HIDE DEF P
  <2>1. 0 \in Q /\ \A k \in 1..n : k - 1 \in Q => k \in Q
    BY <1>4, <1>5
  <2>2. \A k \in 0..n : k \in Q
    BY <2>1, Climbing
  <2> QED BY <2>2
<1>7. Fifo(R) \in [Keys -> Book] /\ \A k \in Keys : Sound(Fifo(R)[k], k, n)
  BY <1>3, <1>6
<1>8. \A k \in Keys : \A l : PurchaseOf(l, k, n) =>
        \E t \in R : t.id = l.id /\ KeyOf(t) = k /\ t.side = "BUY" /\ t.price = l.price
  BY <1>1
<1>9. \A k \in Keys : (\A t \in R : KeyOf(t) # k) => \A i \in 1..n : KeyOf(S[i]) # k
  BY <1>1
<1> HIDE DEF PurchaseOf
<1> QED BY <1>7, <1>8, <1>9

-----------------------------------------------------------------------------
(* The cash row *)

Cash == [seen : SUBSET Keys, balance : [Keys -> Int]]

(* What a row moves is an amount of cash.                                  *)
LEMMA CashFlowType ==
  ASSUME NEW t \in Transaction PROVE CashFlow(t) \in Int /\ Signed(t) * t.price \in Int
<1> PICK q \in Nat : q = t.qty
  BY DEF Transaction
<1> PICK x \in Nat : x = t.price
  BY DEF Transaction
<1> PICK f \in Nat : f = t.fee
  BY DEF Transaction
<1> PICK y \in Nat : y = q * x
  OBVIOUS
<1>1. CashFlow(t) = IF t.side = "BUY" THEN 0 - (y + f) ELSE y - f
  BY DEF CashFlow
<1>2. Signed(t) \in Int
  BY DEF Signed
<1> PICK s \in Int : s = Signed(t)
  BY <1>2
<1>3. s * x \in Int
  OBVIOUS
<1> QED BY <1>1, <1>3

(* The first cash row of a portfolio is there once one has been seen.      *)
LEMMA FirstCashType ==
  ASSUME NEW S \in Seq(Transaction), NEW p \in Pid,
         \E i \in DOMAIN S : S[i].pid = p /\ IsCash(S[i])
  PROVE  FirstCash(S, p) \in Asset
<1> DEFINE T == {i \in DOMAIN S : S[i].pid = p /\ IsCash(S[i])}
<1>1. T \in SUBSET Nat /\ T # {}
  OBVIOUS
<1>2. Min(T) \in T
  <2> HIDE DEF T
  <2> QED BY <1>1, MinIsIn
<1> PICK i : i = Min(T)
  OBVIOUS
<1>3. i \in DOMAIN S /\ S[i] \in Transaction
  BY <1>2
<1> QED BY <1>3 DEF FirstCash, Transaction

(* A row leaves well-typed balances.                                       *)
LEMMA CashMovedType ==
  ASSUME NEW S \in Seq(Transaction), NEW acc \in Cash, NEW t \in Transaction,
         (\E k \in acc.seen : k[1] = t.pid) => \E i \in DOMAIN S : S[i].pid = t.pid /\ IsCash(S[i])
  PROVE  CashMoved(acc, t, S) \in Cash
<1>1. acc.seen \in SUBSET Keys /\ acc.balance \in [Keys -> Int]
  BY DEF Cash
<1>2. KeyOf(t) \in Keys /\ t.pid \in Pid
  BY KeyOfType DEF Transaction
<1>3. CASE IsCash(t)
  <2> PICK k \in Keys : k = KeyOf(t)
    BY <1>2
  <2> PICK d \in Int : d = Signed(t) * t.price
    BY CashFlowType
  <2>1. CashMoved(acc, t, S) = [seen |-> acc.seen \cup {k}, balance |-> [acc.balance EXCEPT ![k] = @ + d]]
    BY <1>3 DEF CashMoved
  <2>2. [acc.balance EXCEPT ![k] = @ + d] \in [Keys -> Int]
    BY <1>1
  <2> QED BY <1>1, <2>1, <2>2 DEF Cash
<1>4. CASE ~IsCash(t) /\ (\E k \in acc.seen : k[1] = t.pid)
  <2>1. <<t.pid, FirstCash(S, t.pid)>> \in Keys
    BY <1>2, <1>4, FirstCashType DEF Keys
  <2> PICK k \in Keys : k = <<t.pid, FirstCash(S, t.pid)>>
    BY <2>1
  <2> PICK d \in Int : d = CashFlow(t)
    BY CashFlowType
  <2>2. CashMoved(acc, t, S) = [acc EXCEPT !.balance = [acc.balance EXCEPT ![k] = @ + d]]
    BY <1>4 DEF CashMoved, Cash
  <2>3. [acc.balance EXCEPT ![k] = @ + d] \in [Keys -> Int]
    BY <1>1
  <2> QED BY <1>1, <2>2, <2>3 DEF Cash
<1>5. CASE ~IsCash(t) /\ ~(\E k \in acc.seen : k[1] = t.pid)
  <2>1. CashMoved(acc, t, S) = acc
    BY <1>5 DEF CashMoved
  <2> QED BY <2>1
<1> QED BY <1>3, <1>4, <1>5

(* What the pass over a stream S may have seen.                            *)
CashUpTo(S) ==
  {acc \in Cash : \A k \in acc.seen : \E i \in DOMAIN S : KeyOf(S[i]) = k /\ IsCash(S[i])}

(* A row moves no balance but that of its own cash row.                    *)
LEMMA CashMovedStays ==
  ASSUME NEW S \in Seq(Transaction), NEW acc \in CashUpTo(S), NEW i \in DOMAIN S
  PROVE  CashMoved(acc, S[i], S) \in CashUpTo(S)
<1> PICK t \in Transaction : t = S[i]
  OBVIOUS
<1>1. acc \in Cash /\ \A k \in acc.seen : \E j \in DOMAIN S : KeyOf(S[j]) = k /\ IsCash(S[j])
  BY DEF CashUpTo
<1>2. (\E k \in acc.seen : k[1] = t.pid) => \E j \in DOMAIN S : S[j].pid = t.pid /\ IsCash(S[j])
  BY <1>1 DEF KeyOf
<1> PICK r : r = CashMoved(acc, t, S)
  OBVIOUS
<1>3. r \in Cash
  BY <1>1, <1>2, CashMovedType
<1>4. r.seen = IF IsCash(t) THEN acc.seen \cup {KeyOf(t)} ELSE acc.seen
  BY <1>1 DEF CashMoved, Cash
<1>5. \A k \in r.seen : \E j \in DOMAIN S : KeyOf(S[j]) = k /\ IsCash(S[j])
  BY <1>1, <1>4
<1> QED BY <1>3, <1>5 DEF CashUpTo

(* g is the function by which FoldLeft walks the stream.                   *)
Moving(g, S) ==
  g = [s \in SUBSET (DOMAIN S) |->
         IF s = {} THEN [seen |-> {}, balance |-> [k \in Keys |-> 0]]
                   ELSE CashMoved(g[s \ {Max(s)}], S[Max(s)], S)]

NoCash == [seen |-> {}, balance |-> [k \in Keys |-> 0]]

(* a[m] is what derive_cash_balances has after m rows.                     *)
CashWalk(a, R) ==
  /\ a[0] = NoCash
  /\ \A m \in 1..Cardinality(R) : a[m] = CashMoved(a[m - 1], Stream(R)[m], Stream(R))
  /\ \A m \in 0..Cardinality(R) : a[m] \in CashUpTo(Stream(R))
  /\ CashBalances(R) = [k \in a[Cardinality(R)].seen |-> a[Cardinality(R)].balance[k]]

(* derive_cash_balances goes through the rows one by one.                  *)
LEMMA CashSteps == ASSUME NEW R, Rows(R) PROVE \E a : CashWalk(a, R)
<1> PICK n \in Nat : n = Cardinality(R)
  BY StreamIsSorted
<1> PICK S : S = Stream(R)
  OBVIOUS
<1> PICK base : base = NoCash
  OBVIOUS
<1> PICK D : D = CashUpTo(S)
  OBVIOUS
<1>0. /\ DOMAIN S = 1..n /\ S \in Seq(Transaction)
      /\ \A k \in 1..n : S[k] \in R
  BY StreamIsSorted DEF Rows
<1> DEFINE step == [p \in D \X (1..n) |-> CashMoved(p[1], S[p[2]], S)]
<1>1. base \in D
  BY DEF CashUpTo, Cash, NoCash
<1>2. PICK g : Walks(g, step, base, n, D)
  <2>1. step \in [D \X (1..n) -> D]
    BY <1>0, CashMovedStays
  <2> HIDE DEF step
  <2> QED BY <1>1, <2>1, WalkExists
<1>3. \A s \in SUBSET (1..n) : g[s] = IF s = {} THEN base ELSE CashMoved(g[s \ {Max(s)}], S[Max(s)], S)
  <2> TAKE s \in SUBSET (1..n)
  <2>1. CASE s = {}
    BY <1>2, <2>1 DEF Walks
  <2>2. CASE s # {}
    <3>1. Max(s) \in 1..n /\ s \ {Max(s)} \in SUBSET (1..n)
      BY <2>2, MaxIsIn
    <3>2. g[s \ {Max(s)}] \in D
      BY <1>2, <3>1 DEF Walks
    <3>3. g[s] = step[<<g[s \ {Max(s)}], Max(s)>>]
      BY <1>2, <2>2 DEF Walks
    <3> QED BY <3>1, <3>2, <3>3, <2>2
  <2> QED BY <2>1, <2>2
<1>4. \E h : Moving(h, S)
  <2>1. g = [s \in SUBSET (1..n) |-> g[s]]
    BY <1>2 DEF Walks
  <2>2. g = [s \in SUBSET (1..n) |-> IF s = {} THEN base ELSE CashMoved(g[s \ {Max(s)}], S[Max(s)], S)]
    BY <1>3, <2>1
  <2>3. Moving(g, S)
    BY ONLY <1>0, <2>2, base = NoCash DEF Moving, NoCash
  <2> QED BY <2>3
<1> PICK h : h = CHOOSE f : Moving(f, S)
  OBVIOUS
<1>5. Moving(h, S)
  BY <1>4
<1> PICK end : end = h[DOMAIN S]
  OBVIOUS
<1>6. CashBalances(R) = [k \in end.seen |-> end.balance[k]]
  BY DEF CashBalances, FoldLeft, MapThenFoldSet, Moving
<1> DEFINE a == [k \in 0..n |-> h[1..k]]
<1>7. a[0] = base
  <2>1. 1..0 = {} /\ {} \in SUBSET (1..n)
    OBVIOUS
  <2>2. h[1..0] = base
    BY <1>0, <1>5, <2>1 DEF Moving, NoCash
  <2>3. a[0] = h[1..0]
    OBVIOUS
  <2> QED BY <2>2, <2>3
<1>8. ASSUME NEW k \in 1..n PROVE a[k] = CashMoved(a[k - 1], S[k], S)
  <2>1. 1..k \in SUBSET (1..n) /\ 1..k # {}
    <3>1. k \in 1..k /\ \A i \in 1..k : i \in 1..n
      OBVIOUS
    <3> QED BY <3>1
  <2>2. Max(1..k) = k /\ (1..k) \ {Max(1..k)} = 1..(k - 1)
    BY MaxOfPrefix
  <2>3. h[1..k] = CashMoved(h[1..(k - 1)], S[k], S)
    BY <1>0, <1>5, <2>1, <2>2 DEF Moving
  <2> QED BY <2>3
<1>9. a[n] = end
  BY <1>0
<1> HIDE DEF a
<1> DEFINE T == {k \in 0..n : a[k] \in D}
<1>10. \A k \in 0..n : k \in T
  <2>1. 0 \in T
    BY <1>1, <1>7
  <2>2. ASSUME NEW k \in 1..n, k - 1 \in T PROVE k \in T
    BY <1>0, <1>8, <2>2, CashMovedStays
  <2> PICK Q : Q = T
    OBVIOUS
  <2> HIDE DEF T
  <2>3. 0 \in Q /\ \A k \in 1..n : k - 1 \in Q => k \in Q
    BY <2>1, <2>2
  <2>4. \A k \in 0..n : k \in Q
    BY <2>3, Climbing
  <2> QED BY <2>4
<1>11. \A k \in 0..n : a[k] \in CashUpTo(S)
  BY <1>10
<1>12. CashBalances(R) = [k \in a[n].seen |-> a[n].balance[k]]
  BY <1>6, <1>9
<1>13. CashWalk(a, R)
  BY <1>7, <1>8, <1>11, <1>12 DEF CashWalk
<1> QED BY <1>13

(* Cash rows are those of keys with a cash row in the stream.              *)
LEMMA CashBalancesType ==
  ASSUME NEW R, Rows(R)
  PROVE  \E K \in SUBSET Keys :
           /\ CashBalances(R) \in [K -> Int]
           /\ \A k \in K : \E t \in R : KeyOf(t) = k /\ IsCash(t)
<1> PICK n \in Nat : n = Cardinality(R)
  BY StreamIsSorted
<1>1. PICK a : CashWalk(a, R)
  BY CashSteps
<1> PICK end : end = a[n]
  OBVIOUS
<1>2. end \in CashUpTo(Stream(R)) /\ CashBalances(R) = [k \in end.seen |-> end.balance[k]]
  BY <1>1 DEF CashWalk
<1>3. end.seen \in SUBSET Keys /\ end.balance \in [Keys -> Int]
  BY <1>2 DEF CashUpTo, Cash
<1>4. \A k \in end.seen : \E t \in R : KeyOf(t) = k /\ IsCash(t)
  <2>1. \A i \in DOMAIN Stream(R) : Stream(R)[i] \in R
    BY StreamIsSorted
  <2> QED BY <1>2, <2>1 DEF CashUpTo
<1>5. CashBalances(R) \in [end.seen -> Int]
  BY <1>2, <1>3
<1> QED BY <1>3, <1>4, <1>5

-----------------------------------------------------------------------------
(* The views a sync reads *)

(* What compute_lots lists.                                                *)
LEMMA LotsAre ==
  ASSUME NEW R, Rows(R), NEW m
  PROVE  m \in Lots(R) <=> \E k \in Keys : \E l \in ToSet(Fifo(R)[k].lots) : m = [key |-> k, lot |-> l]
<1> PICK books : books = Fifo(R)
  OBVIOUS
<1>1. Lots(R) = UNION {{[key |-> j, lot |-> l] : l \in ToSet(b[j].lots)} : j \in Keys, b \in {books}}
  BY DEF Lots
<1>2. m \in Lots(R) => \E j \in Keys : \E l \in ToSet(books[j].lots) : m = [key |-> j, lot |-> l]
  BY <1>1
<1>3. ASSUME NEW j \in Keys, NEW l \in ToSet(books[j].lots) PROVE [key |-> j, lot |-> l] \in Lots(R)
  <2> PICK s : s = {[key |-> j, lot |-> x] : x \in ToSet(books[j].lots)}
    OBVIOUS
  <2>1. s \subseteq Lots(R)
    BY <1>1
  <2> QED BY <2>1
<1> QED BY <1>2, <1>3

(* The open lots of a key, as the views select them.                       *)
Open(lots, k) == {l.lot : l \in {m \in lots : m.key = k}}

(* What _open_lots builds are the lots of the books of _fifo_state.        *)
LEMMA OpenIsBook ==
  ASSUME NEW R, Rows(R), NEW k \in Keys
  PROVE  /\ Open(Lots(R), k) = ToSet(Fifo(R)[k].lots)
         /\ Open(Lots(R), k) \in SUBSET Lot
         /\ IsFiniteSet(Open(Lots(R), k))
         /\ \A l \in Lots(R) : l.key \in Keys
<1>1. Fifo(R) \in [Keys -> Book]
  BY FifoKeeps
<1> PICK books : books = Fifo(R)
  OBVIOUS
<1> PICK lots : lots = Lots(R)
  OBVIOUS
<1>3. \A m : m \in lots <=> \E j \in Keys : \E l \in ToSet(books[j].lots) : m = [key |-> j, lot |-> l]
  BY LotsAre
<1>4. Open(lots, k) = ToSet(books[k].lots)
  <2>1. ASSUME NEW x \in Open(lots, k) PROVE x \in ToSet(books[k].lots)
    <3>1. PICK m \in lots : m.key = k /\ x = m.lot
      BY <2>1 DEF Open
    <3>2. PICK j \in Keys : \E l \in ToSet(books[j].lots) : m = [key |-> j, lot |-> l]
      BY <1>3
    <3> QED BY <3>1, <3>2
  <2>2. ASSUME NEW x \in ToSet(books[k].lots) PROVE x \in Open(lots, k)
    <3>1. [key |-> k, lot |-> x] \in lots
      BY <1>3
    <3> QED BY <3>1 DEF Open
  <2> QED BY <2>1, <2>2
<1>5. books[k].lots \in Seq(Lot)
  BY <1>1 DEF Book
<1>6. IsFiniteSet(ToSet(books[k].lots)) /\ ToSet(books[k].lots) \subseteq Lot
  BY <1>5, ElemsAreFinite
<1>7. \A l \in lots : l.key \in Keys
  BY <1>3
<1> QED BY <1>4, <1>6, <1>7

(* Some of the rows are rows.                                              *)
LEMMA RowsOfSubset ==
  ASSUME NEW R, Rows(R), NEW T \in SUBSET R PROVE Rows(T)
  BY FS_Subset DEF Rows

(* What _ledger_assets answers.                                            *)
LEMMA LedgerAssetsType ==
  ASSUME NEW R, Rows(R)
  PROVE  /\ LedgerAssets(R) \subseteq Holding
         /\ IsFiniteSet(LedgerAssets(R))
         /\ \A h \in LedgerAssets(R) : h.net = Fifo(R)[<<h.pid, h.asset>>].bought - Fifo(R)[<<h.pid, h.asset>>].sold
         /\ \A h \in LedgerAssets(R) : \E t \in R : KeyOf(t) = <<h.pid, h.asset>>
         /\ \A t \in R : \E h \in LedgerAssets(R) : KeyOf(t) = <<h.pid, h.asset>>
         /\ \A h \in LedgerAssets(R) : \A g \in LedgerAssets(R) :
              h.pid = g.pid /\ h.asset = g.asset => h = g
<1> PICK books : books = Fifo(R)
  OBVIOUS
<1>1. books \in [Keys -> Book]
  BY FifoKeeps
<1>2. \A t \in R : t \in Transaction
  BY DEF Rows
<1> DEFINE H(t) == [pid |-> t.pid, asset |-> t.asset, net |-> books[KeyOf(t)].bought - books[KeyOf(t)].sold]
<1>3. LedgerAssets(R) = {H(t) : t \in R}
  <2>1. LedgerAssets(R) = {[pid |-> k[1], asset |-> k[2], net |-> books[k].bought - books[k].sold] :
                             k \in {KeyOf(t) : t \in R}}
    BY DEF LedgerAssets
  <2>2. \A t \in R : KeyOf(t) = <<t.pid, t.asset>> /\ KeyOf(t)[1] = t.pid /\ KeyOf(t)[2] = t.asset
    BY DEF KeyOf
  <2> QED BY <2>1, <2>2
<1>4. \A t \in R : H(t) \in Holding
  <2> TAKE t \in R
  <2>1. t \in Transaction /\ KeyOf(t) \in Keys
    BY <1>2, KeyOfType
  <2>2. books[KeyOf(t)] \in Book
    BY <1>1, <2>1
  <2>3. books[KeyOf(t)].bought \in Nat /\ books[KeyOf(t)].sold \in Nat
    BY <2>2 DEF Book
  <2> QED BY <2>1, <2>3 DEF Transaction, Holding
<1>5. IsFiniteSet({H(t) : t \in R})
  <2> DEFINE f == [t \in R |-> H(t)]
  <2>1. f \in Surjection(R, {H(t) : t \in R})
    <3>1. f \in [R -> {H(t) : t \in R}] /\ \A x \in {H(t) : t \in R} : \E t \in R : f[t] = x
      OBVIOUS
    <3> HIDE DEF f, H
    <3> QED BY <3>1, Fun_IsSurj
  <2> HIDE DEF f, H
  <2> QED BY <2>1, FS_Surjection DEF Rows
<1>6. \A h \in LedgerAssets(R) : \E t \in R : h = H(t) /\ KeyOf(t) = <<h.pid, h.asset>>
  <2> TAKE h \in LedgerAssets(R)
  <2>1. PICK t \in R : h = H(t)
    <3> HIDE DEF H
    <3> QED BY <1>3
  <2>2. h.pid = t.pid /\ h.asset = t.asset
    BY <2>1
  <2> HIDE DEF H
  <2> QED BY <2>1, <2>2 DEF KeyOf
<1>7. \A t \in R : H(t) \in LedgerAssets(R) /\ KeyOf(t) = <<H(t).pid, H(t).asset>>
  BY <1>3 DEF KeyOf
<1>8. \A h \in LedgerAssets(R) : h.net = books[<<h.pid, h.asset>>].bought - books[<<h.pid, h.asset>>].sold
  <2> TAKE h \in LedgerAssets(R)
  <2>1. PICK t \in R : h = H(t) /\ KeyOf(t) = <<h.pid, h.asset>>
    BY <1>6
  <2>2. h.net = books[KeyOf(t)].bought - books[KeyOf(t)].sold
    BY <2>1
  <2> QED BY <2>1, <2>2
<1>9. \A h \in LedgerAssets(R) : h \in Holding
  <2> HIDE DEF H
  <2> QED BY <1>6, <1>4
<1>10. \A h \in LedgerAssets(R) : \A g \in LedgerAssets(R) : h.pid = g.pid /\ h.asset = g.asset => h = g
  <2> SUFFICES ASSUME NEW h \in LedgerAssets(R), NEW g \in LedgerAssets(R), h.pid = g.pid, h.asset = g.asset
               PROVE  h = g
    OBVIOUS
  <2>1. h.net = g.net
    BY <1>8
  <2>2. h \in Holding /\ g \in Holding
    BY <1>9
  <2> HIDE DEF H
  <2> QED BY <2>1, <2>2 DEF Holding
<1> HIDE DEF H
<1> QED BY <1>3, <1>5, <1>6, <1>7, <1>8, <1>9, <1>10

(* What compute_positions answers to the sync.                             *)
LEMMA AvgCostsType ==
  ASSUME NEW R, Rows(R) PROVE AvgCosts(R) \subseteq Costs
<1>1. PICK K \in SUBSET Keys : /\ CashBalances(R) \in [K -> Int]
                               /\ \A k \in K : \E t \in R : KeyOf(t) = k /\ IsCash(t)
  BY CashBalancesType
<1> PICK lots : lots = Lots(R)
  OBVIOUS
<1> PICK cash : cash = CashBalances(R)
  OBVIOUS
<1> PICK none : none = <<>>
  OBVIOUS
<1>2. Positions(R, none) = {CashRow(k, cash[k]) : k \in K}
        \cup {HeldRow(k, QtyOf(Open(lots, k)), CostOf(Open(lots, k)),
                IF k[2] \in DOMAIN none THEN QtyOf(Open(lots, k)) * none[k[2]] ELSE NoValue) :
                k \in {l.key : l \in lots} \ K}
  BY <1>1 DEF Positions, PositionsOf, Open
<1>3. ASSUME NEW p \in Positions(R, none)
      PROVE  /\ p.key \in Keys
             /\ p.key[2] \in CashAssets[p.key[1]] \/ (p.cost \in Int /\ p.qty \in Int)
  <2>1. CASE \E k \in K : p = CashRow(k, cash[k])
    <3>1. PICK k \in K : p = CashRow(k, cash[k])
      BY <2>1
    <3>2. p.key = k
      BY <3>1 DEF CashRow
    <3>3. p.cost = cash[k] /\ p.qty = cash[k] /\ cash[k] \in Int
      BY <1>1, <3>1 DEF CashRow
    <3> QED BY <3>2, <3>3
  <2>2. CASE \E k \in {l.key : l \in lots} : p.key = k /\ p.cost = CostOf(Open(lots, k)) /\ p.qty = QtyOf(Open(lots, k))
    <3>1. PICK l \in lots : /\ p.key = l.key /\ p.cost = CostOf(Open(lots, l.key))
                            /\ p.qty = QtyOf(Open(lots, l.key))
      BY <2>2
    <3> PICK k \in Keys : k = l.key
      <4>1. Lots(R) = lots
        OBVIOUS
      <4>2. \A j \in Keys : \A m \in Lots(R) : m.key \in Keys
        BY OpenIsBook
      <4>3. l.key \in Keys
        <5>1. PICK j \in Keys : TRUE
          <6>1. \E m : m \in lots
            OBVIOUS
          <6>2. \E j \in Keys : \E m \in ToSet(Fifo(R)[j].lots) : l = [key |-> j, lot |-> m]
            BY DEF Lots
          <6> QED BY <6>2
        <5> QED BY <4>2, <5>1
      <4> QED BY <4>3
    <3>2. Open(lots, k) \in SUBSET Lot /\ IsFiniteSet(Open(lots, k))
      BY OpenIsBook
    <3>3. QtyOf(Open(lots, k)) \in Nat /\ CostOf(Open(lots, k)) \in Nat
      BY <3>2, SumsOfLots
    <3> QED BY <3>1, <3>3
  <2> QED BY <1>2, <1>3, <2>1, <2>2 DEF HeldRow
<1>4. \A k \in Keys : k[1] \in Pid /\ k[2] \in Asset
  BY DEF Keys
<1>5. ASSUME NEW p \in Positions(R, none)
      PROVE  [pid |-> p.key[1], asset |-> p.key[2],
              avg |-> IF p.key[2] \in CashAssets[p.key[1]]
                        THEN [cost |-> 1, qty |-> 1] ELSE [cost |-> p.cost, qty |-> p.qty]] \in Costs
  BY <1>3, <1>4 DEF Costs, Price
<1> QED BY <1>5 DEF AvgCosts

-----------------------------------------------------------------------------
(* The types of the ledger *)

(* Portfolio ids are positive numbers, finitely many.                      *)
LEMMA PidIsNat == Pid \subseteq Nat \ {0} /\ Cardinality(Pid) \in Nat
<1>1. Cardinality(Pid) \in Nat
  BY PidAssumption, FS_CardinalityType
<1> QED BY <1>1, PidAssumption

(* The table holds rows, and so does every portfolio.                      *)
LEMMA TypeRows == ASSUME TypeOK, NEW P PROVE Rows(txs) /\ Rows(RowsOf(P))
<1>1. Rows(txs)
  BY DEF TypeOK, Rows
<1> QED BY <1>1, RowsOfSubset DEF RowsOf

(* A row is inserted under the next id.                                    *)
LEMMA InsertType ==
  ASSUME TypeOK, NEW e \in Entries, txs' = txs \cup {Row(e, nextId)}, nextId' = nextId + 1,
         portfolios' = portfolios, nextPid' = nextPid, decided' \subseteq Pid
  PROVE  TypeOK'
<1> PICK r : r = Row(e, nextId)
  OBVIOUS
<1>1. r \in Transaction /\ r.id = nextId
  BY EntryAssumption DEF TypeOK, Row, Booking, Transaction
<1>2. IsFiniteSet(txs \cup {r})
  BY FS_AddElement DEF TypeOK
<1>3. nextId \in Nat \ {0} /\ nextId' \in Nat \ {0} /\ \A t \in txs : t \in Transaction /\ t.id \in Nat /\ t.id < nextId /\ t.id # nextId
  BY DEF TypeOK, Transaction
<1>4. \A t \in txs' : t.id < nextId' /\ \A u \in txs' : u.id = t.id => u = t
  BY <1>1, <1>3 DEF TypeOK
<1>5. txs' \subseteq Transaction /\ IsFiniteSet(txs')
  BY <1>1, <1>2 DEF TypeOK
<1> QED BY <1>3, <1>4, <1>5 DEF TypeOK

(* Rows and portfolios that go leave a typed ledger.                       *)
LEMMA RemoveType ==
  ASSUME TypeOK, txs' \subseteq txs, nextId' = nextId, portfolios' \subseteq Pid,
         nextPid' = nextPid, decided' = decided
  PROVE  TypeOK'
<1>1. IsFiniteSet(txs')
  BY FS_Subset DEF TypeOK
<1> QED BY <1>1 DEF TypeOK

(* Every operation of the ledger keeps the types.                          *)
LEMMA TypeStep == TypeOK /\ [Next]_vars => TypeOK'
<1> SUFFICES ASSUME TypeOK, [Next]_vars PROVE TypeOK'
  OBVIOUS
<1>1. CASE CmdPortfolioCreate
  <2>1. nextPid \in Nat \ {0} /\ nextPid' \in Nat \ {0}
    BY <1>1 DEF TypeOK, CmdPortfolioCreate
  <2> QED BY <1>1, <2>1 DEF TypeOK, CmdPortfolioCreate
<1>2. ASSUME NEW e \in Entries, AddTransaction(e) PROVE TypeOK'
  BY <1>2, InsertType DEF AddTransaction, TypeOK
<1>3. ASSUME NEW e \in Entries, AddTransactionWithDecision(e) PROVE TypeOK'
  BY <1>3, InsertType DEF AddTransactionWithDecision, TypeOK, Resolved
<1>4. ASSUME NEW t \in txs, RemoveTransaction(t) PROVE TypeOK'
  BY <1>4, RemoveType DEF RemoveTransaction, TypeOK
<1>5. ASSUME NEW p \in Pid, DeletePortfolio(p) PROVE TypeOK'
  BY <1>5, RemoveType DEF DeletePortfolio, TypeOK
<1>6. CASE UNCHANGED vars
  BY <1>6 DEF vars, TypeOK
<1> QED BY <1>1, <1>2, <1>3, <1>4, <1>5, <1>6 DEF Next

(* The ledger stays typed: finitely many rows, all with ids handed out     *)
(* before.                                                                 *)
THEOREM TypeCorrect == Spec => []TypeOK
<1>1. Init => TypeOK
  BY FS_EmptySet DEF Init, TypeOK
<1> QED BY <1>1, TypeStep, PTL DEF Spec

-----------------------------------------------------------------------------

(* A sync starts on a typed ledger and a typed file.                       *)
LEMMA SyncInitType == SyncInit => TypeOK /\ file \in Seq(Watch)
<1> SUFFICES ASSUME SyncInit PROVE TypeOK /\ file \in Seq(Watch)
  OBVIOUS
<1>1. PICK first \in First : txs = first.rows /\ file = first.file
  BY DEF SyncInit
<1>2. /\ file \in Seq(Watch) /\ txs \subseteq Transaction /\ IsFiniteSet(txs)
      /\ {t.id : t \in txs} = 1..Cardinality(txs)
  BY <1>1, FirstAssumption
<1> PICK n \in Nat : n = Cardinality(txs)
  BY <1>2, FS_CardinalityType
<1> DEFINE f == [t \in txs |-> t.id]
<1>3. f \in Surjection(txs, 1..n)
  <2>1. f \in [txs -> 1..n] /\ \A i \in 1..n : \E t \in txs : f[t] = i
    BY <1>2
  <2> HIDE DEF f
  <2> QED BY <2>1, Fun_IsSurj
<1>4. f \in Injection(txs, 1..n)
  <2>1. Cardinality(1..n) = n
    BY FS_Interval
  <2> HIDE DEF f
  <2> QED BY <1>2, <1>3, <2>1, FS_Surjection
<1>5. \A t \in txs : \A u \in txs : f[t] = f[u] => t = u
  <2> HIDE DEF f
  <2> QED BY <1>4 DEF Injection, IsInjective
<1>6. nextId = n + 1 /\ \A t \in txs : t.id \in 1..n
  BY <1>2 DEF SyncInit
<1>7. nextPid \in Nat \ {0} /\ portfolios \subseteq Pid /\ decided \subseteq Pid
  BY PidIsNat DEF SyncInit
<1>8. \A t \in txs : t.id < nextId /\ \A u \in txs : u.id = t.id => u = t
  BY <1>5, <1>6
<1> QED BY <1>2, <1>6, <1>7, <1>8 DEF TypeOK

-----------------------------------------------------------------------------
(* The plan of a sync *)

(* The entries of a set are the value of one key.                          *)
LEMMA MatchIs ==
  ASSUME NEW w, NEW H \in SUBSET Holding, IsFiniteSet(H),
         FindLedgerMatch(w, H).status = "matched"
  PROVE  LET e == FindLedgerMatch(w, H).entry IN
         /\ e \in H
         /\ ClaimedKeys(w, H) = {e.asset}
         /\ \/ e.net > 0
            \/ \A h \in H : h.asset = e.asset => h = e
<1> DEFINE exact == {w.monitor} \cap KeysOf(H)
           alike == {a \in KeysOf(H) : Ticker[a] = Ticker[w.monitor] /\ Ticker[a] # NoTicker}
           keys == IF exact # {} THEN exact ELSE alike
           entries == {h \in H : h.asset \in keys}
           holders == {h \in entries : h.net > 0}
           m == FindLedgerMatch(w, H)
<1>1. m = CASE keys = {} -> [status |-> "unmatched"]
       [] Cardinality(keys) > 1 \/ Cardinality(holders) > 1 -> [status |-> "ambiguous"]
       [] Cardinality(keys) = 1 /\ Cardinality(holders) = 1 ->
            [status |-> "matched", entry |-> CHOOSE h \in holders : TRUE]
       [] Cardinality(keys) = 1 /\ holders = {} /\ Cardinality(entries) = 1 ->
            [status |-> "matched", entry |-> CHOOSE h \in entries : TRUE]
       [] OTHER -> [status |-> "ambiguous"]
  BY DEF FindLedgerMatch
<1>2. IsFiniteSet(entries) /\ IsFiniteSet(holders)
  BY FS_Subset
<1>3. IsFiniteSet(keys)
  <2>1. IsFiniteSet(KeysOf(H))
    <3> DEFINE f == [h \in H |-> h.asset]
    <3>1. f \in Surjection(H, KeysOf(H))
      <4>1. f \in [H -> KeysOf(H)] /\ \A a \in KeysOf(H) : \E h \in H : f[h] = a
        BY DEF KeysOf
      <4> HIDE DEF f
      <4> QED BY <4>1, Fun_IsSurj
    <3> HIDE DEF f
    <3> QED BY <3>1, FS_Surjection
  <2>2. keys \subseteq KeysOf(H)
    OBVIOUS
  <2> HIDE DEF keys
  <2> QED BY <2>1, <2>2, FS_Subset
<1>4. keys # {} => ClaimedKeys(w, H) = keys
  BY DEF ClaimedKeys
<1>5. m.status = "matched"
  OBVIOUS
<1> HIDE DEF m, keys
<1>6. CASE keys # {} /\ Cardinality(keys) = 1 /\ Cardinality(holders) = 1 /\ m = [status |-> "matched", entry |-> CHOOSE h \in holders : TRUE]
  <2>1. PICK k : keys = {k}
    BY <1>3, <1>6, FS_Singleton
  <2>2. PICK h : holders = {h}
    BY <1>2, <1>6, FS_Singleton
  <2>3. m.entry = h
    BY <1>6, <2>2
  <2>4. h \in H /\ h.asset = k /\ h.net > 0
    BY <2>1, <2>2
  <2> QED BY <1>4, <2>1, <2>3, <2>4 DEF m
<1>7. CASE keys # {} /\ Cardinality(keys) = 1 /\ holders = {} /\ Cardinality(entries) = 1 /\ m = [status |-> "matched", entry |-> CHOOSE h \in entries : TRUE]
  <2>1. PICK k : keys = {k}
    BY <1>3, <1>7, FS_Singleton
  <2>2. PICK h : entries = {h}
    BY <1>2, <1>7, FS_Singleton
  <2>3. m.entry = h
    BY <1>7, <2>2
  <2>4. h \in H /\ h.asset = k /\ \A g \in H : g.asset = k => g = h
    BY <2>1, <2>2
  <2> QED BY <1>4, <2>1, <2>3, <2>4 DEF m
<1> HIDE DEF holders, entries
<1> DEFINE big == Cardinality(keys) > 1 \/ Cardinality(holders) > 1
           one == Cardinality(keys) = 1 /\ Cardinality(holders) = 1
           sole == Cardinality(keys) = 1 /\ holders = {} /\ Cardinality(entries) = 1
<1>8. [status |-> "unmatched"].status # "matched" /\ [status |-> "ambiguous"].status # "matched"
  OBVIOUS
<1>9. one => ~big
  OBVIOUS
<1>10. sole => ~big /\ ~one
  <2>1. holders = {} => Cardinality(holders) = 0
    BY FS_EmptySet
  <2> QED BY <2>1
<1>11. CASE keys = {}
  <2>1. Cardinality(keys) = 0
    BY <1>11, FS_EmptySet
  <2>2. m = [status |-> "unmatched"] \/ m = [status |-> "ambiguous"]
    BY <1>1, <1>11, <2>1
  <2> QED BY <1>5, <1>8, <2>2
<1>12. CASE keys # {} /\ one
  <2>1. m = [status |-> "matched", entry |-> CHOOSE h \in holders : TRUE]
    BY <1>1, <1>9, <1>10, <1>12
  <2> QED BY <1>6, <1>12, <2>1
<1>13. CASE keys # {} /\ sole
  <2>1. m = [status |-> "matched", entry |-> CHOOSE h \in entries : TRUE]
    BY <1>1, <1>9, <1>10, <1>13
  <2> QED BY <1>7, <1>13, <2>1
<1>14. CASE keys # {} /\ ~one /\ ~sole
  <2>1. m = [status |-> "ambiguous"]
    BY <1>1, <1>14
  <2> QED BY <1>5, <1>8, <2>1
<1> QED BY <1>11, <1>12, <1>13, <1>14

(* What becomes of a watch.                                                *)
LEMMA StateCases ==
  ASSUME NEW w, NEW H, NEW C
  PROVE  LET m == FindLedgerMatch(w, H) IN
         \/ /\ ElementState(w, H, C) = <<w>>
            /\ ~w.enabled \/ m.status # "matched" \/ m.entry.net < 0
         \/ /\ ElementState(w, H, C) = <<>>
            /\ w.enabled /\ m.status = "matched" /\ m.entry.net = 0
         \/ /\ ElementState(w, H, C) = <<Corrected(w, m.entry, C)>>
            /\ w.enabled /\ m.status = "matched" /\ ~(m.entry.net < 0) /\ m.entry.net # 0
<1> PICK m : m = FindLedgerMatch(w, H)
  OBVIOUS
<1>1. ElementState(w, H, C) =
        CASE ~w.enabled \/ m.status # "matched" -> <<w>>
          [] w.enabled /\ m.status = "matched" /\ m.entry.net < 0 -> <<w>>
          [] w.enabled /\ m.status = "matched" /\ m.entry.net = 0 -> <<>>
          [] OTHER -> <<Corrected(w, m.entry, C)>>
  BY DEF ElementState
<1>2. CASE ~w.enabled \/ m.status # "matched"
  BY <1>1, <1>2
<1>3. CASE w.enabled /\ m.status = "matched" /\ m.entry.net < 0
  BY <1>1, <1>3
<1>4. CASE w.enabled /\ m.status = "matched" /\ ~(m.entry.net < 0) /\ m.entry.net = 0
  BY <1>1, <1>4
<1>5. CASE w.enabled /\ m.status = "matched" /\ ~(m.entry.net < 0) /\ m.entry.net # 0
  BY <1>1, <1>5
<1> QED BY <1>2, <1>3, <1>4, <1>5

(* A corrected entry is an entry with the size of the holding.             *)
LEMMA CorrectedType ==
  ASSUME NEW w \in Watch, NEW h \in Holding, NEW C \in SUBSET Costs
  PROVE  LET x == Corrected(w, h, C) IN
         /\ x \in Watch
         /\ x.monitor = w.monitor /\ x.enabled = w.enabled /\ x.size = h.net
         /\ AvgCost(h, C) # {} => x.price # Null
<1>1. AvgCost(h, C) \subseteq Price
  BY DEF AvgCost, Costs
<1> PICK A : A = AvgCost(h, C)
  OBVIOUS
<1> PICK y : y = IF w.price = Null /\ A # {} THEN CHOOSE c \in A : TRUE ELSE w.price
  OBVIOUS
<1>2. y \in Price \cup {Null} /\ (A # {} => y # Null)
  <2>1. CASE w.price = Null /\ A # {}
    <3>1. (CHOOSE c \in A : TRUE) \in A
      BY <2>1
    <3> QED BY <1>1, <2>1, <3>1, SyncAssumption
  <2>2. CASE ~(w.price = Null /\ A # {})
    BY <2>2 DEF Watch
  <2> QED BY <2>1, <2>2
<1>3. Corrected(w, h, C) = [w EXCEPT !.size = h.net, !.price = y]
  BY DEF Corrected
<1>4. h.net \in Int
  BY DEF Holding
<1> QED BY <1>2, <1>3, <1>4 DEF Watch

(* What becomes of an entry is no entry or one.                            *)
LEMMA StateType ==
  ASSUME NEW w \in Watch, NEW H \in SUBSET Holding, IsFiniteSet(H), NEW C \in SUBSET Costs
  PROVE  ElementState(w, H, C) \in Seq(Watch)
<1> PICK m : m = FindLedgerMatch(w, H)
  OBVIOUS
<1>1. CASE ElementState(w, H, C) = <<w>>
  BY <1>1
<1>2. CASE ElementState(w, H, C) = <<>>
  BY <1>2
<1>3. CASE ElementState(w, H, C) = <<Corrected(w, m.entry, C)>> /\ m.status = "matched"
  <2>1. m.entry \in Holding
    BY <1>3, MatchIs
  <2>2. Corrected(w, m.entry, C) \in Watch
    BY <2>1, CorrectedType
  <2> QED BY <1>3, <2>2
<1> QED BY <1>1, <1>2, <1>3, StateCases

(* The plan: the elements that its watches become.                         *)
LEMMA PlanElems ==
  ASSUME NEW f \in Seq(Watch), NEW H \in SUBSET Holding, IsFiniteSet(H), NEW C \in SUBSET Costs
  PROVE  /\ Plan(f, H, C) \in Seq(Watch)
         /\ ToSet(Plan(f, H, C)) = UNION {ToSet(ElementState(f[i], H, C)) : i \in DOMAIN f}
<1> PICK n \in Nat : n = Len(f)
  OBVIOUS
<1> DEFINE g == [i \in DOMAIN f |-> ElementState(f[i], H, C)]
<1>1. g \in Seq(Seq(Watch)) /\ Len(g) = n /\ DOMAIN f = 1..n
  <2>1. \A i \in 1..n : ElementState(f[i], H, C) \in Seq(Watch)
    BY StateType
  <2>2. g = [i \in 1..n |-> ElementState(f[i], H, C)]
    OBVIOUS
  <2>3. g \in [1..n -> Seq(Watch)]
    BY <2>1, <2>2
  <2>4. g \in Seq(Seq(Watch))
    <3> HIDE DEF g
    <3> QED BY <2>3
  <2> QED BY <2>2, <2>4
<1>2. Plan(f, H, C) = FlattenSeq(g)
  BY DEF Plan
<1>3. \A i \in 1..n : g[i] = ElementState(f[i], H, C)
  OBVIOUS
<1> HIDE DEF g
<1>4. /\ FlattenSeq(g) \in Seq(Watch)
      /\ ToSet(FlattenSeq(g)) = UNION {ToSet(g[i]) : i \in 1..n}
  BY <1>1, FlattenElems
<1>5. {ToSet(g[i]) : i \in 1..n} = {ToSet(ElementState(f[i], H, C)) : i \in 1..n}
  BY <1>3
<1> QED BY <1>1, <1>2, <1>4, <1>5

-----------------------------------------------------------------------------
(* A sync *)

(* What a sync has read is what it would read now, until somebody else      *)
(* changes the ledger or the file.                                         *)
ReadInv ==
  \A s \in Sync : clean[s] =>
    /\ pc[s] # "idle"
    /\ text[s] = file
    /\ pc[s] \in {"positions", "plan"} => assets[s] = LedgerAssets(RowsOf(scope[s]))
    /\ pc[s] = "plan" => costs[s] = AvgCosts(RowsOf(scope[s]))

SyncInv == SyncTypeOK /\ ReadInv

PcSet == {"idle", "assets", "positions", "plan"}

(* The invariant of the sync holds at the start.                           *)
LEMMA SyncInitInv == SyncInit => SyncInv
<1> SUFFICES ASSUME SyncInit PROVE SyncInv
  OBVIOUS
<1>1. TypeOK /\ file \in Seq(Watch)
  BY SyncInitType
<1>2. SyncTypeOK
  BY <1>1, FS_EmptySet DEF SyncInit, SyncTypeOK
<1>3. ReadInv
  BY DEF SyncInit, ReadInv
<1> QED BY <1>2, <1>3 DEF SyncInv

(* A step that does not touch the ledger keeps its types and rows.         *)
LEMMA TypeKept == ASSUME TypeOK, UNCHANGED vars PROVE TypeOK' /\ \A P : RowsOf(P)' = RowsOf(P)
  BY DEF vars, TypeOK, RowsOf

(* Steps of a sync.                                                        *)
LEMMA ReadConfigInv ==
  ASSUME SyncInv, NEW s \in Sync, ReadConfig(s) PROVE SyncInv'
<1>1. TypeOK' /\ txs' = txs
  BY TypeKept DEF ReadConfig, SyncInv, SyncTypeOK, vars
<1>2. PICK P \in Scopes : scope' = [scope EXCEPT ![s] = P]
  BY DEF ReadConfig
<1>3. P \in SUBSET Pid
  BY SyncAssumption
<1>4. SyncTypeOK'
  BY <1>1, <1>2, <1>3 DEF SyncInv, SyncTypeOK, ReadConfig
<1>5. ASSUME NEW r \in Sync, clean'[r]
      PROVE  /\ pc'[r] # "idle"
             /\ text'[r] = file'
             /\ pc'[r] \in {"positions", "plan"} => assets'[r] = LedgerAssets(RowsOf(scope[r])')
             /\ pc'[r] = "plan" => costs'[r] = AvgCosts(RowsOf(scope[r])')
  <2>1. CASE r = s
    BY <2>1 DEF ReadConfig, SyncInv, SyncTypeOK
  <2>2. CASE r # s
    <3>1. clean[r] /\ pc'[r] = pc[r] /\ text'[r] = text[r] /\ file' = file /\ assets'[r] = assets[r]
          /\ costs'[r] = costs[r] /\ scope'[r] = scope[r]
      BY <1>2, <1>5, <2>2 DEF ReadConfig, SyncInv, SyncTypeOK
    <3>2. RowsOf(scope[r])' = RowsOf(scope[r])
      BY <1>1, <3>1 DEF RowsOf
    <3> QED BY <3>1, <3>2 DEF SyncInv, ReadInv
  <2> QED BY <2>1, <2>2
<1>6. ReadInv'
  BY <1>5 DEF ReadInv
<1> QED BY <1>4, <1>6 DEF SyncInv

(* The second read keeps the invariant.                                    *)
LEMMA ReadAssetsInv ==
  ASSUME SyncInv, NEW s \in Sync, ReadLedgerAssets(s) PROVE SyncInv'
<1>1. TypeOK' /\ txs' = txs
  BY TypeKept DEF ReadLedgerAssets, SyncInv, SyncTypeOK, vars
<1>2. Rows(RowsOf(scope[s]))
  BY TypeRows DEF SyncInv, SyncTypeOK
<1>3. LedgerAssets(RowsOf(scope[s])) \subseteq Holding /\ IsFiniteSet(LedgerAssets(RowsOf(scope[s])))
  BY <1>2, LedgerAssetsType
<1>4. SyncTypeOK'
  BY <1>1, <1>3 DEF SyncInv, SyncTypeOK, ReadLedgerAssets
<1>5. ASSUME NEW r \in Sync, clean'[r]
      PROVE  /\ pc'[r] # "idle"
             /\ text'[r] = file'
             /\ pc'[r] \in {"positions", "plan"} => assets'[r] = LedgerAssets(RowsOf(scope[r])')
             /\ pc'[r] = "plan" => costs'[r] = AvgCosts(RowsOf(scope[r])')
  <2>0. RowsOf(scope[r])' = RowsOf(scope[r]) /\ clean[r] /\ text'[r] = text[r] /\ file' = file /\ costs'[r] = costs[r]
    BY <1>1, <1>5 DEF RowsOf, ReadLedgerAssets
  <2>1. CASE r = s
    BY <2>0, <2>1 DEF ReadLedgerAssets, SyncInv, SyncTypeOK, ReadInv
  <2>2. CASE r # s
    <3>1. pc'[r] = pc[r] /\ assets'[r] = assets[r]
      BY <2>2 DEF ReadLedgerAssets, SyncInv, SyncTypeOK
    <3> QED BY <2>0, <3>1 DEF SyncInv, ReadInv
  <2> QED BY <2>1, <2>2
<1>6. ReadInv'
  BY <1>5 DEF ReadInv
<1> QED BY <1>4, <1>6 DEF SyncInv

(* The third read keeps the invariant.                                     *)
LEMMA ReadPositionsInv ==
  ASSUME SyncInv, NEW s \in Sync, ReadPositions(s) PROVE SyncInv'
<1>1. TypeOK' /\ txs' = txs
  BY TypeKept DEF ReadPositions, SyncInv, SyncTypeOK, vars
<1>2. Rows(RowsOf(scope[s]))
  BY TypeRows DEF SyncInv, SyncTypeOK
<1>3. AvgCosts(RowsOf(scope[s])) \subseteq Costs
  BY <1>2, AvgCostsType
<1>4. SyncTypeOK'
  BY <1>1, <1>3 DEF SyncInv, SyncTypeOK, ReadPositions
<1>5. ASSUME NEW r \in Sync, clean'[r]
      PROVE  /\ pc'[r] # "idle"
             /\ text'[r] = file'
             /\ pc'[r] \in {"positions", "plan"} => assets'[r] = LedgerAssets(RowsOf(scope[r])')
             /\ pc'[r] = "plan" => costs'[r] = AvgCosts(RowsOf(scope[r])')
  <2>0. RowsOf(scope[r])' = RowsOf(scope[r]) /\ clean[r] /\ text'[r] = text[r] /\ file' = file /\ assets'[r] = assets[r]
    BY <1>1, <1>5 DEF RowsOf, ReadPositions
  <2>1. CASE r = s
    BY <2>0, <2>1 DEF ReadPositions, SyncInv, SyncTypeOK, ReadInv
  <2>2. CASE r # s
    <3>1. pc'[r] = pc[r] /\ costs'[r] = costs[r]
      BY <2>2 DEF ReadPositions, SyncInv, SyncTypeOK
    <3> QED BY <2>0, <3>1 DEF SyncInv, ReadInv
  <2> QED BY <2>1, <2>2
<1>6. ReadInv'
  BY <1>5 DEF ReadInv
<1> QED BY <1>4, <1>6 DEF SyncInv

(* A sync somebody came into claims nothing.                               *)
LEMMA DisturbedInv == ASSUME SyncTypeOK', clean' = [s \in Sync |-> FALSE] PROVE SyncInv'
  BY DEF SyncInv, ReadInv

(* A plan is a list of entries.                                            *)
LEMMA PlannedType ==
  ASSUME SyncInv, NEW s \in Sync PROVE Planned(s) \in Seq(Watch)
<1>1. text[s] \in Seq(Watch) /\ assets[s] \in SUBSET Holding /\ IsFiniteSet(assets[s]) /\ costs[s] \in SUBSET Costs
  BY DEF SyncInv, SyncTypeOK
<1> QED BY <1>1, PlanElems DEF Planned

(* The end of a sync.                                                      *)
LEMMA ForgetType ==
  ASSUME SyncInv, NEW s \in Sync, Forget(s), UNCHANGED vars, UNCHANGED edits,
         file' \in Seq(Watch), clean' \in [Sync -> BOOLEAN]
  PROVE  SyncTypeOK'
<1>1. TypeOK'
  BY TypeKept DEF SyncInv, SyncTypeOK
<1>2. <<>> \in Seq(Watch) /\ IsFiniteSet({})
  BY FS_EmptySet
<1>3. /\ pc' \in [Sync -> PcSet] /\ scope' \in [Sync -> SUBSET Pid]
      /\ text' \in [Sync -> Seq(Watch)] /\ costs' \in [Sync -> SUBSET Costs]
  BY <1>2 DEF SyncInv, SyncTypeOK, Forget, PcSet
<1>4. assets' \in [Sync -> SUBSET Holding] /\ \A r \in Sync : IsFiniteSet(assets'[r])
  BY <1>2 DEF SyncInv, SyncTypeOK, Forget
<1>5. edits' \in Nat
  BY DEF SyncInv, SyncTypeOK
<1> QED BY <1>1, <1>3, <1>4, <1>5 DEF SyncTypeOK, PcSet

(* The rename keeps the invariant.                                         *)
LEMMA ReplaceFileInv ==
  ASSUME SyncInv, NEW s \in Sync, ReplaceFile(s) PROVE SyncInv'
<1>1. file' \in Seq(Watch) /\ clean' = [r \in Sync |-> FALSE]
  BY PlannedType DEF ReplaceFile, Disturb
<1>2. SyncTypeOK'
  BY <1>1, ForgetType DEF ReplaceFile
<1> QED BY <1>1, <1>2, DisturbedInv

(* A sync that ends without writing keeps the invariant.                   *)
LEMMA EndInv ==
  ASSUME SyncInv, NEW s \in Sync, Forget(s), clean' = [clean EXCEPT ![s] = FALSE],
         UNCHANGED <<vars, file, edits>>
  PROVE  SyncInv'
<1>1. SyncTypeOK'
  BY ForgetType DEF SyncInv, SyncTypeOK
<1>2. ASSUME NEW r \in Sync, clean'[r]
      PROVE  /\ pc'[r] # "idle"
             /\ text'[r] = file'
             /\ pc'[r] \in {"positions", "plan"} => assets'[r] = LedgerAssets(RowsOf(scope[r])')
             /\ pc'[r] = "plan" => costs'[r] = AvgCosts(RowsOf(scope[r])')
  <2>1. r # s /\ clean[r] /\ txs' = txs /\ file' = file
    BY <1>2 DEF SyncInv, SyncTypeOK, vars
  <2>2. /\ pc'[r] = pc[r] /\ text'[r] = text[r] /\ assets'[r] = assets[r]
        /\ costs'[r] = costs[r] /\ scope'[r] = scope[r]
    BY <2>1 DEF SyncInv, SyncTypeOK, Forget
  <2>3. RowsOf(scope[r])' = RowsOf(scope[r])
    BY <2>1, <2>2 DEF RowsOf
  <2> QED BY <2>1, <2>2, <2>3 DEF SyncInv, ReadInv
<1>3. ReadInv'
  BY <1>2 DEF ReadInv
<1> QED BY <1>1, <1>3 DEF SyncInv

(* Everybody else.                                                         *)
LEMMA FillInv ==
  ASSUME SyncInv, NEW e \in Entries, Fill(e) PROVE SyncInv'
<1>1. TypeOK'
  <2>1. TypeOK /\ [Next]_vars
    BY DEF Fill, Next, SyncInv, SyncTypeOK
  <2> QED BY <2>1, TypeStep
<1>2. SyncTypeOK' /\ clean' = [s \in Sync |-> FALSE]
  BY <1>1 DEF Fill, SyncInv, SyncTypeOK, syncVars, Disturb
<1> QED BY <1>2, DisturbedInv

(* A row removed under a sync keeps the invariant.                         *)
LEMMA RemovalInv ==
  ASSUME SyncInv, NEW t \in txs, Removal(t) PROVE SyncInv'
<1>1. TypeOK'
  <2>1. TypeOK /\ [Next]_vars
    BY DEF Removal, Next, SyncInv, SyncTypeOK
  <2> QED BY <2>1, TypeStep
<1>2. SyncTypeOK' /\ clean' = [s \in Sync |-> FALSE]
  BY <1>1 DEF Removal, SyncInv, SyncTypeOK, syncVars, Disturb
<1> QED BY <1>2, DisturbedInv

(* A hand edit of the file keeps the invariant.                            *)
LEMMA EditInv ==
  ASSUME SyncInv, NEW i \in DOMAIN file, Edit(i) PROVE SyncInv'
<1>1. TypeOK'
  BY TypeKept DEF Edit, SyncInv, SyncTypeOK
<1> PICK w \in Watch : w = file[i]
  BY DEF SyncInv, SyncTypeOK
<1>2. PICK x \in Watch : file' = [file EXCEPT ![i] = x]
  <2>1. ASSUME NEW b \in BOOLEAN, file' = [file EXCEPT ![i].enabled = b]
        PROVE  \E x \in Watch : file' = [file EXCEPT ![i] = x]
    <3>1. [w EXCEPT !.enabled = b] \in Watch
      BY DEF Watch
    <3>2. file' = [file EXCEPT ![i] = [w EXCEPT !.enabled = b]]
      BY <2>1
    <3> QED BY <3>1, <3>2
  <2>2. ASSUME NEW p \in HandPrice, file' = [file EXCEPT ![i].price = p]
        PROVE  \E x \in Watch : file' = [file EXCEPT ![i] = x]
    <3>1. [w EXCEPT !.price = p] \in Watch
      BY SyncAssumption DEF Watch
    <3>2. file' = [file EXCEPT ![i] = [w EXCEPT !.price = p]]
      BY <2>2
    <3> QED BY <3>1, <3>2
  <2> QED BY <2>1, <2>2 DEF Edit
<1>3. file' \in Seq(Watch)
  BY <1>2 DEF SyncInv, SyncTypeOK
<1>4. edits \in Nat /\ edits' = edits + 1
  BY DEF SyncInv, SyncTypeOK, Edit
<1>5. SyncTypeOK' /\ clean' = [s \in Sync |-> FALSE]
  BY <1>1, <1>3, <1>4 DEF Edit, SyncInv, SyncTypeOK, syncVars, Disturb
<1> QED BY <1>5, DisturbedInv

(* Every step keeps the invariant of the sync.                             *)
LEMMA SyncStep == SyncInv /\ [SyncNext]_allVars => SyncInv'
<1> SUFFICES ASSUME SyncInv, [SyncNext]_allVars PROVE SyncInv'
  OBVIOUS
<1>1. ASSUME NEW s \in Sync, Run(s) PROVE SyncInv'
  <2>1. CASE NothingToWrite(s) \/ EndWithoutWrite(s)
    BY <2>1, EndInv DEF NothingToWrite, EndWithoutWrite
  <2> QED BY <1>1, <2>1, ReadConfigInv, ReadAssetsInv, ReadPositionsInv, ReplaceFileInv DEF Run
<1>2. CASE UNCHANGED allVars
  <2>1. TypeOK' /\ \A P : RowsOf(P)' = RowsOf(P)
    BY <1>2, TypeKept DEF SyncInv, SyncTypeOK, allVars
  <2>2. UNCHANGED <<file, edits, pc, scope, text, assets, costs, clean>> /\ txs' = txs
    BY <1>2 DEF allVars, syncVars, vars
  <2>3. SyncTypeOK'
    BY <2>1, <2>2 DEF SyncInv, SyncTypeOK
  <2>4. ReadInv'
    BY <2>2 DEF SyncInv, ReadInv, RowsOf
  <2> QED BY <2>3, <2>4 DEF SyncInv
<1> QED BY <1>1, <1>2, FillInv, RemovalInv, EditInv DEF SyncNext

(* The invariant of the sync holds throughout.                             *)
THEOREM SyncInvariant == SyncSpec => []SyncInv
  BY SyncInitInv, SyncStep, PTL DEF SyncSpec

(* Ledger, file and the state of every sync stay typed.                    *)
THEOREM SyncTypeCorrect == SyncSpec => []SyncTypeOK
<1>1. SyncInv => SyncTypeOK
  BY DEF SyncInv
<1> QED BY <1>1, SyncInvariant, PTL

-----------------------------------------------------------------------------
(* What a plan drops and what it keeps *)

(* What the three reads of an undisturbed sync see.                        *)
LEMMA ViewIs ==
  ASSUME NEW P
  PROVE  View(P) = [assets |-> LedgerAssets(RowsOf(P)), costs |-> AvgCosts(RowsOf(P)),
                    open |-> [k \in P \X Asset |-> QtyOf(Open(Lots(RowsOf(P)), k))]]
  BY DEF View, Open

(* What a sync of P sees, in terms of the books.                           *)
LEMMA ViewType ==
  ASSUME TypeOK, NEW P \in SUBSET Pid
  PROVE  LET v == View(P) IN
         /\ v.assets \in SUBSET Holding /\ IsFiniteSet(v.assets)
         /\ v.costs \in SUBSET Costs
         /\ DOMAIN v.open = P \X Asset
         /\ \A k \in P \X Asset : v.open[k] \in Nat
         /\ \A k \in P \X Asset :
              (\A h \in v.assets : <<h.pid, h.asset>> # k) => v.open[k] = 0
         /\ \A h \in v.assets : <<h.pid, h.asset>> \in P \X Asset
<1> PICK R : R = RowsOf(P)
  OBVIOUS
<1> PICK v : v = View(P)
  OBVIOUS
<1>0. Rows(R)
  BY TypeRows
<1>1. /\ v.assets = LedgerAssets(R) /\ v.costs = AvgCosts(R)
      /\ v.open = [k \in P \X Asset |-> QtyOf(Open(Lots(R), k))]
  BY ViewIs
<1>2. v.assets \in SUBSET Holding /\ IsFiniteSet(v.assets) /\ v.costs \in SUBSET Costs
  BY <1>0, <1>1, LedgerAssetsType, AvgCostsType
<1>3. P \X Asset \subseteq Keys
  BY DEF Keys
<1>4. ASSUME NEW k \in P \X Asset PROVE v.open[k] \in Nat
  <2>1. Open(Lots(R), k) \in SUBSET Lot /\ IsFiniteSet(Open(Lots(R), k))
    BY <1>0, <1>3, OpenIsBook
  <2>2. QtyOf(Open(Lots(R), k)) \in Nat
    BY <2>1, SumsOfLots
  <2> QED BY <1>1, <2>2
<1>5. ASSUME NEW k \in P \X Asset, \A h \in v.assets : <<h.pid, h.asset>> # k PROVE v.open[k] = 0
  <2>1. \A t \in R : KeyOf(t) # k
    BY <1>0, <1>1, <1>5, LedgerAssetsType
  <2>2. Fifo(R)[k] = EmptyBook
    BY <1>0, <1>3, <2>1, FifoKeeps
  <2>3. Open(Lots(R), k) = {}
    <3>1. Open(Lots(R), k) = ToSet(Fifo(R)[k].lots)
      BY <1>0, <1>3, OpenIsBook
    <3>2. Fifo(R)[k].lots = <<>>
      BY <2>2 DEF EmptyBook
    <3> QED BY <3>1, <3>2 DEF ToSet
  <2>4. QtyOf({}) = 0
    <3> PICK f : f = [l \in {} |-> l.qty]
      OBVIOUS
    <3>1. SumFunctionOnSet(f, {}) = 0 /\ DOMAIN f = {}
      BY SumUnfolds, FS_EmptySet
    <3> QED BY <3>1 DEF QtyOf, SumFunction
  <2> QED BY <1>1, <2>3, <2>4
<1>6. ASSUME NEW h \in v.assets PROVE <<h.pid, h.asset>> \in P \X Asset
  <2>1. PICK t \in R : KeyOf(t) = <<h.pid, h.asset>>
    BY <1>0, <1>1, LedgerAssetsType
  <2>2. t.pid \in P /\ h.pid = t.pid /\ h.asset \in Asset
    BY <1>2, <2>1 DEF RowsOf, KeyOf, Holding
  <2> QED BY <2>2
<1>7. DOMAIN v.open = P \X Asset
  BY <1>1
<1> QED BY <1>2, <1>4, <1>5, <1>6, <1>7

-----------------------------------------------------------------------------
(* A dropped entry claims nothing the ledger still holds.                  *)
LEMMA DropsOnlyFlat ==
  ASSUME TypeOK, NEW P \in SUBSET Pid, NEW w,
         ElementState(w, View(P).assets, View(P).costs) = <<>>
  PROVE  /\ w.enabled
         /\ \A a \in ClaimedKeys(w, View(P).assets) \ Oversold(View(P)) :
              \A k \in DOMAIN View(P).open : k[2] = a => View(P).open[k] = 0
<1> PICK v : v = View(P)
  OBVIOUS
<1> PICK H : H = v.assets
  OBVIOUS
<1>1. /\ H \in SUBSET Holding /\ IsFiniteSet(H)
      /\ DOMAIN v.open = P \X Asset
      /\ \A k \in P \X Asset : (\A h \in H : <<h.pid, h.asset>> # k) => v.open[k] = 0
  BY ViewType
<1> PICK m : m = FindLedgerMatch(w, H)
  OBVIOUS
<1>2. w.enabled /\ m.status = "matched" /\ m.entry.net = 0
  BY StateCases
<1> PICK e : e = m.entry
  OBVIOUS
<1>3. e \in H /\ ClaimedKeys(w, H) = {e.asset} /\ \A h \in H : h.asset = e.asset => h = e
  BY <1>1, <1>2, MatchIs
<1>4. ASSUME e.asset \notin Oversold(v), NEW k \in P \X Asset, k[2] = e.asset PROVE v.open[k] = 0
  <2>1. CASE \A h \in H : <<h.pid, h.asset>> # k
    BY <1>1, <2>1
  <2>2. CASE ~\A h \in H : <<h.pid, h.asset>> # k
    <3>1. PICK h \in H : <<h.pid, h.asset>> = k
      BY <2>2
    <3>2. h = e
      BY <1>3, <1>4, <3>1
    <3>3. e.net = v.open[<<e.pid, e.asset>>]
      BY <1>3, <1>4 DEF Oversold
    <3> QED BY <1>2, <3>1, <3>2, <3>3
  <2> QED BY <2>1, <2>2
<1> QED BY <1>1, <1>2, <1>3, <1>4

(* No watch of what is held would be dropped, whatever a sync reads.       *)
LEMMA NeverDropsStep == SyncTypeOK => NeverDropsHeld
<1> SUFFICES ASSUME SyncTypeOK PROVE NeverDropsHeld
  OBVIOUS
<1>1. TypeOK
  BY DEF SyncTypeOK
<1>2. ASSUME NEW P \in Scopes, NEW i \in DOMAIN file,
             ElementState(file[i], View(P).assets, View(P).costs) = <<>>
      PROVE  /\ file[i].enabled
             /\ \A a \in ClaimedKeys(file[i], View(P).assets) \ Oversold(View(P)) :
                  \A k \in DOMAIN View(P).open : k[2] = a => View(P).open[k] = 0
  BY <1>1, <1>2, SyncAssumption, DropsOnlyFlat
<1> QED BY <1>2 DEF NeverDropsHeld, Views

(* No plan of a sync drops a watch whose key is held ...                   *)
THEOREM HeldIsNeverDropped == SyncSpec => []NeverDropsHeld
  BY SyncTypeCorrect, NeverDropsStep, PTL

-----------------------------------------------------------------------------
(* A watch that claims a held key stays, under the same monitor.           *)
LEMMA ClaimStays ==
  ASSUME NEW w \in Watch, NEW H \in SUBSET Holding, IsFiniteSet(H), NEW C \in SUBSET Costs,
         NEW h \in H, h.net > 0, h.asset \in ClaimedKeys(w, H)
  PROVE  \E x \in ToSet(ElementState(w, H, C)) : h.asset \in ClaimedKeys(x, H)
<1> PICK m : m = FindLedgerMatch(w, H)
  OBVIOUS
<1>1. CASE ElementState(w, H, C) = <<w>>
  <2>1. w \in ToSet(<<w>>)
    BY DEF ToSet
  <2> QED BY <1>1, <2>1
<1>2. CASE m.status = "matched" /\ m.entry.net = 0
  <2>1. h.asset = m.entry.asset /\ \A g \in H : g.asset = m.entry.asset => g = m.entry
    BY <1>2, MatchIs
  <2> QED BY <1>2, <2>1
<1>3. CASE ElementState(w, H, C) = <<Corrected(w, m.entry, C)>> /\ m.status = "matched"
  <2> PICK x : x = Corrected(w, m.entry, C)
    OBVIOUS
  <2>1. x.monitor = w.monitor
    BY <1>3, MatchIs, CorrectedType
  <2>2. ClaimedKeys(x, H) = ClaimedKeys(w, H)
    BY <2>1 DEF ClaimedKeys
  <2>3. x \in ToSet(<<x>>)
    BY DEF ToSet
  <2> QED BY <1>3, <2>2, <2>3
<1> QED BY <1>1, <1>2, <1>3, StateCases

(* What is held is watched after a plan or reported as unwatched.          *)
LEMMA WatchedOrReportedStep == SyncTypeOK => HeldIsWatchedOrReported
<1> SUFFICES ASSUME SyncTypeOK, NEW P \in Scopes,
                    NEW h \in View(P).assets, h.net > 0,
                    h.asset \notin Unwatched(file, View(P).assets)
             PROVE  LET after == Plan(file, View(P).assets, View(P).costs) IN
                    \E i \in DOMAIN after : h.asset \in ClaimedKeys(after[i], View(P).assets)
  BY DEF HeldIsWatchedOrReported, Views
<1> PICK v : v = View(P)
  OBVIOUS
<1> PICK H : H = v.assets
  OBVIOUS
<1> PICK C : C = v.costs
  OBVIOUS
<1> PICK after : after = Plan(file, H, C)
  OBVIOUS
<1>1. TypeOK /\ file \in Seq(Watch) /\ P \in SUBSET Pid
  BY SyncAssumption DEF SyncTypeOK
<1>2. H \in SUBSET Holding /\ IsFiniteSet(H) /\ C \in SUBSET Costs
  BY <1>1, ViewType
<1>3. PICK i \in DOMAIN file : h.asset \in ClaimedKeys(file[i], H)
  BY DEF Unwatched
<1> PICK w \in Watch : w = file[i]
  BY <1>1
<1>4. PICK x \in ToSet(ElementState(w, H, C)) : h.asset \in ClaimedKeys(x, H)
  BY <1>2, <1>3, ClaimStays
<1>5. ToSet(after) = UNION {ToSet(ElementState(file[j], H, C)) : j \in DOMAIN file}
  BY <1>1, <1>2, PlanElems
<1>6. x \in ToSet(after)
  BY <1>4, <1>5
<1>7. PICK j \in DOMAIN after : x = after[j]
  BY <1>6 DEF ToSet
<1> QED BY <1>4, <1>7

(* ... and every key that is held has a watch afterwards or is reported.    *)
THEOREM HeldIsAccountedFor == SyncSpec => []HeldIsWatchedOrReported
  BY SyncTypeCorrect, WatchedOrReportedStep, PTL

-----------------------------------------------------------------------------
(* A sync that nobody came into *)

(* An entry the ledger holds under its very name is matched with it.       *)
LEMMA ExactMatch ==
  ASSUME NEW w, NEW H, NEW h \in H, h.asset = w.monitor, \A g \in H : g.asset = h.asset => g = h
  PROVE  FindLedgerMatch(w, H) = [status |-> "matched", entry |-> h]
<1> DEFINE exact == {w.monitor} \cap KeysOf(H)
           alike == {a \in KeysOf(H) : Ticker[a] = Ticker[w.monitor] /\ Ticker[a] # NoTicker}
           keys == IF exact # {} THEN exact ELSE alike
           entries == {g \in H : g.asset \in keys}
           holders == {g \in entries : g.net > 0}
<1>1. exact = {h.asset}
  BY DEF KeysOf
<1>2. keys = {h.asset}
  BY <1>1
<1> HIDE DEF keys
<1>3. entries = {h}
  BY <1>2
<1>4. FindLedgerMatch(w, H) = CASE keys = {} -> [status |-> "unmatched"]
       [] Cardinality(keys) > 1 \/ Cardinality(holders) > 1 -> [status |-> "ambiguous"]
       [] Cardinality(keys) = 1 /\ Cardinality(holders) = 1 ->
            [status |-> "matched", entry |-> CHOOSE g \in holders : TRUE]
       [] Cardinality(keys) = 1 /\ holders = {} /\ Cardinality(entries) = 1 ->
            [status |-> "matched", entry |-> CHOOSE g \in entries : TRUE]
       [] OTHER -> [status |-> "ambiguous"]
  BY DEF FindLedgerMatch, keys
<1>5. Cardinality(keys) = 1 /\ Cardinality(entries) = 1 /\ Cardinality({h}) = 1 /\ keys # {}
  BY <1>2, <1>3, FS_Singleton
<1>6. (CHOOSE g \in {h} : TRUE) = h
  OBVIOUS
<1>7. holders = IF h.net > 0 THEN {h} ELSE {}
  BY <1>3
<1> HIDE DEF holders, entries
<1>8. CASE h.net > 0
  <2>1. holders = {h} /\ Cardinality(holders) = 1 /\ ~(holders = {})
    BY <1>5, <1>7, <1>8
  <2> QED BY <1>4, <1>5, <1>6, <2>1
<1>9. CASE ~(h.net > 0)
  <2>1. holders = {} /\ Cardinality(holders) = 0
    BY <1>7, <1>9, FS_EmptySet
  <2> QED BY <1>3, <1>4, <1>5, <1>6, <2>1
<1> QED BY <1>8, <1>9

(* What a plan from current answers says, agrees with the ledger.          *)
LEMMA PlanAgrees ==
  ASSUME TypeOK, NEW P \in SUBSET Pid, NEW f \in Seq(Watch)
  PROVE  Agrees(Plan(f, View(P).assets, View(P).costs), View(P))
<1> PICK v : v = View(P)
  OBVIOUS
<1> PICK H : H = v.assets
  OBVIOUS
<1> PICK C : C = v.costs
  OBVIOUS
<1> PICK after : after = Plan(f, H, C)
  OBVIOUS
<1>1. /\ H \in SUBSET Holding /\ IsFiniteSet(H) /\ C \in SUBSET Costs
      /\ \A k \in P \X Asset : v.open[k] \in Nat
      /\ \A h \in H : <<h.pid, h.asset>> \in P \X Asset
  BY ViewType
<1>2. ToSet(after) = UNION {ToSet(ElementState(f[j], H, C)) : j \in DOMAIN f}
  BY <1>1, PlanElems
<1> SUFFICES ASSUME NEW i \in DOMAIN after, NEW h \in H,
                    h.asset = after[i].monitor, h.asset \notin Oversold(v),
                    after[i].enabled, \A g \in H : g.asset = h.asset => g = h
             PROVE  /\ v.open[<<h.pid, h.asset>>] > 0
                    /\ after[i].size = v.open[<<h.pid, h.asset>>]
                    /\ AvgCost(h, C) # {} => after[i].price # Null
  BY DEF Agrees
<1> PICK x : x = after[i]
  OBVIOUS
<1>3. x \in ToSet(after)
  BY DEF ToSet
<1>4. PICK j \in DOMAIN f : x \in ToSet(ElementState(f[j], H, C))
  BY <1>2, <1>3
<1> PICK w \in Watch : w = f[j]
  OBVIOUS
<1> PICK m : m = FindLedgerMatch(w, H)
  OBVIOUS
<1>5. h.net = v.open[<<h.pid, h.asset>>] /\ h.net \in Nat
  BY <1>1 DEF Oversold
<1>6. \A y : ToSet(<<y>>) = {y}
  BY DEF ToSet
<1>7. ~(x \in ToSet(<<>>))
  BY DEF ToSet
<1>8. w.monitor = x.monitor => m = [status |-> "matched", entry |-> h]
  BY ExactMatch
<1>9. CASE ElementState(w, H, C) = <<w>> /\ (~w.enabled \/ m.status # "matched" \/ m.entry.net < 0)
  <2>1. x = w
    BY <1>4, <1>6, <1>9
  <2>2. m.status = "matched" /\ m.entry = h
    BY <1>8, <2>1
  <2> QED BY <1>5, <1>9, <2>1, <2>2
<1>10. CASE /\ ElementState(w, H, C) = <<Corrected(w, m.entry, C)>>
            /\ m.status = "matched" /\ m.entry.net # 0
  <2>1. x = Corrected(w, m.entry, C)
    BY <1>4, <1>6, <1>10
  <2>2. m.entry \in Holding
    BY <1>1, <1>10, MatchIs
  <2>3. /\ x.monitor = w.monitor /\ x.size = m.entry.net
        /\ AvgCost(m.entry, C) # {} => x.price # Null
    BY <1>1, <2>1, <2>2, CorrectedType
  <2>4. m.entry = h
    BY <1>8, <2>3
  <2> QED BY <1>5, <1>10, <2>3, <2>4
<1> QED BY <1>4, <1>7, <1>9, <1>10, StateCases

(* The rename of an undisturbed sync leaves a file that agrees.            *)
LEMMA ExactStep ==
  ASSUME SyncInv, NEW s \in Sync, clean[s], ReplaceFile(s) \/ NothingToWrite(s)
  PROVE  Agrees(file', View(scope[s]))
<1>1. pc[s] = "plan" /\ text[s] = file
  BY DEF SyncInv, ReadInv, ReplaceFile, NothingToWrite
<1> PICK P : P = scope[s]
  OBVIOUS
<1>2. assets[s] = View(P).assets /\ costs[s] = View(P).costs
  BY <1>1, ViewIs DEF SyncInv, ReadInv
<1>3. TypeOK /\ P \in SUBSET Pid /\ text[s] \in Seq(Watch)
  BY DEF SyncInv, SyncTypeOK
<1>4. Agrees(Planned(s), View(P))
  BY <1>2, <1>3, PlanAgrees DEF Planned
<1>5. file' = Planned(s)
  BY <1>1 DEF ReplaceFile, NothingToWrite
<1> QED BY <1>4, <1>5

(* A sync nobody came between leaves the file exact.                       *)
THEOREM AnUndisturbedSyncIsExact == SyncSpec => UndisturbedSyncIsExact
<1>1. SyncInv /\ [SyncNext]_allVars =>
        [\A s \in Sync : clean[s] /\ (ReplaceFile(s) \/ NothingToWrite(s)) =>
           Agrees(file', View(scope[s]))]_allVars
  BY ExactStep
<1> QED BY <1>1, SyncInvariant, PTL DEF SyncSpec, UndisturbedSyncIsExact

-----------------------------------------------------------------------------
(* Replay *)

-----------------------------------------------------------------------------
Event == [tx : Transaction, consumed : SUBSET Lot, pnl : Int]
Replay == [lots : [Keys -> Seq(Lot)], events : SUBSET Event]

(* The profit and the cost of a sale are numbers.                          *)
LEMMA SaleIsWorth ==
  ASSUME NEW t \in Transaction, NEW lots \in Seq(Lot)
  PROVE  LET sale == Consume(lots, t.qty) IN
         /\ sale \in Sale
         /\ QtyOf(sale.taken) * t.price - CostOf(sale.taken) \in Int
         /\ CostOf(sale.taken) \in Int
<1> PICK q \in Nat : q = t.qty
  BY DEF Transaction
<1> PICK x \in Nat : x = t.price
  BY DEF Transaction
<1> PICK sale : sale = Consume(lots, q)
  OBVIOUS
<1>1. sale \in Sale /\ IsFiniteSet(sale.taken)
  BY ConsumeKeeps
<1>2. sale.taken \in SUBSET Lot
  BY <1>1 DEF Sale
<1> PICK c \in Nat : c = CostOf(sale.taken)
  BY <1>1, <1>2, SumsOfLots
<1> PICK u \in Nat : u = QtyOf(sale.taken)
  BY <1>1, <1>2, SumsOfLots
<1> PICK z \in Nat : z = u * x
  OBVIOUS
<1>3. z - c \in Int
  OBVIOUS
<1> QED BY <1>1, <1>3

(* One row keeps the state of the replay typed.                            *)
LEMMA ReplayedType ==
  ASSUME NEW acc \in Replay, NEW t \in Transaction
  PROVE  Replayed(acc, t) \in Replay
<1> PICK k \in Keys : k = KeyOf(t)
  BY KeyOfType
<1> PICK L \in Seq(Lot) : L = acc.lots[k]
  BY DEF Replay
<1>0. acc.lots \in [Keys -> Seq(Lot)] /\ acc.events \in SUBSET Event
  BY DEF Replay
<1>1. CASE t.side = "BUY"
  <2> PICK x : x = [id |-> t.id, qty |-> t.qty, price |-> t.price]
    OBVIOUS
  <2>1. x \in Lot
    BY DEF Lot, Transaction
  <2>2. [tx |-> t, consumed |-> {}, pnl |-> 0] \in Event
    BY DEF Event
  <2>3. Replayed(acc, t) = [lots |-> [acc.lots EXCEPT ![k] = Append(@, x)],
                            events |-> acc.events \cup {[tx |-> t, consumed |-> {}, pnl |-> 0]}]
    BY <1>1 DEF Replayed
  <2>4. [acc.lots EXCEPT ![k] = Append(@, x)] \in [Keys -> Seq(Lot)]
    BY <1>0, <2>1
  <2>5. acc.events \cup {[tx |-> t, consumed |-> {}, pnl |-> 0]} \in SUBSET Event
    BY <1>0, <2>2
  <2> HIDE DEF Event
  <2> QED BY <2>3, <2>4, <2>5 DEF Replay
<1>2. CASE t.side # "BUY"
  <2> PICK sale : sale = Consume(L, t.qty)
    OBVIOUS
  <2> PICK y : y = QtyOf(sale.taken) * t.price - CostOf(sale.taken)
    OBVIOUS
  <2>1. sale \in Sale /\ y \in Int
    BY SaleIsWorth
  <2>2. sale.lots \in Seq(Lot) /\ sale.taken \in SUBSET Lot
    BY <2>1 DEF Sale
  <2>3. [tx |-> t, consumed |-> sale.taken, pnl |-> y] \in Event
    BY <2>1, <2>2 DEF Event
  <2>4. Replayed(acc, t) = [lots |-> [acc.lots EXCEPT ![k] = sale.lots],
                            events |-> acc.events \cup {[tx |-> t, consumed |-> sale.taken, pnl |-> y]}]
    BY <1>2 DEF Replayed
  <2>5. [acc.lots EXCEPT ![k] = sale.lots] \in [Keys -> Seq(Lot)]
    BY <1>0, <2>2
  <2> QED BY <1>0, <2>3, <2>4, <2>5 DEF Replay
<1> QED BY <1>1, <1>2

NoReplay == [lots |-> [k \in Keys |-> <<>>], events |-> {}]

(* g is the function by which FoldLeft walks the stream.                   *)
Replaying(g, S) ==
  g = [s \in SUBSET (DOMAIN S) |->
         IF s = {} THEN NoReplay ELSE Replayed(g[s \ {Max(s)}], S[Max(s)])]

(* replay_fifo goes through the rows one by one.                           *)
LEMMA ReplaySteps ==
  ASSUME NEW R, Rows(R)
  PROVE  \E a : /\ a[0] = NoReplay
                /\ \A k \in 1..Cardinality(R) : a[k] = Replayed(a[k - 1], Stream(R)[k])
                /\ FoldLeft(Replayed, NoReplay, Stream(R)) = a[Cardinality(R)]
<1> PICK n \in Nat : n = Cardinality(R)
  BY StreamIsSorted
<1> PICK S : S = Stream(R)
  OBVIOUS
<1> PICK base : base = NoReplay
  OBVIOUS
<1>0. DOMAIN S = 1..n /\ \A k \in 1..n : S[k] \in Transaction
  BY StreamIsSorted DEF Rows
<1> DEFINE step == [p \in Replay \X (1..n) |-> Replayed(p[1], S[p[2]])]
<1>2. PICK g : Walks(g, step, base, n, Replay)
  <2>1. step \in [Replay \X (1..n) -> Replay]
    BY <1>0, ReplayedType
  <2>2. base \in Replay
    BY DEF Replay, NoReplay
  <2> HIDE DEF step
  <2> QED BY <2>1, <2>2, WalkExists
<1>3. \A s \in SUBSET (1..n) : g[s] = IF s = {} THEN base ELSE Replayed(g[s \ {Max(s)}], S[Max(s)])
  <2> TAKE s \in SUBSET (1..n)
  <2>1. CASE s = {}
    BY <1>2, <2>1 DEF Walks
  <2>2. CASE s # {}
    <3>1. Max(s) \in 1..n /\ s \ {Max(s)} \in SUBSET (1..n)
      BY <2>2, MaxIsIn
    <3>2. g[s \ {Max(s)}] \in Replay
      BY <1>2, <3>1 DEF Walks
    <3>3. g[s] = step[<<g[s \ {Max(s)}], Max(s)>>]
      BY <1>2, <2>2 DEF Walks
    <3> QED BY <3>1, <3>2, <3>3, <2>2
  <2> QED BY <2>1, <2>2
<1>4. \E h : Replaying(h, S)
  <2>1. g = [s \in SUBSET (1..n) |-> g[s]]
    BY <1>2 DEF Walks
  <2>2. g = [s \in SUBSET (1..n) |-> IF s = {} THEN base ELSE Replayed(g[s \ {Max(s)}], S[Max(s)])]
    BY <1>3, <2>1
  <2>3. Replaying(g, S)
    BY ONLY <1>0, <2>2, base = NoReplay DEF Replaying
  <2> QED BY <2>3
<1>5. PICK h : Replaying(h, S) /\ FoldLeft(Replayed, NoReplay, S) = h[DOMAIN S]
  <2>1. FoldLeft(Replayed, NoReplay, S) = (CHOOSE h : Replaying(h, S))[DOMAIN S]
    BY DEF FoldLeft, MapThenFoldSet, Replaying
  <2> QED BY <1>4, <2>1
<1> DEFINE a == [k \in 0..n |-> h[1..k]]
<1>6. a[0] = base
  <2>1. 1..0 = {} /\ {} \in SUBSET (1..n)
    OBVIOUS
  <2> QED BY <1>0, <1>5, <2>1 DEF Replaying
<1>7. ASSUME NEW k \in 1..n PROVE a[k] = Replayed(a[k - 1], S[k])
  <2>1. 1..k \in SUBSET (1..n) /\ 1..k # {}
    <3>1. k \in 1..k /\ \A i \in 1..k : i \in 1..n
      OBVIOUS
    <3> QED BY <3>1
  <2>2. Max(1..k) = k /\ (1..k) \ {Max(1..k)} = 1..(k - 1)
    BY MaxOfPrefix
  <2>3. h[1..k] = Replayed(h[1..(k - 1)], S[k])
    BY <1>0, <1>5, <2>1, <2>2 DEF Replaying
  <2> QED BY <2>3
<1>8. FoldLeft(Replayed, NoReplay, S) = a[n]
  BY <1>0, <1>5
<1> HIDE DEF a
<1> QED BY <1>6, <1>7, <1>8

-----------------------------------------------------------------------------
(* The two passes together *)

GoodEvents(E) == IsFiniteSet(E) /\ E \subseteq Event /\ \A e \in E : CostOf(e.consumed) \in Int
EventsOf(E, k) == {e \in E : KeyOf(e.tx) = k}
PnlOn(E) == SumFunction([e \in E |-> e.pnl])
CostOn(E) == SumFunction([e \in E |-> CostOf(e.consumed)])

(* A new event adds its profit and its cost.                               *)
LEMMA EventsGrow ==
  ASSUME NEW E, GoodEvents(E), NEW x \in Event, CostOf(x.consumed) \in Int, x \notin E
  PROVE  /\ GoodEvents(E \cup {x})
         /\ PnlOn(E \cup {x}) = PnlOn(E) + x.pnl
         /\ CostOn(E \cup {x}) = CostOn(E) + CostOf(x.consumed)
<1>1. GoodEvents(E \cup {x})
  BY FS_AddElement DEF GoodEvents
<1> PICK D : D = E \cup {x}
  OBVIOUS
<1>2. IsFiniteSet(E) /\ (\A e \in D : e.pnl \in Int) /\ \A e \in D : CostOf(e.consumed) \in Int
  BY DEF GoodEvents, Event
<1>3. PnlOn(D) = PnlOn(E) + x.pnl
  <2> PICK f : f = [e \in E |-> e.pnl]
    OBVIOUS
  <2> PICK g : g = [e \in D |-> e.pnl]
    OBVIOUS
  <2>1. \A y \in E : g[y] = f[y] /\ f[y] \in Int
    BY <1>2
  <2>2. g[x] = x.pnl /\ g[x] \in Int
    BY <1>2
  <2>3. SumFunctionOnSet(g, E \cup {x}) = SumFunctionOnSet(f, E) + g[x]
    BY <1>2, <2>1, <2>2, SumGrows
  <2> QED BY <2>2, <2>3 DEF PnlOn, SumFunction
<1>4. CostOn(D) = CostOn(E) + CostOf(x.consumed)
  <2> PICK f : f = [e \in E |-> CostOf(e.consumed)]
    OBVIOUS
  <2> PICK g : g = [e \in D |-> CostOf(e.consumed)]
    OBVIOUS
  <2>1. \A y \in E : g[y] = f[y] /\ f[y] \in Int
    BY <1>2
  <2>2. g[x] = CostOf(x.consumed) /\ g[x] \in Int
    BY <1>2
  <2>3. SumFunctionOnSet(g, E \cup {x}) = SumFunctionOnSet(f, E) + g[x]
    BY <1>2, <2>1, <2>2, SumGrows
  <2> QED BY <2>2, <2>3 DEF CostOn, SumFunction
<1> QED BY <1>1, <1>3, <1>4

(* Without events nothing is realized.                                     *)
LEMMA NoEvents == GoodEvents({}) /\ PnlOn({}) = 0 /\ CostOn({}) = 0 /\ CostOf({}) = 0 /\ QtyOf({}) = 0
<1>1. \A f : SumFunctionOnSet(f, {}) = 0
  BY SumUnfolds, FS_EmptySet
<1>2. CostOf({}) = 0
  BY <1>1 DEF CostOf, SumFunction
<1>3. QtyOf({}) = 0
  BY <1>1 DEF QtyOf, SumFunction
<1>4. PnlOn({}) = 0
  BY <1>1 DEF PnlOn, SumFunction
<1>5. CostOn({}) = 0
  BY <1>1 DEF CostOn, SumFunction
<1> QED BY <1>2, <1>3, <1>4, <1>5, FS_EmptySet DEF GoodEvents

(* The two passes after m rows of a stream S.                              *)
Together(acc, books, S, m) ==
  /\ books \in [Keys -> Book] /\ acc \in Replay
  /\ \A k \in Keys : acc.lots[k] = books[k].lots
  /\ GoodEvents(acc.events)
  /\ \A e \in acc.events : \E i \in 1..m : e.tx = S[i]
  /\ \A i \in 1..m : \E e \in acc.events : e.tx = S[i]
  /\ \A e \in acc.events : \A f \in acc.events : e.tx = f.tx => e = f
  /\ \A k \in Keys : /\ books[k].realized = PnlOn(EventsOf(acc.events, k))
                     /\ books[k].costOfSold = CostOn(EventsOf(acc.events, k))

(* The two passes start together.                                          *)
LEMMA TogetherFirst == ASSUME NEW S PROVE Together(NoReplay, [k \in Keys |-> EmptyBook], S, 0)
<1>1. NoReplay \in Replay /\ EmptyBook \in Book
  BY EmptyBookType DEF NoReplay, Replay
<1>2. NoReplay.events = {} /\ \A k \in Keys : NoReplay.lots[k] = <<>>
  BY DEF NoReplay
<1>3. \A k \in Keys : EventsOf({}, k) = {}
  BY DEF EventsOf
<1>4. EmptyBook.lots = <<>> /\ EmptyBook.realized = 0 /\ EmptyBook.costOfSold = 0
  BY DEF EmptyBook
<1> PICK books : books = [k \in Keys |-> EmptyBook]
  OBVIOUS
<1>5. books \in [Keys -> Book] /\ \A k \in Keys : books[k] = EmptyBook
  BY <1>1
<1>6. \A k \in Keys : /\ books[k].realized = PnlOn(EventsOf(NoReplay.events, k))
                      /\ books[k].costOfSold = CostOn(EventsOf(NoReplay.events, k))
  BY <1>2, <1>3, <1>4, <1>5, NoEvents
<1>7. GoodEvents(NoReplay.events) /\ \A k \in Keys : NoReplay.lots[k] = books[k].lots
  BY <1>2, <1>4, <1>5, NoEvents
<1> QED BY <1>1, <1>2, <1>5, <1>6, <1>7 DEF Together

(* One row keeps the two passes together.                                  *)
LEMMA TogetherStep ==
  ASSUME NEW S, NEW m \in Nat, m # 0, NEW acc, NEW books, Together(acc, books, S, m - 1),
         S[m] \in Transaction, \A i \in 1..(m - 1) : S[i] # S[m]
  PROVE  Together(Replayed(acc, S[m]), Booked(books, S[m]), S, m)
<1> PICK t \in Transaction : t = S[m]
  OBVIOUS
<1> PICK c \in Keys : c = KeyOf(t)
  BY KeyOfType
<1> PICK E : E = acc.events
  OBVIOUS
<1> PICK L \in Seq(Lot) : L = books[c].lots
  BY DEF Together, Book
<1> PICK sale : sale = Consume(L, t.qty)
  OBVIOUS
<1> PICK x : x = IF t.side = "BUY" THEN [tx |-> t, consumed |-> {}, pnl |-> 0]
                 ELSE [tx |-> t, consumed |-> sale.taken,
                       pnl |-> QtyOf(sale.taken) * t.price - CostOf(sale.taken)]
  OBVIOUS
<1> PICK b : b = IF t.side = "BUY" THEN Bought(books[c], t) ELSE Sold(books[c], t)
  OBVIOUS
<1> PICK r : r = Replayed(acc, t)
  OBVIOUS
<1> PICK n : n = Booked(books, t)
  OBVIOUS
<1>1. books \in [Keys -> Book] /\ acc \in Replay /\ acc.lots[c] = L /\ GoodEvents(E) /\ books[c] \in Book
  BY DEF Together
<1>2. x \in Event /\ x.tx = t /\ CostOf(x.consumed) \in Int
  <2>1. CASE t.side = "BUY"
    BY <2>1, NoEvents DEF Event
  <2>2. CASE t.side # "BUY"
    <3> PICK y : y = QtyOf(sale.taken) * t.price - CostOf(sale.taken)
      OBVIOUS
    <3>1. y \in Int /\ CostOf(sale.taken) \in Int /\ sale.taken \in SUBSET Lot
      BY SaleIsWorth DEF Sale
    <3>2. x = [tx |-> t, consumed |-> sale.taken, pnl |-> y]
      BY <2>2
    <3>3. x.tx = t /\ x.consumed = sale.taken
      BY ONLY <3>2
    <3>4. [tx |-> t, consumed |-> sale.taken, pnl |-> y] \in Event
      BY <3>1 DEF Event
    <3> HIDE DEF Event
    <3> QED BY <3>1, <3>2, <3>3, <3>4
  <2> QED BY <2>1, <2>2
<1>3. r \in Replay /\ n \in [Keys -> Book]
  BY <1>1, ReplayedType, BookedType
<1>4. \A k \in Keys : n[k] = IF k = c THEN b ELSE books[k]
  BY <1>1 DEF Booked
<1>5. /\ b.lots = IF t.side = "BUY" THEN Append(L, [id |-> t.id, qty |-> t.qty, price |-> t.price]) ELSE sale.lots
      /\ b.realized = books[c].realized + x.pnl
      /\ b.costOfSold = books[c].costOfSold + CostOf(x.consumed)
  <2>0. books[c].realized \in Int /\ books[c].costOfSold \in Int
    BY <1>1 DEF Book
  <2>1. CASE t.side = "BUY"
    <3>1. b = Bought(books[c], t) /\ x.pnl = 0 /\ x.consumed = {}
      BY <2>1
    <3>2. b.lots = Append(L, [id |-> t.id, qty |-> t.qty, price |-> t.price])
          /\ b.realized = books[c].realized /\ b.costOfSold = books[c].costOfSold
      <4> PICK l : l = [id |-> t.id, qty |-> t.qty, price |-> t.price]
        OBVIOUS
      <4> PICK y : y = t.qty * t.price
        OBVIOUS
      <4> PICK k \in Book : k = books[c]
        BY <1>1
      <4>1. b = [k EXCEPT !.lots = Append(@, l), !.bought = @ + t.qty, !.invested = @ + y, !.fees = @ + t.fee]
        BY <3>1 DEF Bought
      <4>2. b.lots = Append(k.lots, l) /\ b.realized = k.realized /\ b.costOfSold = k.costOfSold
        BY ONLY <4>1, k \in Book DEF Book
      <4> QED BY <4>2
    <3> QED BY <2>0, <2>1, <3>1, <3>2, NoEvents
  <2>2. CASE t.side # "BUY"
    <3> PICK u : u = QtyOf(sale.taken)
      OBVIOUS
    <3> PICK v \in Int : v = CostOf(sale.taken)
      BY SaleIsWorth
    <3> PICK z \in Int : z = u * t.price
      <4>1. sale.taken \in SUBSET Lot /\ IsFiniteSet(sale.taken)
        <5> PICK q \in Nat : q = t.qty
          BY DEF Transaction
        <5> QED BY ConsumeKeeps DEF Sale
      <4>2. u \in Nat
        BY <4>1, SumsOfLots
      <4> PICK p \in Nat : p = t.price
        BY DEF Transaction
      <4>3. u * p \in Int
        BY <4>2
      <4> QED BY <4>3
    <3>1. b = Settle(books[c], t, sale, u) /\ x.pnl = z - v /\ x.consumed = sale.taken
      BY <2>2 DEF Sold
    <3>2. b.lots = sale.lots /\ b.realized = books[c].realized + z - v /\ b.costOfSold = books[c].costOfSold + v
      BY <1>1, <3>1 DEF Settle, Book
    <3> QED BY <2>0, <2>2, <3>1, <3>2
  <2> QED BY <2>1, <2>2
<1>6. r.events = E \cup {x} /\ \A k \in Keys : r.lots[k] = IF k = c THEN b.lots ELSE acc.lots[k]
  <2>1. acc.lots \in [Keys -> Seq(Lot)]
    BY <1>1 DEF Replay
  <2>2. CASE t.side = "BUY"
    BY <1>1, <1>5, <2>1, <2>2 DEF Replayed
  <2>3. CASE t.side # "BUY"
    BY <1>1, <1>5, <2>1, <2>3 DEF Replayed
  <2> QED BY <2>2, <2>3
<1>7. \A k \in Keys : r.lots[k] = n[k].lots
  BY <1>4, <1>6 DEF Together
<1>8. \A e \in E : e.tx # t
  BY DEF Together
<1>9. GoodEvents(r.events)
  <2>1. x \notin E
    BY <1>2, <1>8
  <2>2. GoodEvents(E \cup {x})
    BY ONLY <1>1, <1>2, <2>1, EventsGrow
  <2> QED BY <1>6, <2>2
<1>10. \A k \in Keys : EventsOf(r.events, k) = IF k = c THEN EventsOf(E, k) \cup {x} ELSE EventsOf(E, k)
  BY <1>2, <1>6 DEF EventsOf
<1>11. \A k \in Keys : GoodEvents(EventsOf(E, k)) /\ x \notin EventsOf(E, k)
  <2> TAKE k \in Keys
  <2>1. EventsOf(E, k) \subseteq E
    BY DEF EventsOf
  <2> QED BY <1>1, <1>2, <1>8, <2>1, FS_Subset DEF GoodEvents
<1>12. ASSUME NEW k \in Keys
       PROVE  /\ n[k].realized = PnlOn(EventsOf(r.events, k))
              /\ n[k].costOfSold = CostOn(EventsOf(r.events, k))
  <2>1. books[k].realized = PnlOn(EventsOf(E, k)) /\ books[k].costOfSold = CostOn(EventsOf(E, k))
    BY DEF Together
  <2>2. CASE k # c
    BY <1>4, <1>10, <2>1, <2>2
  <2>3. CASE k = c
    <3> PICK F : F = EventsOf(E, c)
      OBVIOUS
    <3>1. GoodEvents(F) /\ x \notin F
      BY <1>11
    <3>2. PnlOn(F \cup {x}) = PnlOn(F) + x.pnl /\ CostOn(F \cup {x}) = CostOn(F) + CostOf(x.consumed)
      BY ONLY <1>2, <3>1, EventsGrow
    <3> QED BY <1>4, <1>5, <1>10, <2>1, <2>3, <3>2, ZenonT(40)
  <2> QED BY <2>2, <2>3
<1>13. \A e \in r.events : \E i \in 1..m : e.tx = S[i]
  <2>1. \A e \in E : \E i \in 1..(m - 1) : e.tx = S[i]
    BY DEF Together
  <2>2. m \in 1..m /\ \A i \in 1..(m - 1) : i \in 1..m
    OBVIOUS
  <2> QED BY <1>2, <1>6, <2>1, <2>2
<1>14. \A i \in 1..m : \E e \in r.events : e.tx = S[i]
  <2>1. \A i \in 1..(m - 1) : \E e \in E : e.tx = S[i]
    BY DEF Together
  <2>2. \A i \in 1..m : i = m \/ i \in 1..(m - 1)
    OBVIOUS
  <2> QED BY <1>2, <1>6, <2>1, <2>2
<1>15. \A e \in r.events : \A f \in r.events : e.tx = f.tx => e = f
  <2>1. \A e \in E : \A f \in E : e.tx = f.tx => e = f
    BY DEF Together
  <2>2. x.tx = t
    BY <1>2
  <2> QED BY ONLY <1>6, <1>8, <2>1, <2>2
<1> QED BY <1>3, <1>7, <1>9, <1>12, <1>13, <1>14, <1>15 DEF Together

(* What remains of a purchase, and an event as replay_fifo shows it.       *)
Remains(lots, id) == QtyOf({l \in UNION {ToSet(lots[k]) : k \in Keys} : l.id = id})
AsReplayed(e, lots) ==
  [tx |-> e.tx, consumed |-> e.consumed, pnl |-> e.pnl,
   remain |-> IF e.tx.side = "BUY" THEN Remains(lots, e.tx.id) ELSE 0]

(* The two passes end together.                                            *)
LEMMA ReplayEnd ==
  ASSUME NEW R, Rows(R)
  PROVE  \E acc : /\ Together(acc, Fifo(R), Stream(R), Cardinality(R))
                  /\ ReplayFifo(R) = {AsReplayed(e, acc.lots) : e \in acc.events}
<1> PICK n \in Nat : n = Cardinality(R)
  BY StreamIsSorted
<1> PICK S : S = Stream(R)
  OBVIOUS
<1>1. PICK a : /\ a[0] = [k \in Keys |-> EmptyBook]
               /\ \A k \in 1..n : a[k] = Booked(a[k - 1], S[k])
               /\ Fifo(R) = a[n]
  BY FifoSteps
<1>2. PICK b : /\ b[0] = NoReplay
               /\ \A k \in 1..n : b[k] = Replayed(b[k - 1], S[k])
               /\ FoldLeft(Replayed, NoReplay, S) = b[n]
  BY ReplaySteps
<1>3. \A i \in 1..n : S[i] \in Transaction /\ S[i] \in R
  BY StreamIsSorted DEF Rows
<1>4. \A i \in 1..n : \A j \in 1..n : i < j => S[i] # S[j]
  BY <1>3, StreamIsSorted, RowOrder
<1> DEFINE P == {m \in 0..n : Together(b[m], a[m], S, m)}
<1>5. 0 \in P
  BY <1>1, <1>2, TogetherFirst
<1>6. ASSUME NEW m \in 1..n, m - 1 \in P PROVE m \in P
  <2>1. m \in Nat /\ m # 0 /\ S[m] \in Transaction /\ \A i \in 1..(m - 1) : S[i] # S[m]
    BY <1>3, <1>4
  <2>2. Together(b[m - 1], a[m - 1], S, m - 1)
    BY <1>6
  <2>3. Together(Replayed(b[m - 1], S[m]), Booked(a[m - 1], S[m]), S, m)
    BY <2>1, <2>2, TogetherStep
  <2> QED BY <1>1, <1>2, <2>3
<1>7. n \in P
  <2> PICK Q : Q = P
    OBVIOUS
  <2> HIDE DEF P
  <2>1. 0 \in Q /\ \A k \in 1..n : k - 1 \in Q => k \in Q
    BY <1>5, <1>6
  <2>2. \A k \in 0..n : k \in Q
    BY <2>1, Climbing
  <2> QED BY <2>2
<1> PICK end : end = b[n]
  OBVIOUS
<1>8. Together(end, Fifo(R), S, n)
  BY <1>1, <1>7
<1>9. ReplayFifo(R) = {AsReplayed(e, end.lots) : e \in end.events}
  <2>1. end = FoldLeft(Replayed, [lots |-> [k \in Keys |-> <<>>], events |-> {}], Stream(R))
    BY <1>2 DEF NoReplay
  <2> QED BY <2>1, Zenon DEF ReplayFifo, AsReplayed, Remains
<1> QED BY <1>8, <1>9

(* The sums of the events of a key, as they are shown.                     *)
SumsOf(E, lots, k) ==
  LET Of == {e \in {AsReplayed(f, lots) : f \in E} : KeyOf(e.tx) = k} IN
  /\ SumFunction([e \in Of |-> e.pnl]) = PnlOn(EventsOf(E, k))
  /\ SumFunction([e \in Of |-> CostOf(e.consumed)]) = CostOn(EventsOf(E, k))

(* The sums over the events of a key are those its book shows.             *)
LEMMA ShownSums ==
  ASSUME NEW E, GoodEvents(E), \A e \in E : \A f \in E : e.tx = f.tx => e = f,
         NEW lots, NEW k
  PROVE  SumsOf(E, lots, k)
<1> PICK F : F = EventsOf(E, k)
  OBVIOUS
<1> PICK Of : Of = {e \in {AsReplayed(f, lots) : f \in E} : KeyOf(e.tx) = k}
  OBVIOUS
<1> PICK key : key = [e \in F |-> AsReplayed(e, lots)]
  OBVIOUS
<1>1. IsFiniteSet(F) /\ F \subseteq E /\ \A e \in F : e.pnl \in Int /\ CostOf(e.consumed) \in Int
  BY FS_Subset DEF EventsOf, GoodEvents, Event
<1>2. \A e : AsReplayed(e, lots).tx = e.tx /\ AsReplayed(e, lots).pnl = e.pnl /\ AsReplayed(e, lots).consumed = e.consumed
  BY DEF AsReplayed
<1>3. Of = {key[e] : e \in F}
  <2>1. ASSUME NEW x \in Of PROVE x \in {key[e] : e \in F}
    <3>1. PICK f \in E : x = AsReplayed(f, lots) /\ KeyOf(x.tx) = k
      OBVIOUS
    <3>2. f \in F /\ key[f] = x
      BY <1>2, <3>1 DEF EventsOf
    <3> QED BY <3>2
  <2>2. ASSUME NEW f \in F PROVE key[f] \in Of
    BY <1>1, <1>2 DEF EventsOf
  <2> QED BY <2>1, <2>2
<1>4. \A x \in F : \A y \in F : key[x] = key[y] => x = y
  <2> SUFFICES ASSUME NEW x \in F, NEW y \in F, key[x] = key[y] PROVE x = y
    OBVIOUS
  <2>1. AsReplayed(x, lots) = AsReplayed(y, lots)
    OBVIOUS
  <2>2. x.tx = y.tx
    BY <1>2, <2>1
  <2> QED BY <1>1, <2>2
<1>5. SumFunction([e \in Of |-> e.pnl]) = PnlOn(F)
  <2> PICK f : f = [e \in F |-> e.pnl]
    OBVIOUS
  <2> PICK g : g = [e \in Of |-> e.pnl]
    OBVIOUS
  <2>1. \A x \in F : f[x] \in Int
    BY <1>1
  <2>2. \A x \in F : g[key[x]] = f[x]
    <3> TAKE x \in F
    <3>1. key[x] \in Of /\ key[x] = AsReplayed(x, lots)
      BY <1>3
    <3> QED BY <1>2, <3>1
  <2>3. SumFunctionOnSet(g, {key[x] : x \in F}) = SumFunctionOnSet(f, F)
    BY ONLY <1>1, <1>4, <2>1, <2>2, SumRenames
  <2>4. SumFunctionOnSet(g, Of) = SumFunctionOnSet(f, F)
    BY <1>3, <2>3
  <2> QED BY <2>4 DEF PnlOn, SumFunction
<1>6. SumFunction([e \in Of |-> CostOf(e.consumed)]) = CostOn(F)
  <2> PICK f : f = [e \in F |-> CostOf(e.consumed)]
    OBVIOUS
  <2> PICK g : g = [e \in Of |-> CostOf(e.consumed)]
    OBVIOUS
  <2>1. \A x \in F : f[x] \in Int
    BY <1>1
  <2>2. \A x \in F : g[key[x]] = f[x]
    <3> TAKE x \in F
    <3>1. key[x] \in Of /\ key[x] = AsReplayed(x, lots)
      BY <1>3
    <3> QED BY <1>2, <3>1
  <2>3. SumFunctionOnSet(g, {key[x] : x \in F}) = SumFunctionOnSet(f, F)
    BY ONLY <1>1, <1>4, <2>1, <2>2, SumRenames
  <2>4. SumFunctionOnSet(g, Of) = SumFunctionOnSet(f, F)
    BY <1>3, <2>3
  <2> QED BY <2>4 DEF CostOn, SumFunction
<1> QED BY <1>5, <1>6 DEF SumsOf

(* What remains of a purchase is its open lot.                             *)
LEMMA RemainsIsLot ==
  ASSUME NEW R, Rows(R), NEW lots, \A k \in Keys : lots[k] = Fifo(R)[k].lots
  PROVE  /\ \A k \in Keys : \A l \in ToSet(lots[k]) : Remains(lots, l.id) = l.qty
         /\ \A id : Remains(lots, id) # 0 => \E k \in Keys : \E l \in ToSet(lots[k]) : l.id = id
<1> DEFINE A == UNION {ToSet(lots[k]) : k \in Keys}
<1>1. \A k \in Keys : /\ lots[k] \in Seq(Lot) /\ Distinct(lots[k])
                      /\ \A l \in ToSet(lots[k]) : \E t \in R : t.id = l.id /\ KeyOf(t) = k
  BY FifoKeeps DEF Book
<1>2. ASSUME NEW k \in Keys, NEW l \in ToSet(lots[k]) PROVE Remains(lots, l.id) = l.qty
  <2>1. ASSUME NEW x \in A, x.id = l.id PROVE x = l
    <3>1. PICK j \in Keys : x \in ToSet(lots[j])
      OBVIOUS
    <3>2. j = k
      BY <1>1, <2>1, <3>1 DEF Rows
    <3>3. PICK p \in DOMAIN lots[k] : x = lots[k][p]
      BY <3>1, <3>2 DEF ToSet
    <3>4. PICK q \in DOMAIN lots[k] : l = lots[k][q]
      BY DEF ToSet
    <3> QED BY <1>1, <2>1, <3>3, <3>4 DEF Distinct
  <2>2. l \in A
    OBVIOUS
  <2>3. {x \in A : x.id = l.id} = {l}
    BY <2>1, <2>2
  <2>4. QtyOf({l}) = l.qty
    <3>1. l \in Lot
      BY <1>1, ElemsAreFinite
    <3>2. l.qty \in Int
      BY <3>1 DEF Lot
    <3> PICK f : f = [x \in {l} |-> x.qty]
      OBVIOUS
    <3>3. f[l] = l.qty /\ DOMAIN f = {l}
      OBVIOUS
    <3>4. SumFunctionOnSet(f, {l}) = f[l]
      BY <3>2, <3>3, SumOfOne
    <3> QED BY <3>3, <3>4 DEF QtyOf, SumFunction
  <2> QED BY <2>3, <2>4 DEF Remains
<1>3. ASSUME NEW id, Remains(lots, id) # 0 PROVE \E k \in Keys : \E l \in ToSet(lots[k]) : l.id = id
  <2>1. {x \in A : x.id = id} # {}
    BY <1>3, NoEvents DEF Remains
  <2> QED BY <2>1
<1> QED BY <1>2, <1>3

-----------------------------------------------------------------------------
(* Replay agrees with FIFO *)

(* Replay and FIFO agree on a typed ledger.                                *)
LEMMA ReplayAgrees == TypeOK => ReplayAgreesWithFifo
<1> SUFFICES ASSUME TypeOK PROVE ReplayAgreesWithFifo
  OBVIOUS
<1> PICK R : R = txs
  OBVIOUS
<1> PICK S : S = Stream(R)
  OBVIOUS
<1> PICK n \in Nat : n = Cardinality(R)
  BY TypeRows, StreamIsSorted
<1> PICK books : books = Fifo(R)
  OBVIOUS
<1>0. Rows(R) /\ books \in [Keys -> Book]
  BY TypeRows, FifoKeeps
<1>1. PICK acc : /\ Together(acc, books, S, n)
                 /\ ReplayFifo(R) = {AsReplayed(e, acc.lots) : e \in acc.events}
  BY <1>0, ReplayEnd
<1> PICK E : E = acc.events
  OBVIOUS
<1> PICK lots : lots = acc.lots
  OBVIOUS
<1> PICK events : events = ReplayFifo(R)
  OBVIOUS
<1>2. events = {AsReplayed(e, lots) : e \in E}
  BY <1>1
<1>3. /\ \A k \in Keys : lots[k] = books[k].lots
      /\ GoodEvents(E) /\ \A e \in E : \A f \in E : e.tx = f.tx => e = f
      /\ \A e \in E : \E i \in 1..n : e.tx = S[i]
      /\ \A i \in 1..n : \E e \in E : e.tx = S[i]
      /\ \A k \in Keys : books[k].realized = PnlOn(EventsOf(E, k)) /\ books[k].costOfSold = CostOn(EventsOf(E, k))
  BY <1>1 DEF Together
<1>4. (\A e \in E : e.tx \in R) /\ \A t \in R : \E e \in E : e.tx = t
  <2>1. (\A i \in 1..n : S[i] \in R) /\ \A t \in R : \E i \in 1..n : S[i] = t
    BY <1>0, StreamIsSorted
  <2>2. \A t \in R : \E e \in E : e.tx = t
    BY ONLY <1>3, <2>1
  <2>3. \A e \in E : e.tx \in R
    BY ONLY <1>3, <2>1
  <2> QED BY <2>2, <2>3
<1>5. /\ \A k \in Keys : \A l \in ToSet(lots[k]) : Remains(lots, l.id) = l.qty
      /\ \A id : Remains(lots, id) # 0 => \E k \in Keys : \E l \in ToSet(lots[k]) : l.id = id
  BY <1>0, <1>3, RemainsIsLot
<1>6. \A k \in Keys : \A l \in ToSet(lots[k]) :
        l \in Lot /\ \E t \in R : t.id = l.id /\ KeyOf(t) = k /\ t.side = "BUY"
  <2> TAKE k \in Keys
  <2>1. lots[k] \in Seq(Lot)
    BY <1>0, <1>3 DEF Book
  <2>2. \A l \in ToSet(lots[k]) : l \in Lot
    BY <2>1, ElemsAreFinite
  <2> QED BY <1>0, <1>3, <2>2, FifoKeeps
<1>7. ASSUME NEW k \in Keys
      PROVE  LET Of == {e \in events : KeyOf(e.tx) = k} IN
             /\ books[k].realized = SumFunction([e \in Of |-> e.pnl])
             /\ books[k].costOfSold = SumFunction([e \in Of |-> CostOf(e.consumed)])
  <2>1. LET Of == {e \in {AsReplayed(f, lots) : f \in E} : KeyOf(e.tx) = k} IN
        /\ SumFunction([e \in Of |-> e.pnl]) = PnlOn(EventsOf(E, k))
        /\ SumFunction([e \in Of |-> CostOf(e.consumed)]) = CostOn(EventsOf(E, k))
    <3>1. SumsOf(E, lots, k)
      BY <1>3, ShownSums
    <3> QED BY <3>1 DEF SumsOf
  <2> PICK Of : Of = {e \in events : KeyOf(e.tx) = k}
    OBVIOUS
  <2>2. Of = {e \in {AsReplayed(f, lots) : f \in E} : KeyOf(e.tx) = k}
    BY <1>2
  <2>3. /\ SumFunction([e \in Of |-> e.pnl]) = PnlOn(EventsOf(E, k))
        /\ SumFunction([e \in Of |-> CostOf(e.consumed)]) = CostOn(EventsOf(E, k))
    BY <2>1, <2>2
  <2> QED BY <1>3, <2>3
<1> DEFINE left == {<<l.key, l.lot.id, l.lot.qty>> : l \in Lots(R)}
           shown == {<<KeyOf(e.tx), e.tx.id, e.remain>> : e \in {f \in events : f.remain > 0}}
<1>8. ASSUME NEW m \in Lots(R) PROVE <<m.key, m.lot.id, m.lot.qty>> \in shown
  <2>1. PICK k \in Keys : \E l \in ToSet(lots[k]) : m = [key |-> k, lot |-> l]
    BY <1>0, <1>3, LotsAre
  <2>2. PICK l \in ToSet(lots[k]) : m = [key |-> k, lot |-> l]
    BY <2>1
  <2>3. PICK t \in R : t.id = l.id /\ KeyOf(t) = k /\ t.side = "BUY"
    BY <1>6
  <2>4. PICK e \in E : e.tx = t
    BY <1>4
  <2> PICK x : x = AsReplayed(e, lots)
    OBVIOUS
  <2>5. x.tx = t /\ x.remain = l.qty
    BY <1>5, <2>3, <2>4 DEF AsReplayed
  <2>6. l.qty > 0
    BY <1>6 DEF Lot
  <2>7. x \in {f \in events : f.remain > 0}
    BY <1>2, <2>5, <2>6
  <2>8. <<KeyOf(x.tx), x.tx.id, x.remain>> \in shown
    BY <2>7
  <2>9. <<m.key, m.lot.id, m.lot.qty>> = <<KeyOf(x.tx), x.tx.id, x.remain>>
    BY <2>2, <2>3, <2>5
  <2> QED BY <2>8, <2>9
<1>9. ASSUME NEW x \in events, x.remain > 0 PROVE <<KeyOf(x.tx), x.tx.id, x.remain>> \in left
  <2>1. PICK e \in E : x = AsReplayed(e, lots)
    BY <1>2
  <2>2. x.tx = e.tx /\ x.remain = (IF e.tx.side = "BUY" THEN Remains(lots, e.tx.id) ELSE 0)
    BY <2>1 DEF AsReplayed
  <2>3. x.remain = Remains(lots, e.tx.id) /\ Remains(lots, e.tx.id) # 0
    BY <1>9, <2>2
  <2>4. PICK k \in Keys : \E l \in ToSet(lots[k]) : l.id = e.tx.id
    BY <1>5, <2>3
  <2>5. PICK l \in ToSet(lots[k]) : l.id = e.tx.id
    BY <2>4
  <2>6. PICK t \in R : t.id = l.id /\ KeyOf(t) = k
    BY <1>6
  <2>7. t = e.tx
    BY <1>0, <1>4, <2>5, <2>6 DEF Rows
  <2>8. Remains(lots, l.id) = l.qty
    BY <1>5
  <2> PICK m : m = [key |-> k, lot |-> l]
    OBVIOUS
  <2>9. m \in Lots(R)
    BY <1>0, <1>3, LotsAre
  <2>10. <<m.key, m.lot.id, m.lot.qty>> \in left
    BY <2>9
  <2>11. <<m.key, m.lot.id, m.lot.qty>> = <<KeyOf(x.tx), x.tx.id, x.remain>>
    BY <2>2, <2>3, <2>5, <2>6, <2>7, <2>8
  <2> QED BY <2>10, <2>11
<1>10. left = shown
  BY <1>8, <1>9
<1> HIDE DEF left, shown
<1> QED BY <1>7, <1>10 DEF ReplayAgreesWithFifo, left, shown

(* The two implementations of FIFO agree.                                  *)
THEOREM ReplayTellsFifo == Spec => []ReplayAgreesWithFifo
  BY TypeCorrect, ReplayAgrees, PTL

-----------------------------------------------------------------------------
(* What a sale leaves, in closed form *)

(* c adds up the quantities of lots.                                       *)
Sums(c, lots) ==
  /\ c \in [0..Len(lots) -> Nat] /\ c[0] = 0
  /\ \A i \in 1..Len(lots) : c[i] = c[i - 1] + lots[i].qty

(* Every list of lots has its running quantities.                          *)
LEMMA SumsExist == ASSUME NEW lots \in Seq(Lot) PROVE \E c : Sums(c, lots)
<1> PICK n \in Nat : n = Len(lots)
  OBVIOUS
<1>1. \A i \in 1..n : lots[i].qty \in Nat
  <2>1. \A i \in 1..n : lots[i] \in Lot
    OBVIOUS
  <2> QED BY <2>1 DEF Lot
<1> DEFINE step == [p \in Nat \X (1..n) |-> p[1] + lots[p[2]].qty]
<1>2. step \in [Nat \X (1..n) -> Nat]
  <2> SUFFICES ASSUME NEW x \in Nat, NEW i \in 1..n PROVE x + lots[i].qty \in Nat
    OBVIOUS
  <2> PICK y \in Nat : y = lots[i].qty
    BY <1>1
  <2> QED OBVIOUS
<1>3. PICK c : Climbs(c, step, 0, n, Nat)
  <2> PICK st : st = step
    OBVIOUS
  <2> HIDE DEF step
  <2>1. st \in [Nat \X (1..n) -> Nat] /\ 0 \in Nat
    BY <1>2
  <2>2. \E c : Climbs(c, st, 0, n, Nat)
    BY <2>1, Recursion
  <2> QED BY <2>2
<1>4. c \in [0..n -> Nat] /\ c[0] = 0 /\ \A i \in 1..n : c[i] = step[<<c[i - 1], i>>]
  BY <1>3 DEF Climbs
<1>5. \A i \in 1..n : c[i] = c[i - 1] + lots[i].qty
  <2> TAKE i \in 1..n
  <2>1. c[i - 1] \in Nat
    <3>1. i - 1 \in 0..n
      OBVIOUS
    <3> QED BY <3>1, <1>4
  <2> QED BY <2>1, <1>4
<1> QED BY <1>4, <1>5 DEF Sums

(* They never fall.                                                        *)
LEMMA SumsRise ==
  ASSUME NEW lots \in Seq(Lot), NEW c, Sums(c, lots), NEW i \in 0..Len(lots)
  PROVE  \A j \in 0..Len(lots) : i <= j => c[i] <= c[j]
<1> PICK n \in Nat : n = Len(lots)
  OBVIOUS
<1>1. c \in [0..n -> Nat] /\ \A k \in 1..n : c[k] = c[k - 1] + lots[k].qty
  BY DEF Sums
<1> DEFINE P == {j \in 0..n : i <= j => c[i] <= c[j]}
<1>2. 0 \in P
  BY <1>1
<1>3. ASSUME NEW j \in 1..n, j - 1 \in P PROVE j \in P
  <2>0. lots[j] \in Lot
    OBVIOUS
  <2> PICK q \in Nat : q = lots[j].qty
    BY <2>0 DEF Lot
  <2>1. c[j] = c[j - 1] + q /\ c[j - 1] \in Nat /\ c[j] \in Nat
    BY <1>1
  <2>2. c[i] \in Nat
    BY <1>1
  <2>3. i = j \/ i <= j - 1 \/ ~(i <= j)
    OBVIOUS
  <2>4. i <= j - 1 => c[i] <= c[j - 1]
    BY <1>3
  <2> QED BY <2>1, <2>2, <2>3, <2>4
<1>4. \A j \in 0..n : j \in P
  <2> PICK Q : Q = P
    OBVIOUS
  <2> HIDE DEF P
  <2>1. 0 \in Q /\ \A k \in 1..n : k - 1 \in Q => k \in Q
    BY <1>2, <1>3
  <2>2. \A k \in 0..n : k \in Q
    BY <2>1, Climbing
  <2> QED BY <2>2
<1> QED BY <1>4

(* What of the first m lots is left, when j is the first lot that is not    *)
(* used up.                                                                *)
LeftOf(s, lots, c, q, j, m) ==
  /\ Len(s) = m + 1 - j
  /\ \A i \in 1..(m + 1 - j) :
       s[i] = IF i = 1 THEN [lots[j] EXCEPT !.qty = c[j] - q] ELSE lots[j + i - 1]

FirstLeft(c, q, j, m) ==
  /\ j \in 1..(m + 1) /\ c[j - 1] <= q
  /\ j <= m => q < c[j]

(* A sale takes the oldest units: lots are used up in their order, and one  *)
(* of them may be left in part.                                            *)
LEMMA ConsumeIs ==
  ASSUME NEW lots \in Seq(Lot), NEW q \in Nat, NEW c, Sums(c, lots)
  PROVE  \E j : /\ FirstLeft(c, q, j, Len(lots))
                /\ LeftOf(Consume(lots, q).lots, lots, c, q, j, Len(lots))
<1> PICK n \in Nat : n = Len(lots)
  OBVIOUS
<1>1. PICK a : /\ a[0] = [left |-> q, lots |-> <<>>, taken |-> {}]
               /\ \A k \in 1..n : a[k] = TakeFrom(a[k - 1], lots[k])
               /\ Consume(lots, q) = a[n]
  BY ConsumeSteps
<1>2. c \in [0..n -> Nat] /\ c[0] = 0 /\ \A k \in 1..n : c[k] = c[k - 1] + lots[k].qty
  BY DEF Sums
<1> DEFINE Good(m) == /\ a[m] \in Sale
                      /\ a[m].left = IF c[m] <= q THEN q - c[m] ELSE 0
                      /\ \E j : FirstLeft(c, q, j, m) /\ LeftOf(a[m].lots, lots, c, q, j, m)
           P == {m \in 0..n : Good(m)}
<1>3. 0 \in P
  <2>1. a[0] \in Sale /\ a[0].left = q /\ a[0].lots = <<>>
    BY <1>1 DEF Sale
  <2>2. FirstLeft(c, q, 1, 0)
    BY <1>2 DEF FirstLeft
  <2>3. LeftOf(<<>>, lots, c, q, 1, 0)
    BY DEF LeftOf
  <2> QED BY <1>2, <2>1, <2>2, <2>3
<1>4. ASSUME NEW m \in 1..n, m - 1 \in P PROVE m \in P
  <2> PICK acc : acc = a[m - 1]
    OBVIOUS
  <2> PICK lot \in Lot : lot = lots[m]
    OBVIOUS
  <2> PICK r : r = TakeFrom(acc, lot)
    OBVIOUS
  <2> PICK w \in Nat : w = lot.qty /\ w # 0
    BY DEF Lot
  <2> PICK x \in Nat : x = c[m - 1]
    BY <1>2
  <2>1. c[m] = x + w
    BY <1>2
  <2>2. acc \in Sale /\ a[m] = r /\ r \in Sale /\ acc.left = IF x <= q THEN q - x ELSE 0
    BY <1>1, <1>4, TakeFromType
  <2>3. PICK j : FirstLeft(c, q, j, m - 1) /\ LeftOf(acc.lots, lots, c, q, j, m - 1)
    BY <1>4
  <2> PICK s : s = acc.lots
    OBVIOUS
  <2>4. /\ j \in 1..m /\ c[j - 1] <= q /\ (j <= m - 1 => q < c[j])
        /\ Len(s) = m - j /\ s \in Seq(Lot)
        /\ \A i \in 1..(m - j) : s[i] = IF i = 1 THEN [lots[j] EXCEPT !.qty = c[j] - q] ELSE lots[j + i - 1]
    <3>1. /\ j \in 1..(m - 1 + 1) /\ c[j - 1] <= q /\ (j <= m - 1 => q < c[j])
          /\ Len(s) = m - 1 + 1 - j
          /\ \A i \in 1..(m - 1 + 1 - j) : s[i] = IF i = 1 THEN [lots[j] EXCEPT !.qty = c[j] - q] ELSE lots[j + i - 1]
      BY <2>3 DEF FirstLeft, LeftOf
    <3>2. s \in Seq(Lot)
      BY <2>2 DEF Sale
    <3>3. m - 1 + 1 = m /\ \A i \in Int : m - 1 + 1 - i = m - i
      OBVIOUS
    <3>4. j \in 1..m /\ (m - 1 + 1 - j) = m - j
      BY <3>1, <3>3
    <3>5. Len(s) = m - j
      BY <3>1, <3>4
    <3>6. \A i \in 1..(m - j) : s[i] = IF i = 1 THEN [lots[j] EXCEPT !.qty = c[j] - q] ELSE lots[j + i - 1]
      BY <3>1, <3>4
    <3> QED BY <3>1, <3>2, <3>4, <3>5, <3>6
  <2> DEFINE Goal == /\ r.left = IF c[m] <= q THEN q - c[m] ELSE 0
                     /\ \E h : FirstLeft(c, q, h, m) /\ LeftOf(r.lots, lots, c, q, h, m)
  <2>5. CASE acc.left = 0 /\ r = [left |-> 0, lots |-> Append(acc.lots, lot), taken |-> acc.taken]
    <3>1. r.left = 0 /\ r.lots = Append(s, lot)
      BY <2>5
    <3>2. x >= q /\ x + w > q
      BY <2>2, <2>5
    <3>3. CASE j = m
      <4>1. x = q
        BY <2>4, <3>2, <3>3
      <4>2. FirstLeft(c, q, m, m)
        BY <2>1, <2>4, <3>2, <3>3 DEF FirstLeft
      <4>3. [lot EXCEPT !.qty = c[m] - q] = lot
        <5>1. c[m] - q = w
          BY <2>1, <4>1
        <5> QED BY <5>1 DEF Lot
      <4>4. Len(s) = 0 /\ Append(s, lot)[1] = lot /\ Len(Append(s, lot)) = 1
        BY <2>4, <3>3
      <4>5. LeftOf(Append(s, lot), lots, c, q, m, m)
        BY <4>3, <4>4 DEF LeftOf
      <4>6. Goal
        BY <2>1, <3>1, <3>2, <4>2, <4>5
      <4> QED BY <2>2, <4>6
    <3>4. CASE j # m
      <4>1. FirstLeft(c, q, j, m)
        BY <2>4, <3>4 DEF FirstLeft
      <4>2. LeftOf(Append(s, lot), lots, c, q, j, m)
        <5>1. Len(Append(s, lot)) = m + 1 - j
          BY <2>4
        <5>2. ASSUME NEW i \in 1..(m + 1 - j)
              PROVE  Append(s, lot)[i] = IF i = 1 THEN [lots[j] EXCEPT !.qty = c[j] - q] ELSE lots[j + i - 1]
          <6>1. CASE i = m + 1 - j
            <7>1. Append(s, lot)[i] = lot /\ i # 1 /\ j + i - 1 = m
              BY <2>4, <3>4, <6>1, SMTT(20)
            <7> QED BY <7>1
          <6>2. CASE i # m + 1 - j
            <7>1. i \in 1..(m - j) /\ Append(s, lot)[i] = s[i]
              BY <2>4, <6>2
            <7> QED BY <7>1, <2>4
          <6> QED BY <6>1, <6>2
        <5> QED BY <5>1, <5>2 DEF LeftOf
      <4>3. Goal
        BY <2>1, <3>1, <3>2, <4>1, <4>2
      <4> QED BY <2>2, <4>3
    <3> QED BY <3>3, <3>4
  <2>6. CASE /\ 0 < acc.left /\ acc.left < lot.qty
             /\ r = [left |-> 0, lots |-> Append(acc.lots, [lot EXCEPT !.qty = @ - acc.left]),
                     taken |-> acc.taken \cup {[lot EXCEPT !.qty = acc.left]}]
    <3>1. x < q /\ acc.left = q - x /\ x + w > q
      BY <2>2, <2>6
    <3>2. j = m
      <4>1. CASE j <= m - 1
        <5>1. c[j] <= c[m - 1]
          <6>1. j \in 0..n /\ m - 1 \in 0..n
            BY <4>1, <2>4
          <6> QED BY <4>1, <6>1, SumsRise
        <5>2. c[j] \in Nat
          BY <1>2, <4>1, <2>4
        <5> QED BY <2>4, <3>1, <4>1, <5>1, <5>2
      <4> QED BY <2>4, <4>1
    <3> PICK y : y = [lot EXCEPT !.qty = c[m] - q]
      OBVIOUS
    <3>3. r.left = 0 /\ r.lots = Append(s, y)
      <4>1. w - acc.left = c[m] - q
        BY <2>1, <3>1
      <4>2. [lot EXCEPT !.qty = @ - acc.left] = y
        <5>1. [lot EXCEPT !.qty = @ - acc.left] = [lot EXCEPT !.qty = w - acc.left]
          OBVIOUS
        <5> QED BY <4>1, <5>1
      <4> QED BY <2>6, <4>2
    <3>4. FirstLeft(c, q, m, m)
      BY <2>1, <2>4, <3>1, <3>2 DEF FirstLeft
    <3>5. Len(s) = 0 /\ Append(s, y)[1] = y /\ Len(Append(s, y)) = 1
      BY <2>4, <3>2
    <3>6. LeftOf(Append(s, y), lots, c, q, m, m)
      BY <3>5 DEF LeftOf
    <3>7. Goal
      <4>1. r.left = IF c[m] <= q THEN q - c[m] ELSE 0
        BY <2>1, <3>1, <3>3
      <4>2. LeftOf(r.lots, lots, c, q, m, m)
        BY <3>3, <3>6
      <4> QED BY <3>4, <4>1, <4>2
    <3> QED BY <2>2, <3>7
  <2>7. CASE /\ lot.qty <= acc.left
             /\ r = [left |-> acc.left - lot.qty, lots |-> acc.lots, taken |-> acc.taken \cup {lot}]
    <3>1. x < q /\ acc.left = q - x /\ x + w <= q
      BY <2>2, <2>7
    <3>2. j = m
      <4>1. CASE j <= m - 1
        <5>1. c[j] <= c[m - 1]
          <6>1. j \in 0..n /\ m - 1 \in 0..n
            BY <4>1, <2>4
          <6> QED BY <4>1, <6>1, SumsRise
        <5>2. c[j] \in Nat
          BY <1>2, <4>1, <2>4
        <5> QED BY <2>4, <3>1, <4>1, <5>1, <5>2
      <4> QED BY <2>4, <4>1
    <3>3. r.left = q - c[m] /\ r.lots = s
      BY <2>1, <2>7, <3>1
    <3>4. FirstLeft(c, q, m + 1, m)
      BY <2>1, <3>1 DEF FirstLeft
    <3>5. LeftOf(s, lots, c, q, m + 1, m)
      BY <2>4, <3>2 DEF LeftOf
    <3>6. Goal
      BY <2>1, <3>1, <3>3, <3>4, <3>5
    <3> QED BY <2>2, <3>6
  <2> QED BY <2>2, <2>5, <2>6, <2>7, TakeFromCases
<1>5. n \in P
  <2> PICK Q : Q = P
    OBVIOUS
  <2> HIDE DEF P
  <2>1. 0 \in Q /\ \A k \in 1..n : k - 1 \in Q => k \in Q
    BY <1>3, <1>4
  <2>2. \A k \in 0..n : k \in Q
    BY <2>1, Climbing
  <2> QED BY <2>2
<1> QED BY <1>1, <1>5

-----------------------------------------------------------------------------
(* The open quantity *)

NetOf(T) == SumFunction([t \in T |-> Signed(t)])
UpTo(T, t) == {u \in T : u = t \/ Before(u, t)}
Nets(T) == {0} \cup {NetOf(UpTo(T, t)) : t \in T}
IsLow(x, T) == x \in Nets(T) /\ \A y \in Nets(T) : x <= y

(* The open quantity, by the net position and its lowest point.            *)
LEMMA OpenQtyIs == ASSUME NEW T PROVE OpenQty(T) = NetOf(T) - Min(Nets(T))
  BY Zenon DEF OpenQty, NetOf, UpTo, Nets

(* A row moves the net position up or down by its quantity.                *)
LEMMA SignedType ==
  ASSUME NEW t \in Transaction
  PROVE  Signed(t) \in Int /\ Signed(t) = (IF t.side = "BUY" THEN t.qty ELSE 0 - t.qty) /\ t.qty \in Nat \ {0}
  BY DEF Signed, Transaction

(* The net position is a number.                                           *)
LEMMA NetIsInt == ASSUME NEW T, Rows(T) PROVE NetOf(T) \in Int
<1> PICK f : f = [t \in T |-> Signed(t)]
  OBVIOUS
<1>1. IsFiniteSet(T) /\ \A t \in T : f[t] \in Int
  BY SignedType DEF Rows
<1>2. SumFunctionOnSet(f, T) \in Int
  BY <1>1, SumIsInt
<1> QED BY <1>2 DEF NetOf, SumFunction

(* A row adds its signed quantity to the net position.                     *)
LEMMA NetGrows ==
  ASSUME NEW T, Rows(T), NEW t \in Transaction, t \notin T
  PROVE  NetOf(T \cup {t}) = NetOf(T) + Signed(t)
<1> PICK D : D = T \cup {t}
  OBVIOUS
<1> PICK f : f = [u \in T |-> Signed(u)]
  OBVIOUS
<1> PICK g : g = [u \in D |-> Signed(u)]
  OBVIOUS
<1>1. IsFiniteSet(T) /\ \A u \in T : g[u] = f[u] /\ f[u] \in Int
  BY SignedType DEF Rows
<1>2. g[t] = Signed(t) /\ g[t] \in Int
  BY SignedType
<1>3. SumFunctionOnSet(g, T \cup {t}) = SumFunctionOnSet(f, T) + g[t]
  BY <1>1, <1>2, SumGrows
<1> QED BY <1>2, <1>3 DEF NetOf, SumFunction

(* The lowest net position, and the open quantity above it.                *)
LEMMA LowIs ==
  ASSUME NEW T, Rows(T), NEW x, IsLow(x, T)
  PROVE  x \in Int /\ Min(Nets(T)) = x /\ OpenQty(T) = NetOf(T) - x
<1>1. \A y \in Nets(T) : y \in Int
  <2>1. \A t \in T : Rows(UpTo(T, t))
    BY RowsOfSubset DEF UpTo
  <2> QED BY <2>1, NetIsInt DEF Nets
<1> PICK N : N = Nets(T)
  OBVIOUS
<1>2. x \in N /\ \A y \in N : x <= y
  BY DEF IsLow
<1>3. Min(N) = x
  <2>1. Min(N) \in N /\ \A y \in N : Min(N) <= y
    BY <1>2 DEF Min
  <2>2. Min(N) <= x /\ x <= Min(N) /\ x \in Int /\ Min(N) \in Int
    BY <1>1, <1>2, <2>1
  <2> QED BY <2>2
<1> QED BY <1>1, <1>2, <1>3, OpenQtyIs

(* Nothing is open before the first row.                                   *)
LEMMA OpenOfNone == IsLow(0, {}) /\ OpenQty({}) = 0
<1>1. Nets({}) = {0}
  BY DEF Nets
<1>2. IsLow(0, {})
  BY <1>1 DEF IsLow
<1>3. NetOf({}) = 0
  <2>1. \A f : SumFunctionOnSet(f, {}) = 0
    BY SumUnfolds, FS_EmptySet
  <2> QED BY <2>1 DEF NetOf, SumFunction
<1>4. Rows({})
  BY FS_EmptySet DEF Rows
<1> QED BY <1>2, <1>3, <1>4, LowIs

(* What a row does to the open quantity: a purchase adds to it, a sale      *)
(* takes from it what is there.                                            *)
LEMMA OpenStep ==
  ASSUME NEW T, NEW t, t \notin T, Rows(T \cup {t}), \A u \in T : Before(u, t),
         NEW x, IsLow(x, T), OpenQty(T) \in Nat
  PROVE  /\ \E y : IsLow(y, T \cup {t})
         /\ OpenQty(T \cup {t}) =
              IF t.side = "BUY" THEN OpenQty(T) + t.qty
              ELSE IF t.qty <= OpenQty(T) THEN OpenQty(T) - t.qty ELSE 0
<1> PICK D : D = T \cup {t}
  OBVIOUS
<1>1. Rows(T) /\ t \in Transaction
  <2>1. T \in SUBSET D /\ t \in D
    OBVIOUS
  <2> QED BY <2>1, RowsOfSubset DEF Rows
<1>2. ~Before(t, t) /\ \A u \in T : ~Before(t, u)
  BY RowOrder
<1>3. UpTo(D, t) = D /\ \A u \in T : UpTo(D, u) = UpTo(T, u)
  BY <1>2 DEF UpTo
<1>4. Nets(D) = Nets(T) \cup {NetOf(D)}
  BY <1>3 DEF Nets
<1> PICK q \in Nat : q = t.qty /\ q # 0
  BY <1>1, SignedType
<1> PICK s \in Int : s = NetOf(T)
  BY <1>1, NetIsInt
<1>5. x \in Int /\ OpenQty(T) = s - x /\ s - x >= 0
  BY <1>1, LowIs
<1> PICK d : d = NetOf(D)
  OBVIOUS
<1>6. d = IF t.side = "BUY" THEN s + q ELSE s - q
  <2>1. d = s + Signed(t)
    BY <1>1, NetGrows
  <2> QED BY <1>1, <2>1, SignedType
<1>7. d \in Int
  BY <1>6
<1>8. \A y \in Nets(T) : x <= y
  BY DEF IsLow
<1>9. x \in Nets(T)
  BY DEF IsLow
<1>10. CASE x <= d
  <2>1. IsLow(x, D)
    BY <1>4, <1>8, <1>9, <1>10 DEF IsLow
  <2>2. OpenQty(D) = d - x
    BY <2>1, LowIs
  <2>3. t.side = "BUY" => d - x = (s - x) + q
    BY <1>5, <1>6
  <2>4. t.side # "BUY" => d - x = (s - x) - q /\ q <= s - x
    BY <1>5, <1>6, <1>10
  <2> QED BY <1>5, <2>1, <2>2, <2>3, <2>4
<1>11. CASE ~(x <= d)
  <2>1. \A y \in Nets(T) : y \in Int
    <3>1. \A u \in T : Rows(UpTo(T, u))
      BY <1>1, RowsOfSubset DEF UpTo
    <3> QED BY <3>1, NetIsInt DEF Nets
  <2>2. IsLow(d, D)
    <3>1. \A y \in Nets(T) : d <= y
      BY <1>5, <1>7, <1>8, <1>11, <2>1
    <3>2. d <= d
      BY <1>7
    <3> QED BY <1>4, <3>1, <3>2 DEF IsLow
  <2>3. OpenQty(D) = 0
    <3>1. OpenQty(D) = d - d
      BY <2>2, LowIs
    <3> QED BY <1>7, <3>1
  <2>4. t.side # "BUY" /\ ~(q <= s - x)
    BY <1>5, <1>6, <1>11
  <2> QED BY <1>5, <2>2, <2>3, <2>4
<1> QED BY <1>10, <1>11

-----------------------------------------------------------------------------
(* The latest purchases *)

Buys(T) == {t \in T : t.side = "BUY"}
LaterQty(T, b) == QtyOf({u \in Buys(T) : Before(b, u)})

(* The quantity of a set of rows is a number.                              *)
LEMMA QtyOfRows ==
  ASSUME NEW T, Rows(T) PROVE QtyOf(T) \in Nat
<1> PICK f : f = [l \in T |-> l.qty]
  OBVIOUS
<1>1. DOMAIN f = T /\ IsFiniteSet(T) /\ \A l \in T : f[l] \in Nat
  BY DEF Rows, Transaction
<1>2. SumFunctionOnSet(f, T) \in Nat
  BY <1>1, SumIsNat
<1> QED BY <1>1, <1>2 DEF QtyOf, SumFunction

(* A row adds its quantity.                                                *)
LEMMA QtyGrows ==
  ASSUME NEW T, Rows(T), NEW t \in Transaction, t \notin T
  PROVE  QtyOf(T \cup {t}) = QtyOf(T) + t.qty
<1> PICK D : D = T \cup {t}
  OBVIOUS
<1> PICK f : f = [u \in T |-> u.qty]
  OBVIOUS
<1> PICK g : g = [u \in D |-> u.qty]
  OBVIOUS
<1>1. IsFiniteSet(T) /\ \A u \in T : g[u] = f[u] /\ f[u] \in Int
  BY DEF Rows, Transaction
<1>2. g[t] = t.qty /\ g[t] \in Int
  BY DEF Transaction
<1>3. SumFunctionOnSet(g, T \cup {t}) = SumFunctionOnSet(f, T) + g[t]
  BY <1>1, <1>2, SumGrows
<1> QED BY <1>2, <1>3 DEF QtyOf, SumFunction

(* The quantity bought later is a number.                                  *)
LEMMA LaterType ==
  ASSUME NEW T, Rows(T), NEW b PROVE LaterQty(T, b) \in Nat
<1>1. Rows({u \in Buys(T) : Before(b, u)})
  BY RowsOfSubset DEF Buys
<1> QED BY <1>1, QtyOfRows DEF LaterQty

(* A row at the end of the stream.                                         *)
LEMMA LaterStep ==
  ASSUME NEW T, NEW t, t \notin T, Rows(T \cup {t}), \A u \in T : Before(u, t)
  PROVE  /\ Buys(T \cup {t}) = IF t.side = "BUY" THEN Buys(T) \cup {t} ELSE Buys(T)
         /\ \A b \in Buys(T) : LaterQty(T \cup {t}, b) =
              IF t.side = "BUY" THEN LaterQty(T, b) + t.qty ELSE LaterQty(T, b)
         /\ LaterQty(T \cup {t}, t) = 0
<1> PICK D : D = T \cup {t}
  OBVIOUS
<1>1. Rows(T) /\ t \in Transaction
  <2>1. T \in SUBSET D /\ t \in D
    OBVIOUS
  <2> QED BY <2>1, RowsOfSubset DEF Rows
<1>2. Buys(D) = IF t.side = "BUY" THEN Buys(T) \cup {t} ELSE Buys(T)
  BY DEF Buys
<1>3. ASSUME NEW b \in Buys(T)
      PROVE  LaterQty(D, b) = IF t.side = "BUY" THEN LaterQty(T, b) + t.qty ELSE LaterQty(T, b)
  <2> PICK L : L = {u \in Buys(T) : Before(b, u)}
    OBVIOUS
  <2>1. CASE t.side = "BUY"
    <3>1. {u \in Buys(D) : Before(b, u)} = L \cup {t}
      BY <1>2, <2>1 DEF Buys
    <3>2. Rows(L) /\ t \notin L
      BY <1>1, RowsOfSubset DEF Buys
    <3>3. QtyOf(L \cup {t}) = QtyOf(L) + t.qty
      BY <1>1, <3>2, QtyGrows
    <3> QED BY <2>1, <3>1, <3>3 DEF LaterQty
  <2>2. CASE t.side # "BUY"
    BY <1>2, <2>2 DEF LaterQty
  <2> QED BY <2>1, <2>2
<1>4. LaterQty(D, t) = 0
  <2>1. {u \in Buys(D) : Before(t, u)} = {}
    BY RowOrder DEF Buys
  <2> QED BY <2>1, NoEvents DEF LaterQty
<1> QED BY <1>2, <1>3, <1>4

-----------------------------------------------------------------------------
(* The lot is what is left of the purchase b; only the first is in part.   *)
IsPart(lots, i, b, c, T) ==
  /\ lots[i].id = b.id /\ lots[i].price = b.price
  /\ lots[i].qty <= b.qty /\ (i # 1 => lots[i].qty = b.qty)
  /\ LaterQty(T, b) = c[Len(lots)] - c[i]

(* The lots are the latest purchases of the rows T, as many units as T     *)
(* leaves open.                                                            *)
LatestBy(lots, c, T) ==
  /\ lots \in Seq(Lot) /\ Sums(c, lots)
  /\ c[Len(lots)] = OpenQty(T)
  /\ \A i \in 1..Len(lots) : \E b \in Buys(T) : IsPart(lots, i, b, c, T)
  /\ \A b \in Buys(T) : \/ \E i \in 1..Len(lots) : lots[i].id = b.id
                        \/ LaterQty(T, b) >= c[Len(lots)]
Latest(lots, T) == \E c : LatestBy(lots, c, T)

(* The empty list holds the latest of no purchases.                        *)
LEMMA LatestOfNone == Latest(<<>>, {})
<1> PICK c : c = [i \in 0..0 |-> 0]
  OBVIOUS
<1>1. Sums(c, <<>>)
  BY DEF Sums
<1>2. Buys({}) = {} /\ c[0] = 0 /\ Len(<<>>) = 0 /\ <<>> \in Seq(Lot)
  BY DEF Buys
<1> QED BY <1>1, <1>2, OpenOfNone DEF LatestBy, Latest

(* A purchase is the latest of all.                                        *)
LEMMA LatestBuy ==
  ASSUME NEW T, NEW t, t \notin T, Rows(T \cup {t}), \A u \in T : Before(u, t),
         NEW low, IsLow(low, T), NEW lots, Latest(lots, T), t.side = "BUY"
  PROVE  Latest(Append(lots, [id |-> t.id, qty |-> t.qty, price |-> t.price]), T \cup {t})
<1> PICK D : D = T \cup {t}
  OBVIOUS
<1>1. Rows(T) /\ t \in Transaction
  <2>1. T \in SUBSET D /\ t \in D
    OBVIOUS
  <2> QED BY <2>1, RowsOfSubset DEF Rows
<1>2. PICK c : LatestBy(lots, c, T)
  BY DEF Latest
<1> PICK n \in Nat : n = Len(lots)
  BY <1>2 DEF LatestBy
<1> PICK x : x = [id |-> t.id, qty |-> t.qty, price |-> t.price]
  OBVIOUS
<1> PICK q \in Nat : q = t.qty
  BY <1>1 DEF Transaction
<1> PICK s : s = Append(lots, x)
  OBVIOUS
<1>3. x \in Lot /\ x.id = t.id /\ x.qty = q /\ x.price = t.price
  BY <1>1 DEF Lot, Transaction
<1>4. /\ lots \in Seq(Lot) /\ c \in [0..n -> Nat] /\ c[0] = 0
      /\ \A i \in 1..n : c[i] = c[i - 1] + lots[i].qty
      /\ c[n] = OpenQty(T)
  BY <1>2 DEF LatestBy, Sums
<1>5. s \in Seq(Lot) /\ Len(s) = n + 1 /\ s[n + 1] = x /\ \A i \in 1..n : s[i] = lots[i]
  BY <1>3, <1>4
<1> DEFINE d == [i \in 0..(n + 1) |-> IF i = n + 1 THEN c[n] + q ELSE c[i]]
<1>6. d[n + 1] = c[n] + q /\ \A i \in 0..n : d[i] = c[i]
  OBVIOUS
<1>7. Sums(d, s)
  <2>1. d \in [0..(n + 1) -> Nat]
    BY <1>4
  <2>2. d[0] = 0
    BY <1>4, <1>6
  <2>3. \A i \in 1..(n + 1) : d[i] = d[i - 1] + s[i].qty
    <3> TAKE i \in 1..(n + 1)
    <3>1. CASE i = n + 1
      <4>1. d[i - 1] = c[n] /\ d[i] = c[n] + q /\ s[i].qty = q
        BY <1>3, <1>5, <1>6, <3>1
      <4> QED BY <4>1
    <3>2. CASE i # n + 1
      <4>1. i \in 1..n /\ i - 1 \in 0..n
        BY <3>2
      <4>2. d[i] = c[i] /\ d[i - 1] = c[i - 1] /\ s[i] = lots[i]
        BY <1>5, <1>6, <4>1
      <4> QED BY <1>4, <4>1, <4>2
    <3> QED BY <3>1, <3>2
  <2> HIDE DEF d
  <2> QED BY <1>5, <2>1, <2>2, <2>3 DEF Sums
<1> HIDE DEF d
<1>8. OpenQty(T) \in Nat /\ OpenQty(D) = OpenQty(T) + q
  <2>1. OpenQty(T) \in Nat
    BY <1>4
  <2> QED BY <2>1, OpenStep
<1>9. d[Len(s)] = OpenQty(D)
  BY <1>4, <1>5, <1>6, <1>8
<1>10. Buys(D) = Buys(T) \cup {t} /\ LaterQty(D, t) = 0 /\ \A b \in Buys(T) : LaterQty(D, b) = LaterQty(T, b) + q
  BY LaterStep
<1>11. \A b \in Buys(T) : LaterQty(T, b) \in Nat
  BY <1>1, LaterType
<1>12. ASSUME NEW i \in 1..(n + 1) PROVE \E b \in Buys(D) : IsPart(s, i, b, d, D)
  <2>1. CASE i = n + 1
    <3>0. t \in Buys(D)
      BY <1>10
    <3>1. d[Len(s)] - d[i] = 0
      <4> PICK z \in Nat : z = c[n]
        BY <1>4
      <4>1. d[Len(s)] = z + q /\ d[i] = z + q
        BY <1>5, <1>6, <2>1
      <4> QED BY <4>1
    <3>2. s[i].qty <= t.qty /\ s[i].qty = t.qty
      BY <1>3, <1>5, <2>1
    <3>3. IsPart(s, i, t, d, D)
      BY <1>3, <1>5, <1>10, <2>1, <3>1, <3>2 DEF IsPart
    <3> QED BY <3>0, <3>3
  <2>2. CASE i # n + 1
    <3>1. i \in 1..n
      BY <2>2
    <3>2. PICK b \in Buys(T) : IsPart(lots, i, b, c, T)
      BY <1>2, <3>1 DEF LatestBy
    <3>3. LaterQty(T, b) = c[n] - c[i] /\ c[i] \in Nat /\ c[n] \in Nat
      BY <1>4, <3>1, <3>2 DEF IsPart
    <3>4. LaterQty(D, b) = d[n + 1] - d[i]
      <4> PICK y \in Nat : y = c[i]
        BY <3>3
      <4> PICK z \in Nat : z = c[n]
        BY <3>3
      <4>1. d[i] = y /\ d[n + 1] = z + q
        BY <1>6, <3>1
      <4> PICK w \in Nat : w = LaterQty(T, b)
        BY <1>11
      <4>2. w = z - y
        BY <3>3
      <4>3. LaterQty(D, b) = w + q
        BY <1>10
      <4>4. w + q = (z + q) - y
        BY ONLY <4>2, w \in Nat, z \in Nat, y \in Nat, q \in Nat
      <4> QED BY ONLY <4>1, <4>3, <4>4
    <3>5. s[i] = lots[i]
      BY <1>5, <3>1
    <3>6. IsPart(s, i, b, d, D)
      BY <1>5, <3>2, <3>4, <3>5 DEF IsPart
    <3> QED BY <1>10, <3>6
  <2> QED BY <2>1, <2>2
<1>13. ASSUME NEW b \in Buys(D), \A i \in 1..(n + 1) : s[i].id # b.id
       PROVE  LaterQty(D, b) >= d[n + 1]
  <2>1. b # t
    <3>1. n + 1 \in 1..(n + 1)
      OBVIOUS
    <3> QED BY <1>3, <1>5, <1>13, <3>1
  <2>2. b \in Buys(T) /\ \A i \in 1..n : lots[i].id # b.id
    <3>1. \A i \in 1..n : i \in 1..(n + 1)
      OBVIOUS
    <3> QED BY <1>5, <1>10, <1>13, <2>1, <3>1
  <2>3. LaterQty(T, b) >= c[n]
    BY <1>2, <2>2 DEF LatestBy
  <2>4. c[n] \in Nat
    BY <1>4
  <2> PICK z \in Nat : z = c[n]
    BY <2>4
  <2> PICK w \in Nat : w = LaterQty(T, b)
    BY <1>11, <2>2
  <2>5. w >= z /\ LaterQty(D, b) = w + q /\ d[n + 1] = z + q
    BY <1>6, <1>10, <2>2, <2>3
  <2> QED BY <2>5
<1>14. LatestBy(s, d, D)
  BY <1>5, <1>7, <1>9, <1>12, <1>13 DEF LatestBy
<1> QED BY <1>14 DEF Latest

(* A sale takes the oldest lots and leaves the latest purchases.           *)
LEMMA LatestSell ==
  ASSUME NEW T, NEW t, t \notin T, Rows(T \cup {t}), \A u \in T : Before(u, t),
         NEW low, IsLow(low, T), NEW lots, Latest(lots, T), t.side # "BUY"
  PROVE  Latest(Consume(lots, t.qty).lots, T \cup {t})
<1> PICK D : D = T \cup {t}
  OBVIOUS
<1>1. Rows(T) /\ t \in Transaction
  <2>1. T \in SUBSET D /\ t \in D
    OBVIOUS
  <2> QED BY <2>1, RowsOfSubset DEF Rows
<1>2. PICK c : LatestBy(lots, c, T)
  BY DEF Latest
<1> PICK n \in Nat : n = Len(lots)
  BY <1>2 DEF LatestBy
<1> PICK q \in Nat : q = t.qty
  BY <1>1 DEF Transaction
<1> PICK r : r = Consume(lots, q).lots
  OBVIOUS
<1>3. /\ lots \in Seq(Lot) /\ Sums(c, lots) /\ c \in [0..n -> Nat] /\ c[0] = 0
      /\ \A i \in 1..n : c[i] = c[i - 1] + lots[i].qty
      /\ c[n] = OpenQty(T)
  BY <1>2 DEF LatestBy, Sums
<1>4. PICK j : FirstLeft(c, q, j, n) /\ LeftOf(r, lots, c, q, j, n)
  BY <1>3, ConsumeIs
<1>5. j \in 1..(n + 1) /\ c[j - 1] <= q /\ (j <= n => q < c[j])
  BY <1>4 DEF FirstLeft
<1> PICK m \in Nat : m = n + 1 - j
  BY <1>5
<1>6. /\ Len(r) = m
      /\ \A i \in 1..m : r[i] = IF i = 1 THEN [lots[j] EXCEPT !.qty = c[j] - q] ELSE lots[j + i - 1]
  BY <1>4 DEF LeftOf
<1>7. r \in Seq(Lot)
  <2>1. Consume(lots, q) \in Sale
    BY <1>3, ConsumeKeeps
  <2> QED BY <2>1 DEF Sale
<1>8. \A i \in 1..m : j + i - 1 \in 1..n /\ j <= j + i - 1
  BY <1>5
<1>9. \A i \in 1..m : c[j + i - 1] \in Nat /\ c[j + i - 1] > q
  <2> TAKE i \in 1..m
  <2> PICK h \in 1..n : h = j + i - 1 /\ j <= h
    BY <1>8
  <2>1. j \in 0..n /\ h \in 0..n /\ j <= n
    BY <1>5
  <2>2. c[j] <= c[h]
    BY <1>3, <2>1, SumsRise
  <2>3. c[j] \in Nat /\ c[h] \in Nat
    BY <1>3, <2>1
  <2> QED BY <1>5, <2>1, <2>2, <2>3
<1> DEFINE d == [i \in 0..m |-> IF i = 0 THEN 0 ELSE c[j + i - 1] - q]
<1>10. d \in [0..m -> Nat] /\ d[0] = 0 /\ \A i \in 1..m : d[i] = c[j + i - 1] - q /\ d[i] \in Nat
  <2>1. \A i \in 1..m : c[j + i - 1] - q \in Nat
    BY <1>9
  <2> QED BY <2>1
<1> HIDE DEF d
<1>11. ASSUME NEW i \in 1..m, i # 1
       PROVE  r[i] = lots[j + i - 1] /\ d[i] = d[i - 1] + r[i].qty
  <2> PICK h \in 1..n : h = j + i - 1
    BY <1>8
  <2>1. r[i] = lots[h]
    BY <1>6, <1>11
  <2>2. h - 1 = j + (i - 1) - 1 /\ i - 1 \in 1..m
    BY <1>5, <1>11
  <2>3. d[i] = c[h] - q /\ d[i - 1] = c[h - 1] - q
    BY <1>10, <2>2
  <2>4. c[h] \in Nat /\ c[h - 1] \in Nat
    BY <1>9, <2>2
  <2> PICK w \in Nat : w = lots[h].qty
    <3>1. lots[h] \in Lot
      BY <1>3
    <3> QED BY <3>1 DEF Lot
  <2> PICK x \in Nat : x = c[h]
    BY <2>4
  <2> PICK y \in Nat : y = c[h - 1]
    BY <2>4
  <2>5. x = y + w
    BY <1>3
  <2>6. x - q = (y - q) + w
    BY <2>5
  <2> QED BY <2>1, <2>3, <2>6
<1>12. ASSUME 1 \in 1..m
       PROVE  /\ j \in 1..n /\ r[1].qty = c[j] - q /\ d[1] = c[j] - q
              /\ r[1].id = lots[j].id /\ r[1].price = lots[j].price /\ r[1].qty <= lots[j].qty
  <2> PICK k \in 1..n : k = j
    BY <1>5, <1>12
  <2>1. r[1] = [lots[k] EXCEPT !.qty = c[k] - q] /\ lots[k] \in Lot
    <3>1. r[1] = IF 1 = 1 THEN [lots[j] EXCEPT !.qty = c[j] - q] ELSE lots[j + 1 - 1]
      BY ONLY <1>6, <1>12
    <3>2. lots[k] \in Lot
      BY <1>3
    <3> QED BY ONLY <3>1, <3>2, k = j
  <2>2. d[1] = c[k] - q
    BY <1>10, <1>12
  <2>3. r[1].qty = c[k] - q /\ r[1].id = lots[k].id /\ r[1].price = lots[k].price
    <3> PICK l \in Lot : l = lots[k]
      BY <2>1
    <3>1. r[1] = [l EXCEPT !.qty = c[k] - q]
      BY <2>1
    <3> QED BY <3>1 DEF Lot
  <2>4. c[k] = c[k - 1] + lots[k].qty /\ c[k] \in Nat /\ c[k - 1] \in Nat /\ c[k - 1] <= q
    <3>1. k \in 0..n /\ k - 1 \in 0..n
      BY ONLY k \in 1..n, n \in Nat
    <3>2. c[k] = c[k - 1] + lots[k].qty
      BY ONLY <1>3, k \in 1..n
    <3>3. c[k] \in Nat /\ c[k - 1] \in Nat
      BY ONLY <1>3, <3>1
    <3>4. c[k - 1] <= q
      BY ONLY <1>5, k = j
    <3> QED BY ONLY <3>2, <3>3, <3>4
  <2> PICK w \in Nat : w = lots[k].qty
    BY <2>1 DEF Lot
  <2>5. c[k] - q <= w
    BY <2>4
  <2> QED BY <2>2, <2>3, <2>5
<1>13. Sums(d, r)
  <2>1. ASSUME NEW i \in 1..m PROVE d[i] = d[i - 1] + r[i].qty
    <3>1. CASE i = 1
      <4>1. d[1] = r[1].qty /\ d[0] = 0 /\ d[1] \in Nat
        BY <1>10, <1>12, <3>1
      <4> QED BY <3>1, <4>1
    <3> QED BY <1>11, <3>1
  <2> QED BY <1>6, <1>10, <2>1 DEF Sums
<1> PICK z \in Nat : z = c[n]
  BY <1>3
<1>14. OpenQty(D) = IF q <= z THEN z - q ELSE 0
  <2>1. OpenQty(T) = z
    BY <1>3
  <2> QED BY <2>1, OpenStep
<1>15. IF m = 0 THEN d[m] = 0 /\ z <= q ELSE d[m] = z - q /\ q < z
  <2>1. CASE m = 0
    <3>1. j - 1 = n
      BY <1>5, <2>1
    <3> QED BY <1>5, <1>10, <2>1, <3>1
  <2>2. CASE m # 0
    <3>1. m \in 1..m /\ j + m - 1 = n
      BY <1>5, <2>2
    <3> QED BY <1>9, <1>10, <2>2, <3>1
  <2> QED BY <2>1, <2>2
<1>16. d[m] = OpenQty(D)
  BY <1>14, <1>15
<1>17. Buys(D) = Buys(T) /\ \A b \in Buys(T) : LaterQty(D, b) = LaterQty(T, b)
  BY LaterStep, ZenonT(40)
<1>18. ASSUME NEW i \in 1..m PROVE \E b \in Buys(D) : IsPart(r, i, b, d, D)
  <2> PICK h \in 1..n : h = j + i - 1
    BY <1>8
  <2>1. PICK b \in Buys(T) : IsPart(lots, h, b, c, T)
    BY <1>2 DEF LatestBy
  <2>2. /\ lots[h].id = b.id /\ lots[h].price = b.price
        /\ lots[h].qty <= b.qty /\ (h # 1 => lots[h].qty = b.qty)
        /\ LaterQty(T, b) = z - c[h]
    BY <2>1 DEF IsPart
  <2>3. LaterQty(D, b) = d[Len(r)] - d[i]
    <3>1. d[m] = z - q /\ d[i] = c[h] - q /\ c[h] \in Nat
      BY <1>9, <1>10, <1>15
    <3>2. z - c[h] = (z - q) - (c[h] - q)
      BY <3>1
    <3> QED BY <1>6, <1>17, <2>2, <3>1, <3>2
  <2>4. CASE i = 1
    <3>1. h = j /\ r[1].id = b.id /\ r[1].price = b.price /\ r[1].qty <= lots[h].qty
      BY <1>12, <2>2, <2>4
    <3>2. lots[h] \in Lot /\ r[1] \in Lot /\ b \in Transaction
      BY <1>1, <1>3, <1>6, <1>7, <2>4 DEF Rows, Buys
    <3> PICK w1 \in Nat : w1 = r[1].qty
      BY <3>2 DEF Lot
    <3> PICK w2 \in Nat : w2 = lots[h].qty
      BY <3>2 DEF Lot
    <3> PICK w3 \in Nat : w3 = b.qty
      BY <3>2 DEF Transaction
    <3>3. r[1].qty <= b.qty
      BY <2>2, <3>1
    <3>4. IsPart(r, i, b, d, D)
      BY <2>3, <2>4, <3>1, <3>3 DEF IsPart
    <3> QED BY <1>17, <3>4
  <2>5. CASE i # 1
    <3>1. h # 1 /\ r[i] = lots[h]
      BY <1>5, <1>11, <2>5
    <3>2. IsPart(r, i, b, d, D)
      BY <2>2, <2>3, <3>1 DEF IsPart
    <3> QED BY <1>17, <3>2
  <2> QED BY <2>4, <2>5
<1>19. ASSUME NEW b \in Buys(D), \A i \in 1..m : r[i].id # b.id
       PROVE  LaterQty(D, b) >= d[m]
  <2>0. b \in Buys(T) /\ LaterQty(D, b) = LaterQty(T, b)
    BY <1>17
  <2> PICK w \in Nat : w = LaterQty(D, b)
    BY <1>1, <2>0, LaterType
  <2>1. CASE \A i \in 1..n : lots[i].id # b.id
    <3>1. LaterQty(T, b) >= z
      BY <1>2, <2>0, <2>1 DEF LatestBy
    <3>2. w >= z
      BY <2>0, <3>1
    <3> QED BY <1>15, <3>2
  <2>2. ASSUME NEW i \in 1..n, lots[i].id = b.id PROVE LaterQty(D, b) >= d[m]
    <3>1. i < j
      <4> SUFFICES ASSUME j <= i PROVE FALSE
        BY <1>5
      <4> PICK h \in 1..m : h = i + 1 - j
        BY <1>5
      <4>1. r[h].id = lots[i].id
        <5>1. CASE h = 1
          <6>1. i = j
            BY <1>5, <5>1
          <6> QED BY <1>12, <5>1, <6>1
        <5>2. CASE h # 1
          <6>1. j + h - 1 = i
            BY <1>5
          <6> QED BY <1>11, <5>2, <6>1
        <5> QED BY <5>1, <5>2
      <4> QED BY <1>19, <2>2, <4>1
    <3>2. PICK u \in Buys(T) : IsPart(lots, i, u, c, T)
      BY <1>2 DEF LatestBy
    <3>3. u.id = b.id /\ LaterQty(T, u) = z - c[i]
      BY <2>2, <3>2 DEF IsPart
    <3>4. u = b
      BY <1>1, <2>0, <3>3 DEF Rows, Buys
    <3>5. w = z - c[i]
      BY <2>0, <3>3, <3>4
    <3>6. c[i] <= c[j - 1] /\ c[i] \in Nat /\ c[j - 1] \in Nat
      <4>1. i \in 0..n /\ j - 1 \in 0..n /\ i <= j - 1
        BY <1>5, <3>1
      <4> QED BY <1>3, <4>1, SumsRise
    <3>7. w >= z - q
      BY <1>5, <3>5, <3>6, SMTT(20)
    <3> QED BY <1>15, <3>7
  <2> QED BY <2>1, <2>2
<1>20. LatestBy(r, d, D)
  BY <1>6, <1>7, <1>13, <1>16, <1>18, <1>19 DEF LatestBy
<1> QED BY <1>20 DEF Latest

(* The open lots of every key are its latest purchases.                    *)
LEMMA LotsAreLatest ==
  ASSUME NEW R, Rows(R), NEW k \in Keys
  PROVE  Latest(Fifo(R)[k].lots, {t \in R : KeyOf(t) = k})
<1> PICK n \in Nat : n = Cardinality(R)
  BY StreamIsSorted
<1> PICK S : S = Stream(R)
  OBVIOUS
<1>1. /\ \A i \in 1..n : S[i] \in R /\ S[i] \in Transaction
      /\ \A t \in R : \E i \in 1..n : S[i] = t
      /\ \A i \in 1..n : \A j \in 1..n : i < j => Before(S[i], S[j])
  BY StreamIsSorted DEF Rows
<1>2. PICK a : /\ a[0] = [h \in Keys |-> EmptyBook]
               /\ \A m \in 1..n : a[m] = Booked(a[m - 1], S[m])
               /\ Fifo(R) = a[n]
  BY FifoSteps
<1> DEFINE T(m) == {t \in R : KeyOf(t) = k /\ \E i \in 1..m : S[i] = t}
           P == {m \in 0..n : /\ a[m] \in [Keys -> Book]
                              /\ Latest(a[m][k].lots, T(m))
                              /\ \E low : IsLow(low, T(m))}
<1>3. 0 \in P
  <2>1. T(0) = {}
    OBVIOUS
  <2>2. a[0] \in [Keys -> Book] /\ a[0][k].lots = <<>>
    BY <1>2, EmptyBookType DEF EmptyBook
  <2> HIDE DEF T
  <2> QED BY <2>1, <2>2, LatestOfNone, OpenOfNone, SMTT(20)
<1>4. ASSUME NEW m \in 1..n, m - 1 \in P PROVE m \in P
  <2> PICK t : t = S[m]
    OBVIOUS
  <2> PICK b : b = a[m - 1]
    OBVIOUS
  <2> PICK A : A = T(m - 1)
    OBVIOUS
  <2> PICK h \in Keys : h = KeyOf(t)
    BY <1>1, KeyOfType
  <2>1. t \in R /\ t \in Transaction /\ a[m] = Booked(b, t)
    BY <1>1, <1>2
  <2>2. b \in [Keys -> Book] /\ Latest(b[k].lots, A)
    BY <1>4
  <2>3. PICK low : IsLow(low, A)
    BY <1>4
  <2>4. a[m] \in [Keys -> Book] /\ a[m][k] = IF k = h THEN (IF t.side = "BUY" THEN Bought(b[h], t) ELSE Sold(b[h], t)) ELSE b[k]
    BY <2>1, <2>2, BookedType DEF Booked
  <2>5. CASE h # k
    <3>1. T(m) = A
      <4>1. \A i \in 1..m : i = m \/ i \in 1..(m - 1)
        OBVIOUS
      <4>2. \A i \in 1..(m - 1) : i \in 1..m
        OBVIOUS
      <4> QED BY <2>5, <4>1, <4>2
    <3> HIDE DEF T
    <3> QED BY <2>2, <2>3, <2>4, <2>5, <3>1
  <2>6. CASE h = k
    <3>1. T(m) = A \cup {t}
      <4>1. \A i \in 1..m : i = m \/ i \in 1..(m - 1)
        OBVIOUS
      <4>2. \A i \in 1..(m - 1) : i \in 1..m
        OBVIOUS
      <4>3. m \in 1..m
        OBVIOUS
      <4> QED BY <2>1, <2>6, <4>1, <4>2, <4>3
    <3>2. \A u \in A : Before(u, t)
      <4> TAKE u \in A
      <4>1. PICK i \in 1..(m - 1) : S[i] = u
        OBVIOUS
      <4>2. i \in 1..n /\ i < m
        OBVIOUS
      <4> QED BY <1>1, <4>1, <4>2
    <3>3. t \notin A
      BY <2>1, <3>2, RowOrder
    <3>4. A \cup {t} \in SUBSET R
      BY <2>1
    <3>5. Rows(A \cup {t}) /\ Rows(A)
      <4>1. A \in SUBSET R
        BY <3>4
      <4> QED BY <3>4, <4>1, RowsOfSubset
    <3>6. OpenQty(A) \in Nat
      <4>1. PICK c : LatestBy(b[k].lots, c, A)
        BY <2>2 DEF Latest
      <4>2. c[Len(b[k].lots)] = OpenQty(A) /\ b[k].lots \in Seq(Lot) /\ Sums(c, b[k].lots)
        BY <4>1 DEF LatestBy
      <4> PICK w \in Nat : w = Len(b[k].lots)
        BY <4>2
      <4>3. c \in [0..w -> Nat] /\ w \in 0..w
        BY <4>2 DEF Sums
      <4> QED BY <4>2, <4>3
    <3>7. \E y : IsLow(y, A \cup {t})
      BY <2>3, <3>2, <3>3, <3>5, <3>6, OpenStep
    <3>8. Latest(a[m][k].lots, A \cup {t})
      <4>0. b[k] \in Book /\ b[k].lots \in Seq(Lot)
        BY <2>2 DEF Book
      <4>1. CASE t.side = "BUY"
        <5>1. a[m][k].lots = Append(b[k].lots, [id |-> t.id, qty |-> t.qty, price |-> t.price])
          <6>1. a[m][k] = Bought(b[k], t)
            BY <2>4, <2>6, <4>1
          <6>2. Bought(b[k], t).lots = Append(b[k].lots, [id |-> t.id, qty |-> t.qty, price |-> t.price])
            BY <4>0 DEF Bought, Book
          <6> QED BY <6>1, <6>2
        <5>2. Latest(Append(b[k].lots, [id |-> t.id, qty |-> t.qty, price |-> t.price]), A \cup {t})
          <6> PICK L : L = b[k].lots
            OBVIOUS
          <6>1. Latest(L, A)
            BY <2>2
          <6>2. Latest(Append(L, [id |-> t.id, qty |-> t.qty, price |-> t.price]), A \cup {t})
            BY ONLY <2>3, <3>2, <3>3, <3>5, <4>1, <6>1, LatestBuy
          <6> QED BY <6>2
        <5> QED BY <5>1, <5>2
      <4>2. CASE t.side # "BUY"
        <5>1. a[m][k].lots = Consume(b[k].lots, t.qty).lots
          <6>1. a[m][k] = Sold(b[k], t)
            BY <2>4, <2>6, <4>2
          <6>2. Sold(b[k], t).lots = Consume(b[k].lots, t.qty).lots
            BY <4>0 DEF Sold, Settle, Book
          <6> QED BY <6>1, <6>2
        <5> QED BY <2>2, <2>3, <3>2, <3>3, <3>5, <4>2, <5>1, LatestSell
      <4> QED BY <4>1, <4>2
    <3> HIDE DEF T
    <3>9. Latest(a[m][k].lots, T(m)) /\ \E y : IsLow(y, T(m))
      BY ONLY <3>1, <3>7, <3>8
    <3> QED BY <2>4, <3>9
  <2> QED BY <2>5, <2>6
<1>5. n \in P
  <2> PICK Q : Q = P
    OBVIOUS
  <2> HIDE DEF P
  <2>1. 0 \in Q /\ \A i \in 1..n : i - 1 \in Q => i \in Q
    BY <1>3, <1>4
  <2>2. \A i \in 0..n : i \in Q
    BY <2>1, Climbing
  <2> QED BY <2>2
<1>6. T(n) = {t \in R : KeyOf(t) = k}
  BY <1>1
<1> HIDE DEF T
<1> QED BY <1>2, <1>5, <1>6

-----------------------------------------------------------------------------
(* The open lots are the latest purchases *)

UnitsOf(T, b) == Max({0, Min({b.qty, OpenQty(T) - LaterQty(T, b)})})

(* The cost of the latest purchases, unit by unit.                         *)
LEMMA OpenCostIs ==
  ASSUME NEW T PROVE OpenCost(T) = SumFunction([b \in Buys(T) |-> UnitsOf(T, b) * b.price])
  BY Zenon DEF OpenCost, Buys, UnitsOf, LaterQty

(* The sums of a list of lots end at its quantity.                         *)
LEMMA QtyOfLots ==
  ASSUME NEW lots \in Seq(Lot), Distinct(lots), NEW c, Sums(c, lots)
  PROVE  QtyOf(ToSet(lots)) = c[Len(lots)]
<1> PICK n \in Nat : n = Len(lots)
  OBVIOUS
<1> PICK L : L = ToSet(lots)
  OBVIOUS
<1> PICK f : f = [l \in L |-> l.qty]
  OBVIOUS
<1>1. c \in [0..n -> Nat] /\ c[0] = 0 /\ \A i \in 1..n : c[i] = c[i - 1] + lots[i].qty
  BY DEF Sums
<1>2. L = {lots[i] : i \in 1..n} /\ \A i \in 1..n : lots[i] \in L /\ lots[i] \in Lot
  BY DEF ToSet
<1>3. \A i \in 1..n : f[lots[i]] = lots[i].qty /\ lots[i].qty \in Nat
  BY <1>2 DEF Lot
<1> DEFINE Upto(m) == {lots[i] : i \in 1..m}
           P == {m \in 0..n : IsFiniteSet(Upto(m)) /\ SumFunctionOnSet(f, Upto(m)) = c[m]}
<1>4. 0 \in P
  <2>1. Upto(0) = {}
    OBVIOUS
  <2>2. IsFiniteSet({}) /\ SumFunctionOnSet(f, {}) = 0
    BY SumUnfolds, FS_EmptySet
  <2>3. IsFiniteSet(Upto(0)) /\ SumFunctionOnSet(f, Upto(0)) = c[0]
    <3> HIDE DEF Upto
    <3> QED BY ONLY <1>1, <2>1, <2>2
  <2> HIDE DEF Upto
  <2> QED BY <2>3
<1>5. ASSUME NEW m \in 1..n, m - 1 \in P PROVE m \in P
  <2> PICK A : A = Upto(m - 1)
    OBVIOUS
  <2>1. Upto(m) = A \cup {lots[m]}
    <3>1. \A i \in 1..m : i = m \/ i \in 1..(m - 1)
      OBVIOUS
    <3>2. m \in 1..m /\ \A i \in 1..(m - 1) : i \in 1..m
      OBVIOUS
    <3> QED BY <3>1, <3>2
  <2>2. lots[m] \notin A
    <3>1. \A i \in 1..(m - 1) : lots[i].id # lots[m].id
      BY DEF Distinct
    <3> QED BY <3>1
  <2>3. A \subseteq L
    <3>1. \A i \in 1..(m - 1) : i \in 1..n
      OBVIOUS
    <3> QED BY <1>2, <3>1
  <2>4. \A l \in L : f[l] \in Int
    <3> TAKE l \in L
    <3>1. PICK i \in 1..n : l = lots[i]
      BY <1>2
    <3>2. f[lots[i]] \in Nat
      BY <1>3
    <3> QED BY <3>1, <3>2
  <2>5. IsFiniteSet(A) /\ SumFunctionOnSet(f, A) = c[m - 1]
    BY <1>5
  <2> HIDE DEF Upto
  <2>6. SumFunctionOnSet(f, A \cup {lots[m]}) = SumFunctionOnSet(f, A) + f[lots[m]]
    <3> PICK x : x = lots[m]
      OBVIOUS
    <3>1. x \notin A /\ IsFiniteSet(A) /\ f[x] \in Int /\ \A y \in A : f[y] = f[y] /\ f[y] \in Int
      BY <1>2, <2>2, <2>3, <2>4, <2>5
    <3>2. SumFunctionOnSet(f, A \cup {x}) = SumFunctionOnSet(f, A) + f[x]
      BY ONLY <3>1, SumGrows
    <3> QED BY <3>2
  <2>7. IsFiniteSet(A \cup {lots[m]})
    BY <2>5, FS_AddElement
  <2>8. SumFunctionOnSet(f, Upto(m)) = c[m] /\ IsFiniteSet(Upto(m))
    BY <1>1, <1>3, <2>1, <2>5, <2>6, <2>7
  <2> QED BY <2>8
<1>6. n \in P
  <2> PICK Q : Q = P
    OBVIOUS
  <2> HIDE DEF P
  <2>1. 0 \in Q /\ \A k \in 1..n : k - 1 \in Q => k \in Q
    BY <1>4, <1>5
  <2>2. \A k \in 0..n : k \in Q
    BY <2>1, Climbing
  <2> QED BY <2>2
<1>7. SumFunctionOnSet(f, L) = c[n]
  BY <1>2, <1>6
<1> QED BY <1>7 DEF QtyOf, SumFunction

(* What a purchase has left is what its lot holds.                         *)
LEMMA UnitsAre ==
  ASSUME NEW T, Rows(T), NEW lots, NEW c, LatestBy(lots, c, T), NEW b \in Buys(T)
  PROVE  /\ UnitsOf(T, b) \in Nat
         /\ \A i \in 1..Len(lots) : IsPart(lots, i, b, c, T) =>
              UnitsOf(T, b) = lots[i].qty
         /\ (\A i \in 1..Len(lots) : lots[i].id # b.id) => UnitsOf(T, b) = 0
<1>1. /\ lots \in Seq(Lot) /\ Sums(c, lots) /\ c[Len(lots)] = OpenQty(T)
  BY DEF LatestBy
<1> PICK n \in Nat : n = Len(lots)
  BY <1>1
<1>2. c \in [0..n -> Nat] /\ c[0] = 0 /\ \A i \in 1..n : c[i] = c[i - 1] + lots[i].qty
  BY <1>1 DEF Sums
<1> PICK z \in Nat : z = OpenQty(T)
  BY <1>1, <1>2
<1> PICK w \in Nat : w = LaterQty(T, b)
  BY LaterType
<1> PICK q \in Nat : q = b.qty
  BY DEF Buys, Rows, Transaction
<1>3. UnitsOf(T, b) = Max({0, Min({q, z - w})})
  BY DEF UnitsOf
<1>4. UnitsOf(T, b) = IF z - w > 0 THEN (IF q <= z - w THEN q ELSE z - w) ELSE 0
  <2> PICK x \in Int : x = z - w
    OBVIOUS
  <2> PICK y \in Int : y = IF q <= x THEN q ELSE x
    OBVIOUS
  <2>1. Min({q, x}) = y
    BY MinWith
  <2>2. Max({0, y}) = IF y > 0 THEN y ELSE 0
    BY MaxWithZero
  <2>3. UnitsOf(T, b) = IF y > 0 THEN y ELSE 0
    BY <1>3, <2>1, <2>2
  <2> QED BY <2>3
<1>5. UnitsOf(T, b) \in Nat
  BY <1>4
<1>6. ASSUME NEW i \in 1..n, IsPart(lots, i, b, c, T) PROVE UnitsOf(T, b) = lots[i].qty
  <2>1. lots[i] \in Lot
    BY <1>1
  <2> PICK u \in Nat : u = lots[i].qty /\ u # 0
    BY <2>1 DEF Lot
  <2> PICK x \in Nat : x = c[i]
    BY <1>2
  <2> PICK y \in Nat : y = c[i - 1]
    BY <1>2, SMTT(20)
  <2>2. x = y + u
    BY <1>2
  <2>3. u <= q /\ (i # 1 => u = q) /\ w = z - x
    BY <1>1, <1>6 DEF IsPart
  <2>4. i = 1 => y = 0
    BY <1>2
  <2>5. z - w = x
    BY <2>3
  <2>6. UnitsOf(T, b) = IF x > 0 THEN (IF q <= x THEN q ELSE x) ELSE 0
    BY <1>4, <2>5
  <2>7. CASE i = 1
    <3>1. x = u /\ x > 0 /\ x <= q
      BY <2>2, <2>3, <2>4, <2>7
    <3> QED BY <2>6, <3>1
  <2>8. CASE i # 1
    <3>1. u = q /\ x > 0 /\ q <= x
      BY <2>2, <2>3, <2>8, SMTT(20)
    <3> QED BY <2>6, <3>1
  <2> QED BY <2>7, <2>8
<1>7. ASSUME \A i \in 1..n : lots[i].id # b.id PROVE UnitsOf(T, b) = 0
  <2>1. w >= z
    BY <1>1, <1>7 DEF LatestBy
  <2> QED BY <1>4, <2>1
<1> QED BY <1>5, <1>6, <1>7

(* The cost of the open lots is that of the latest purchases.              *)
LEMMA CostOfLots ==
  ASSUME NEW T, Rows(T), NEW lots, Distinct(lots), Latest(lots, T)
  PROVE  CostOf(ToSet(lots)) = OpenCost(T)
<1>1. PICK c : LatestBy(lots, c, T)
  BY DEF Latest
<1>2. lots \in Seq(Lot)
  BY <1>1 DEF LatestBy
<1> PICK n \in Nat : n = Len(lots)
  BY <1>2
<1> PICK L : L = ToSet(lots)
  OBVIOUS
<1> PICK B : B = Buys(T)
  OBVIOUS
<1> PICK f : f = [l \in L |-> l.qty * l.price]
  OBVIOUS
<1> PICK g : g = [b \in B |-> UnitsOf(T, b) * b.price]
  OBVIOUS
<1> PICK key : key = [l \in L |-> CHOOSE b \in B : b.id = l.id]
  OBVIOUS
<1>3. IsFiniteSet(L) /\ \A l \in L : l \in Lot /\ \E i \in 1..n : lots[i] = l
  <2>1. IsFiniteSet(L)
    BY <1>2, ElemsAreFinite
  <2>2. ASSUME NEW l \in L PROVE l \in Lot /\ \E i \in 1..n : lots[i] = l
    <3>1. PICK i \in DOMAIN lots : l = lots[i]
      BY DEF ToSet
    <3>2. i \in 1..n /\ lots[i] \in Lot
      BY <1>2
    <3> QED BY <3>1, <3>2
  <2> QED BY ONLY <2>1, <2>2
<1>4. IsFiniteSet(B) /\ \A b \in B : b \in T /\ b \in Transaction
  BY FS_Subset DEF Buys, Rows
<1>5. \A b \in B : UnitsOf(T, b) \in Nat
  BY <1>1, UnitsAre
<1>6. \A b \in B : g[b] = UnitsOf(T, b) * b.price /\ g[b] \in Int
  <2> TAKE b \in B
  <2> PICK u \in Nat : u = UnitsOf(T, b)
    BY <1>5
  <2> PICK p \in Nat : p = b.price
    BY <1>4 DEF Transaction
  <2> PICK y \in Nat : y = u * p
    OBVIOUS
  <2> QED OBVIOUS
<1>7. \A l \in L : f[l] = l.qty * l.price /\ f[l] \in Int
  <2> TAKE l \in L
  <2> PICK u \in Nat : u = l.qty
    BY <1>3 DEF Lot
  <2> PICK p \in Nat : p = l.price
    BY <1>3 DEF Lot
  <2> PICK y \in Nat : y = u * p
    OBVIOUS
  <2> QED OBVIOUS
<1>8. ASSUME NEW l \in L PROVE key[l] \in B /\ key[l].id = l.id /\ g[key[l]] = f[l]
  <2>1. PICK i \in 1..n : lots[i] = l
    BY <1>3
  <2>2. PICK b \in B : IsPart(lots, i, b, c, T)
    BY <1>1 DEF LatestBy
  <2>3. b.id = l.id /\ b.price = l.price
    BY <2>1, <2>2 DEF IsPart
  <2>4. key[l] \in B /\ key[l].id = l.id
    BY <2>3
  <2>5. key[l] = b
    BY <1>4, <2>3, <2>4 DEF Rows
  <2>6. UnitsOf(T, b) = l.qty
    BY <1>1, <2>1, <2>2, UnitsAre
  <2>7. g[b] = l.qty * l.price
    BY <1>6, <2>3, <2>6
  <2> QED BY <1>7, <2>4, <2>5, <2>7
<1> PICK K : K = {key[l] : l \in L}
  OBVIOUS
<1>9. \A x \in L : \A y \in L : key[x] = key[y] => x = y
  <2> SUFFICES ASSUME NEW x \in L, NEW y \in L, key[x] = key[y] PROVE x = y
    OBVIOUS
  <2>1. key[x].id = x.id /\ key[y].id = y.id
    BY <1>8
  <2>2. PICK i \in 1..n : lots[i] = x
    BY <1>3
  <2>3. PICK j \in 1..n : lots[j] = y
    BY <1>3
  <2>4. i = j
    BY ONLY <1>2, <2>1, <2>2, <2>3, key[x] = key[y], n = Len(lots), Distinct(lots) DEF Distinct
  <2> QED BY <2>2, <2>3, <2>4
<1>10. SumFunctionOnSet(g, K) = SumFunctionOnSet(f, L)
  <2>1. IsFiniteSet(L) /\ \A x \in L : f[x] \in Int
    BY <1>3, <1>7
  <2>2. \A x \in L : g[key[x]] = f[x]
    BY <1>8
  <2>3. SumFunctionOnSet(g, {key[x] : x \in L}) = SumFunctionOnSet(f, L)
    BY ONLY <1>9, <2>1, <2>2, SumRenames
  <2> QED BY <2>3
<1>11. K \subseteq B
  BY ONLY <1>8, K = {key[l] : l \in L}
<1>12. ASSUME NEW b \in B \ K PROVE g[b] = 0
  <2>1. \A i \in 1..n : lots[i].id # b.id
    <3> SUFFICES ASSUME NEW i \in 1..n, lots[i].id = b.id PROVE b \in K
      OBVIOUS
    <3>1. lots[i] \in L
      BY <1>2 DEF ToSet
    <3>2. key[lots[i]] = b
      BY <1>4, <1>8, <3>1 DEF Rows
    <3> QED BY <3>1, <3>2
  <2>2. UnitsOf(T, b) = 0
    BY <1>1, <2>1, UnitsAre
  <2>3. b.price \in Nat
    BY <1>4 DEF Transaction
  <2> QED BY <1>6, <2>2, <2>3
<1> PICK N : N = B \ K
  OBVIOUS
<1>13. IsFiniteSet(K) /\ IsFiniteSet(N) /\ K \cap N = {} /\ K \cup N = B
  BY <1>4, <1>11, FS_Subset
<1>14. SumFunctionOnSet(g, N) = 0
  BY <1>12, <1>13, SumOfZeros
<1>15. SumFunctionOnSet(g, K \cup N) = SumFunctionOnSet(g, K) + SumFunctionOnSet(g, N)
  <2>1. \A x \in K \cup N : g[x] \in Int
    BY <1>6, <1>13
  <2> QED BY ONLY <1>13, <2>1, SumJoins
<1>16. SumFunctionOnSet(f, L) \in Int
  BY <1>3, <1>7, SumIsInt
<1>17. SumFunctionOnSet(g, B) = SumFunctionOnSet(f, L)
  <2> PICK y \in Int : y = SumFunctionOnSet(f, L)
    BY <1>16
  <2>1. SumFunctionOnSet(g, B) = SumFunctionOnSet(g, K) + SumFunctionOnSet(g, N)
    BY <1>13, <1>15
  <2>2. SumFunctionOnSet(g, B) = y + 0
    BY <1>10, <1>14, <2>1
  <2> QED BY <2>2
<1> QED BY <1>17, OpenCostIs DEF CostOf, SumFunction

(* On a typed ledger the lots are the latest purchases.                    *)
LEMMA LatestIsHeld == TypeOK => LotsAreLatestBuys
<1> SUFFICES ASSUME TypeOK, NEW k \in Keys
             PROVE  /\ QtyOf(ToSet(Fifo(txs)[k].lots)) = OpenQty({t \in txs : KeyOf(t) = k})
                    /\ CostOf(ToSet(Fifo(txs)[k].lots)) = OpenCost({t \in txs : KeyOf(t) = k})
  BY DEF LotsAreLatestBuys
<1> PICK T : T = {t \in txs : KeyOf(t) = k}
  OBVIOUS
<1> PICK lots : lots = Fifo(txs)[k].lots
  OBVIOUS
<1>1. Rows(txs)
  BY TypeRows
<1>2. Rows(T) /\ Latest(lots, T) /\ Distinct(lots)
  <2>1. T \in SUBSET txs
    OBVIOUS
  <2> QED BY <1>1, <2>1, RowsOfSubset, LotsAreLatest, FifoKeeps
<1>3. PICK c : LatestBy(lots, c, T)
  BY <1>2 DEF Latest
<1>4. lots \in Seq(Lot) /\ Sums(c, lots) /\ c[Len(lots)] = OpenQty(T)
  BY <1>3 DEF LatestBy
<1>5. QtyOf(ToSet(lots)) = OpenQty(T)
  BY <1>2, <1>4, QtyOfLots
<1>6. CostOf(ToSet(lots)) = OpenCost(T)
  BY <1>2, CostOfLots
<1> QED BY <1>5, <1>6

(* The open lots of every key are its latest purchases.                    *)
THEOREM LatestBuysAreHeld == Spec => []LotsAreLatestBuys
  BY TypeCorrect, LatestIsHeld, PTL

-----------------------------------------------------------------------------
(* The rows of one portfolio *)

(* h[m] rows of T are among the first m of R: where they are in T's stream. *)
Thinned(h, R, T) ==
  /\ h \in [0..Cardinality(R) -> 0..Cardinality(T)]
  /\ h[0] = 0 /\ h[Cardinality(R)] = Cardinality(T)
  /\ \A m \in 1..Cardinality(R) :
       IF Stream(R)[m] \in T
         THEN h[m] \in 1..Cardinality(T) /\ h[m - 1] = h[m] - 1 /\ Stream(T)[h[m]] = Stream(R)[m]
         ELSE h[m] = h[m - 1]

(* The stream of some of the rows is the stream without the others.        *)
LEMMA StreamOfSome ==
  ASSUME NEW R, Rows(R), NEW T \in SUBSET R PROVE \E h : Thinned(h, R, T)
<1>0. Rows(T)
  BY RowsOfSubset
<1> PICK n \in Nat : n = Cardinality(R)
  BY StreamIsSorted
<1> PICK w \in Nat : w = Cardinality(T)
  BY <1>0, StreamIsSorted
<1> PICK S : S = Stream(R)
  OBVIOUS
<1>1. /\ \A i \in 1..n : S[i] \in R
      /\ \A t \in R : \E i \in 1..n : S[i] = t
      /\ \A i \in 1..n : \A j \in 1..n : i < j => Before(S[i], S[j])
  BY StreamIsSorted
<1> DEFINE U(m) == {t \in T : \E i \in 1..m : S[i] = t}
           h == [m \in 0..n |-> Cardinality(U(m))]
<1>2. ASSUME NEW A \in SUBSET T PROVE IsFiniteSet(A) /\ Cardinality(A) \in 0..w
  <2>1. IsFiniteSet(T) /\ IsFiniteSet(A)
    BY <1>0, FS_Subset DEF Rows
  <2>2. Cardinality(A) <= w /\ Cardinality(A) \in Nat
    BY <2>1, FS_Subset, FS_CardinalityType
  <2> QED BY <2>1, <2>2
<1>3. h \in [0..n -> 0..w]
  BY <1>2
<1>4. h[0] = 0
  <2>1. U(0) = {}
    OBVIOUS
  <2>2. Cardinality({}) = 0
    BY FS_EmptySet
  <2> HIDE DEF U
  <2> QED BY <2>1, <2>2
<1>5. h[n] = w
  <2>1. U(n) = T
    BY <1>1
  <2> HIDE DEF U
  <2> QED BY <2>1
<1>6. ASSUME NEW m \in 1..n, S[m] \notin T PROVE h[m] = h[m - 1]
  <2>1. U(m) = U(m - 1)
    <3>1. \A i \in 1..m : i = m \/ i \in 1..(m - 1)
      OBVIOUS
    <3>2. \A i \in 1..(m - 1) : i \in 1..m
      OBVIOUS
    <3> QED BY <1>6, <3>1, <3>2
  <2>2. m \in 0..n /\ m - 1 \in 0..n
    OBVIOUS
  <2> HIDE DEF U
  <2> QED BY <2>1, <2>2
<1>7. ASSUME NEW m \in 1..n, S[m] \in T
      PROVE  h[m] \in 1..w /\ h[m - 1] = h[m] - 1 /\ Stream(T)[h[m]] = S[m]
  <2> PICK t \in T : t = S[m]
    BY <1>7
  <2> PICK A : A = U(m - 1)
    OBVIOUS
  <2>0. \A i \in 1..m : i = m \/ i \in 1..(m - 1)
    OBVIOUS
  <2>1. m \in 1..m /\ \A i \in 1..(m - 1) : i \in 1..m /\ i \in 1..n /\ i < m
    OBVIOUS
  <2>2. U(m) = A \cup {t}
    BY <2>0, <2>1
  <2>3. A = Earlier(T, t)
    <3>1. \A u \in A : Before(u, t)
      BY <1>1, <2>1
    <3>2. ASSUME NEW u \in T, Before(u, t) PROVE u \in A
      <4>1. PICK j \in 1..n : S[j] = u
        BY <1>1
      <4>2. j # m
        BY <1>0, <3>2, <4>1, RowOrder
      <4>3. ~(m < j)
        BY <1>0, <1>1, <3>2, <4>1, RowOrder
      <4>4. j \in 1..(m - 1)
        BY <4>2, <4>3
      <4> QED BY <4>1, <4>4
    <3> QED BY <3>1, <3>2 DEF Earlier
  <2>4. t \notin A
    BY <1>0, <2>3, RowOrder DEF Earlier
  <2>5. A \in SUBSET T /\ U(m) \in SUBSET T
    BY <2>2
  <2> HIDE DEF U
  <2>6. Cardinality(U(m)) = Cardinality(A) + 1
    BY <1>2, <2>2, <2>4, <2>5, FS_AddElement
  <2>7. h[m] = Cardinality(U(m)) /\ h[m - 1] = Cardinality(A)
    OBVIOUS
  <2> PICK c \in 0..w : c = Cardinality(A)
    BY <1>2, <2>5
  <2>8. h[m] = c + 1 /\ h[m - 1] = c /\ c + 1 \in 1..w
    BY <1>2, <2>5, <2>6, <2>7
  <2> PICK u : u = Stream(T)[c + 1]
    OBVIOUS
  <2>9. u \in T /\ Cardinality(Earlier(T, u)) = c
    <3>1. \A i \in 1..w : Stream(T)[i] \in T /\ Cardinality(Earlier(T, Stream(T)[i])) = i - 1
      BY <1>0, StreamIsSorted
    <3>2. (c + 1) - 1 = c
      OBVIOUS
    <3> QED BY <2>8, <3>1, <3>2
  <2>10. Cardinality(Earlier(T, t)) = c
    BY <2>3
  <2>11. u = t
    <3>1. ~(c < c)
      OBVIOUS
    <3> QED BY <1>0, <2>9, <2>10, <3>1, RowOrder, EarlierGrows
  <2>12. Stream(T)[h[m]] = S[m]
    BY <2>8, <2>11
  <2>13. h[m] \in 1..w /\ h[m - 1] = h[m] - 1
    <3> HIDE DEF h
    <3> QED BY <2>8
  <2> QED BY <2>12, <2>13
<1> HIDE DEF h, U
<1>8. Thinned(h, R, T)
  BY <1>3, <1>4, <1>5, <1>6, <1>7 DEF Thinned
<1> QED BY <1>8

-----------------------------------------------------------------------------
Within(R, p) == {t \in R : t.pid = p}

(* A portfolio's books do not depend on the rows of the others.            *)
LEMMA FifoApart ==
  ASSUME NEW R, Rows(R), NEW k \in Keys
  PROVE  Fifo(R)[k] = Fifo(Within(R, k[1]))[k]
<1> PICK p : p = k[1]
  OBVIOUS
<1> PICK T : T = Within(R, p)
  OBVIOUS
<1>0. T \in SUBSET R /\ Rows(T)
  <2>1. T \in SUBSET R
    BY DEF Within
  <2> QED BY <2>1, RowsOfSubset
<1> PICK n \in Nat : n = Cardinality(R)
  BY StreamIsSorted
<1> PICK w \in Nat : w = Cardinality(T)
  BY <1>0, StreamIsSorted
<1> PICK S : S = Stream(R)
  OBVIOUS
<1> PICK V : V = Stream(T)
  OBVIOUS
<1>1. (\A i \in 1..n : S[i] \in R /\ S[i] \in Transaction) /\ (\A i \in 1..w : V[i] \in T)
  BY <1>0, StreamIsSorted DEF Rows
<1>2. PICK a : /\ a[0] = [j \in Keys |-> EmptyBook]
               /\ \A m \in 1..n : a[m] = Booked(a[m - 1], S[m])
               /\ Fifo(R) = a[n]
  BY FifoSteps
<1>3. PICK b : /\ b[0] = [j \in Keys |-> EmptyBook]
               /\ \A m \in 1..w : b[m] = Booked(b[m - 1], V[m])
               /\ Fifo(T) = b[w]
  BY <1>0, FifoSteps
<1>4. PICK h : Thinned(h, R, T)
  BY <1>0, StreamOfSome
<1>5. /\ h \in [0..n -> 0..w] /\ h[0] = 0 /\ h[n] = w
      /\ \A m \in 1..n : IF S[m] \in T THEN h[m] \in 1..w /\ h[m - 1] = h[m] - 1 /\ V[h[m]] = S[m]
                                       ELSE h[m] = h[m - 1]
  BY <1>4 DEF Thinned
<1> DEFINE P == {m \in 0..n : a[m] \in [Keys -> Book] /\ b[h[m]] \in [Keys -> Book] /\ a[m][k] = b[h[m]][k]}
<1>6. 0 \in P
  BY <1>2, <1>3, <1>5, EmptyBookType
<1>7. ASSUME NEW m \in 1..n, m - 1 \in P PROVE m \in P
  <2> PICK t : t = S[m]
    OBVIOUS
  <2> PICK x : x = a[m - 1]
    OBVIOUS
  <2> PICK y : y = b[h[m - 1]]
    OBVIOUS
  <2> PICK g \in Keys : g = KeyOf(t)
    BY <1>1, KeyOfType
  <2>1. t \in R /\ t \in Transaction /\ a[m] = Booked(x, t)
    BY <1>1, <1>2
  <2>2. x \in [Keys -> Book] /\ y \in [Keys -> Book] /\ x[k] = y[k]
    BY <1>7
  <2>3. a[m] \in [Keys -> Book] /\ a[m][k] = IF k = g THEN (IF t.side = "BUY" THEN Bought(x[k], t) ELSE Sold(x[k], t)) ELSE x[k]
    BY <2>1, <2>2, BookedType DEF Booked
  <2>4. CASE t \in T
    <3>1. h[m] \in 1..w /\ h[m - 1] = h[m] - 1 /\ V[h[m]] = t
      BY <1>5, <2>4
    <3>2. b[h[m]] = Booked(y, t)
      BY <1>3, <3>1
    <3>3. b[h[m]] \in [Keys -> Book] /\ b[h[m]][k] = IF k = g THEN (IF t.side = "BUY" THEN Bought(y[k], t) ELSE Sold(y[k], t)) ELSE y[k]
      BY <2>1, <2>2, <3>2, BookedType DEF Booked
    <3> QED BY <2>2, <2>3, <3>3
  <2>5. CASE t \notin T
    <3>1. h[m] = h[m - 1]
      BY <1>5, <2>5
    <3>2. k # g
      BY <2>1, <2>5 DEF Within, KeyOf
    <3> QED BY <2>2, <2>3, <3>1, <3>2
  <2> QED BY <2>4, <2>5
<1>8. n \in P
  <2> PICK Q : Q = P
    OBVIOUS
  <2> HIDE DEF P
  <2>1. 0 \in Q /\ \A i \in 1..n : i - 1 \in Q => i \in Q
    BY <1>6, <1>7
  <2>2. \A i \in 0..n : i \in Q
    BY <2>1, Climbing
  <2> QED BY <2>2
<1> QED BY <1>2, <1>3, <1>5, <1>8

-----------------------------------------------------------------------------
(* The cash row of one portfolio *)

(* The first cash row of a portfolio.                                      *)
LEMMA FirstCashIs ==
  ASSUME NEW R, Rows(R), NEW c \in R, IsCash(c)
  PROVE  \E t \in R : /\ t.pid = c.pid /\ IsCash(t)
                      /\ FirstCash(Stream(R), c.pid) = t.asset
                      /\ \A u \in R : u.pid = c.pid /\ IsCash(u) /\ u # t => Before(t, u)
<1> PICK n \in Nat : n = Cardinality(R)
  BY StreamIsSorted
<1> PICK p : p = c.pid
  OBVIOUS
<1> PICK S : S = Stream(R)
  OBVIOUS
<1>0. Len(S) = n /\ S \in Seq(R)
  BY StreamIsSorted
<1>1. /\ DOMAIN S = 1..n
      /\ \A i \in 1..n : S[i] \in R
      /\ \A t \in R : \E i \in 1..n : S[i] = t
      /\ \A i \in 1..n : \A j \in 1..n : i < j => Before(S[i], S[j])
  <2>1. DOMAIN S = 1..n
    BY <1>0
  <2>2. /\ \A i \in 1..n : S[i] \in R
        /\ \A t \in R : \E i \in 1..n : S[i] = t
        /\ \A i \in 1..n : \A j \in 1..n : i < j => Before(S[i], S[j])
    BY StreamIsSorted
  <2> QED BY <2>1, <2>2
<1> PICK T : T = {i \in DOMAIN S : S[i].pid = p /\ IsCash(S[i])}
  OBVIOUS
<1>2. T \in SUBSET Nat /\ T # {}
  BY <1>1
<1> PICK m : m = Min(T)
  OBVIOUS
<1>3. m \in T /\ \A y \in T : m <= y
  BY <1>2, MinIsIn
<1>4. m \in 1..n /\ S[m] \in R /\ S[m].pid = p /\ IsCash(S[m])
  BY <1>1, <1>3
<1>5. FirstCash(S, p) = S[m].asset
  BY DEF FirstCash
<1>6. ASSUME NEW u \in R, u.pid = p, IsCash(u), u # S[m] PROVE Before(S[m], u)
  <2>1. PICK j \in 1..n : S[j] = u
    BY <1>1
  <2>2. j \in T
    BY <1>1, <1>6, <2>1
  <2>3. m < j
    BY <1>3, <1>4, <1>6, <2>1, <2>2
  <2> QED BY <1>1, <1>4, <2>1, <2>3
<1> QED BY <1>4, <1>5, <1>6

(* The first cash row of a portfolio is first among its own rows.          *)
LEMMA FirstCashApart ==
  ASSUME NEW R, Rows(R), NEW c \in R, IsCash(c)
  PROVE  FirstCash(Stream(R), c.pid) = FirstCash(Stream(Within(R, c.pid)), c.pid)
<1> PICK p : p = c.pid
  OBVIOUS
<1> PICK T : T = Within(R, p)
  OBVIOUS
<1>1. T \in SUBSET R /\ c \in T
  BY DEF Within
<1>2. Rows(T)
  BY <1>1, RowsOfSubset
<1>3. PICK t \in R : /\ t.pid = p /\ IsCash(t) /\ FirstCash(Stream(R), p) = t.asset
                     /\ \A u \in R : u.pid = p /\ IsCash(u) /\ u # t => Before(t, u)
  BY FirstCashIs
<1>4. PICK s \in T : /\ s.pid = p /\ IsCash(s) /\ FirstCash(Stream(T), p) = s.asset
                     /\ \A u \in T : u.pid = p /\ IsCash(u) /\ u # s => Before(s, u)
  BY <1>1, <1>2, FirstCashIs
<1>5. t \in T /\ s \in R
  BY <1>1, <1>3 DEF Within
<1>6. t = s
  BY <1>3, <1>4, <1>5, RowOrder
<1> QED BY <1>3, <1>4, <1>6

Charges(acc, t) == \E g \in acc.seen : g[1] = t.pid

(* What a row does to one key.                                             *)
MovedAt(r, acc, t, S, k) ==
  /\ r.seen = IF IsCash(t) THEN acc.seen \cup {KeyOf(t)} ELSE acc.seen
  /\ r.balance[k] =
       IF IsCash(t)
         THEN IF k = KeyOf(t) THEN acc.balance[k] + Signed(t) * t.price ELSE acc.balance[k]
         ELSE IF Charges(acc, t) /\ k = <<t.pid, FirstCash(S, t.pid)>>
                THEN acc.balance[k] + CashFlow(t) ELSE acc.balance[k]

(* A row moves the balances of the cash rows it is told to.                *)
LEMMA CashMovedIs ==
  ASSUME NEW S, NEW acc \in Cash, NEW t \in Transaction, NEW k \in Keys
  PROVE  MovedAt(CashMoved(acc, t, S), acc, t, S, k)
<1> PICK seen : seen = acc.seen
  OBVIOUS
<1> PICK bal : bal = acc.balance
  OBVIOUS
<1>1. bal \in [Keys -> Int] /\ acc = [seen |-> seen, balance |-> bal]
  BY DEF Cash
<1>2. CASE IsCash(t)
  <2> PICK g : g = KeyOf(t)
    OBVIOUS
  <2> PICK d : d = Signed(t) * t.price
    OBVIOUS
  <2>1. CashMoved(acc, t, S) = [seen |-> seen \cup {g}, balance |-> [bal EXCEPT ![g] = @ + d]]
    BY <1>2 DEF CashMoved
  <2>2. CashMoved(acc, t, S).seen = seen \cup {g} /\ CashMoved(acc, t, S).balance = [bal EXCEPT ![g] = @ + d]
    BY <2>1
  <2>3. [bal EXCEPT ![g] = @ + d][k] = IF k = g THEN bal[k] + d ELSE bal[k]
    BY <1>1
  <2> QED BY <1>2, <2>2, <2>3 DEF MovedAt
<1>3. CASE ~IsCash(t) /\ Charges(acc, t)
  <2> PICK g : g = <<t.pid, FirstCash(S, t.pid)>>
    OBVIOUS
  <2> PICK d : d = CashFlow(t)
    OBVIOUS
  <2>1. CashMoved(acc, t, S) = [acc EXCEPT !.balance[g] = @ + d]
    BY <1>3 DEF CashMoved, Charges
  <2>2. [acc EXCEPT !.balance[g] = @ + d] = [seen |-> seen, balance |-> [bal EXCEPT ![g] = @ + d]]
    BY <1>1
  <2>3. CashMoved(acc, t, S).seen = seen /\ CashMoved(acc, t, S).balance = [bal EXCEPT ![g] = @ + d]
    BY <2>1, <2>2
  <2>4. [bal EXCEPT ![g] = @ + d][k] = IF k = g THEN bal[k] + d ELSE bal[k]
    BY <1>1
  <2> QED BY <1>3, <2>3, <2>4 DEF MovedAt
<1>4. CASE ~IsCash(t) /\ ~Charges(acc, t)
  <2>1. CashMoved(acc, t, S) = acc
    BY <1>4 DEF CashMoved, Charges
  <2> QED BY <1>4, <2>1 DEF MovedAt
<1> QED BY <1>2, <1>3, <1>4

(* A portfolio's cash does not depend on the rows of the others.           *)
LEMMA CashApart ==
  ASSUME NEW R, Rows(R), NEW k \in Keys
  PROVE  /\ k \in DOMAIN CashBalances(R) <=> k \in DOMAIN CashBalances(Within(R, k[1]))
         /\ k \in DOMAIN CashBalances(R) => CashBalances(R)[k] = CashBalances(Within(R, k[1]))[k]
<1> PICK p : p = k[1]
  OBVIOUS
<1> PICK T : T = Within(R, p)
  OBVIOUS
<1>0. T \in SUBSET R /\ Rows(T)
  <2>1. T \in SUBSET R
    BY DEF Within
  <2> QED BY <2>1, RowsOfSubset
<1> PICK n \in Nat : n = Cardinality(R)
  BY StreamIsSorted
<1> PICK w \in Nat : w = Cardinality(T)
  BY <1>0, StreamIsSorted
<1> PICK S : S = Stream(R)
  OBVIOUS
<1> PICK V : V = Stream(T)
  OBVIOUS
<1>1. (\A i \in 1..n : S[i] \in R /\ S[i] \in Transaction) /\ (\A i \in 1..w : V[i] \in T) /\ DOMAIN S = 1..n
  <2>1. (\A i \in 1..n : S[i] \in R) /\ (\A i \in 1..w : V[i] \in T) /\ Len(S) = n /\ S \in Seq(R)
    BY <1>0, StreamIsSorted
  <2>2. \A i \in 1..n : S[i] \in Transaction
    BY <2>1 DEF Rows
  <2> QED BY <2>1, <2>2
<1>2. PICK a : CashWalk(a, R)
  BY CashSteps
<1>3. PICK b : CashWalk(b, T)
  BY <1>0, CashSteps
<1>4. PICK h : Thinned(h, R, T)
  BY <1>0, StreamOfSome
<1>5. /\ h \in [0..n -> 0..w] /\ h[0] = 0 /\ h[n] = w
      /\ \A m \in 1..n : IF S[m] \in T THEN h[m] \in 1..w /\ h[m - 1] = h[m] - 1 /\ V[h[m]] = S[m]
                                       ELSE h[m] = h[m - 1]
  BY <1>4 DEF Thinned
<1>6. /\ a[0] = NoCash /\ b[0] = NoCash
      /\ \A m \in 1..n : a[m] = CashMoved(a[m - 1], S[m], S)
      /\ \A m \in 1..w : b[m] = CashMoved(b[m - 1], V[m], V)
      /\ \A m \in 0..n : a[m] \in CashUpTo(S) /\ a[m] \in Cash
      /\ \A m \in 0..w : b[m] \in Cash
      /\ CashBalances(R) = [g \in a[n].seen |-> a[n].balance[g]]
      /\ CashBalances(T) = [g \in b[w].seen |-> b[w].balance[g]]
  BY <1>2, <1>3 DEF CashWalk, CashUpTo
<1> DEFINE Same(x, y) == \A g \in Keys : g[1] = p => (g \in x.seen <=> g \in y.seen) /\ x.balance[g] = y.balance[g]
           P == {m \in 0..n : Same(a[m], b[h[m]])}
<1>7. 0 \in P
  BY <1>5, <1>6
<1>8. ASSUME NEW m \in 1..n, m - 1 \in P PROVE m \in P
  <2> PICK t : t = S[m]
    OBVIOUS
  <2> PICK x \in Cash : x = a[m - 1]
    BY <1>6
  <2>0. h[m - 1] \in 0..w
    BY <1>5
  <2> PICK y \in Cash : y = b[h[m - 1]]
    BY <1>6, <2>0
  <2>1. t \in R /\ t \in Transaction /\ a[m] = CashMoved(x, t, S)
    BY <1>1, <1>6
  <2>2. Same(x, y)
    BY <1>8
  <2>3. KeyOf(t) \in Keys /\ KeyOf(t)[1] = t.pid /\ (t \in T <=> t.pid = p)
    BY <2>1, KeyOfType DEF KeyOf, Within
  <2>4. CASE t.pid = p
    <3>1. h[m] \in 1..w /\ h[m - 1] = h[m] - 1 /\ V[h[m]] = t
      BY <1>5, <2>3, <2>4
    <3>2. b[h[m]] = CashMoved(y, t, V)
      BY <1>6, <3>1
    <3>3. Charges(x, t) <=> Charges(y, t)
      <4>1. (\A g \in x.seen : g \in Keys) /\ (\A g \in y.seen : g \in Keys)
        BY DEF Cash
      <4> QED BY <2>2, <2>4, <4>1 DEF Charges
    <3>4. Charges(x, t) => FirstCash(S, p) = FirstCash(V, p)
      <4> SUFFICES ASSUME Charges(x, t) PROVE FirstCash(S, p) = FirstCash(V, p)
        OBVIOUS
      <4>1. PICK g \in x.seen : g[1] = p
        BY <2>4 DEF Charges
      <4>2. x \in CashUpTo(S)
        BY <1>6
      <4>3. PICK i \in 1..n : KeyOf(S[i]) = g /\ IsCash(S[i])
        BY <1>1, <4>2 DEF CashUpTo
      <4> PICK c \in R : c = S[i]
        BY <1>1
      <4>4. c.pid = p /\ IsCash(c)
        BY <4>1, <4>3 DEF KeyOf
      <4> QED BY <4>4, FirstCashApart
    <3>5. ASSUME NEW g \in Keys, g[1] = p
          PROVE  (g \in a[m].seen <=> g \in b[h[m]].seen) /\ a[m].balance[g] = b[h[m]].balance[g]
      <4> PICK u : u = a[m]
        OBVIOUS
      <4> PICK v : v = b[h[m]]
        OBVIOUS
      <4>1. (g \in x.seen <=> g \in y.seen) /\ x.balance[g] = y.balance[g]
        BY <2>2, <3>5
      <4>2. MovedAt(u, x, t, S, g)
        BY <2>1, CashMovedIs
      <4>3. MovedAt(v, y, t, V, g)
        BY <2>1, <3>2, CashMovedIs
      <4>4. g \in u.seen <=> g \in v.seen
        BY ONLY <4>1, <4>2, <4>3 DEF MovedAt
      <4>5. u.balance[g] = v.balance[g]
        BY ONLY <2>4, <3>3, <3>4, <4>1, <4>2, <4>3 DEF MovedAt
      <4> QED BY <4>4, <4>5
    <3>6. Same(a[m], b[h[m]])
      BY <3>5
    <3> QED BY <3>6
  <2>5. CASE t.pid # p
    <3>1. h[m] = h[m - 1]
      BY <1>5, <2>3, <2>5
    <3>2. ASSUME NEW g \in Keys, g[1] = p
          PROVE  (g \in a[m].seen <=> g \in y.seen) /\ a[m].balance[g] = y.balance[g]
      <4>1. (g \in x.seen <=> g \in y.seen) /\ x.balance[g] = y.balance[g]
        BY <2>2, <3>2
      <4>2. g # KeyOf(t) /\ g # <<t.pid, FirstCash(S, t.pid)>>
        BY <2>3, <2>5, <3>2
      <4> PICK u : u = a[m]
        OBVIOUS
      <4>3. MovedAt(u, x, t, S, g)
        BY <2>1, CashMovedIs
      <4>4. (g \in u.seen <=> g \in y.seen) /\ u.balance[g] = y.balance[g]
        BY ONLY <4>1, <4>2, <4>3 DEF MovedAt
      <4> QED BY <4>4
    <3>3. Same(a[m], b[h[m]])
      BY <3>1, <3>2
    <3> QED BY <3>3
  <2> QED BY <2>4, <2>5
<1>9. n \in P
  <2> PICK Q : Q = P
    OBVIOUS
  <2> HIDE DEF P
  <2>1. 0 \in Q /\ \A i \in 1..n : i - 1 \in Q => i \in Q
    BY <1>7, <1>8
  <2>2. \A i \in 0..n : i \in Q
    BY <2>1, Climbing
  <2> QED BY <2>2
<1>10. (k \in a[n].seen <=> k \in b[w].seen) /\ a[n].balance[k] = b[w].balance[k]
  BY <1>5, <1>9
<1> QED BY <1>6, <1>10

-----------------------------------------------------------------------------
(* What a portfolio shows, alone and among the others *)

HeldAt(R, prices, k) ==
  HeldRow(k, QtyOf(ToSet(Fifo(R)[k].lots)), CostOf(ToSet(Fifo(R)[k].lots)),
          IF k[2] \in DOMAIN prices THEN QtyOf(ToSet(Fifo(R)[k].lots)) * prices[k[2]] ELSE NoValue)

(* The position of one key.                                                *)
PosAt(w, R, prices, k) ==
  \/ k \in DOMAIN CashBalances(R) /\ w = CashRow(k, CashBalances(R)[k])
  \/ /\ k \notin DOMAIN CashBalances(R) /\ ToSet(Fifo(R)[k].lots) # {}
     /\ w = HeldAt(R, prices, k)

(* A position names its key.                                               *)
LEMMA PosHasKey == \A w : \A R : \A prices : \A k : PosAt(w, R, prices, k) => w.key = k
  BY DEF PosAt, CashRow, HeldRow, HeldAt

(* The positions are those of the keys that show one.                      *)
LEMMA PositionsAre ==
  ASSUME NEW R, Rows(R), NEW prices, NEW w
  PROVE  w \in Positions(R, prices) <=> \E k \in Keys : PosAt(w, R, prices, k)
<1> PICK cash : cash = CashBalances(R)
  OBVIOUS
<1> PICK lots : lots = Lots(R)
  OBVIOUS
<1> DEFINE Held(k) == HeldRow(k, QtyOf(Open(lots, k)), CostOf(Open(lots, k)),
                              IF k[2] \in DOMAIN prices THEN QtyOf(Open(lots, k)) * prices[k[2]] ELSE NoValue)
<1>1. Positions(R, prices) = {CashRow(k, cash[k]) : k \in DOMAIN cash}
                             \cup {Held(k) : k \in {l.key : l \in lots} \ DOMAIN cash}
  BY DEF Positions, PositionsOf, Open
<1>2. DOMAIN cash \in SUBSET Keys
  BY CashBalancesType
<1>3. \A k \in Keys : Held(k) = HeldAt(R, prices, k)
  <2> TAKE k \in Keys
  <2>1. Open(lots, k) = ToSet(Fifo(R)[k].lots)
    BY OpenIsBook
  <2> QED BY <2>1 DEF HeldAt
<1>4. \A k : k \in {l.key : l \in lots} <=> k \in Keys /\ ToSet(Fifo(R)[k].lots) # {}
  <2>1. ASSUME NEW l \in lots PROVE l.key \in Keys /\ ToSet(Fifo(R)[l.key].lots) # {}
    <3>1. PICK k \in Keys : \E x \in ToSet(Fifo(R)[k].lots) : l = [key |-> k, lot |-> x]
      BY LotsAre
    <3>2. l.key = k
      BY <3>1
    <3> QED BY <3>1, <3>2
  <2>2. ASSUME NEW k \in Keys, ToSet(Fifo(R)[k].lots) # {} PROVE \E l \in lots : l.key = k
    <3>1. PICK x : x \in ToSet(Fifo(R)[k].lots)
      BY <2>2
    <3>2. [key |-> k, lot |-> x] \in lots
      BY <3>1, LotsAre
    <3> QED BY <3>2
  <2> QED BY <2>1, <2>2
<1> HIDE DEF Held
<1>5. ASSUME w \in Positions(R, prices) PROVE \E k \in Keys : PosAt(w, R, prices, k)
  <2>1. CASE w \in {CashRow(k, cash[k]) : k \in DOMAIN cash}
    BY <1>2, <2>1 DEF PosAt
  <2>2. CASE w \in {Held(k) : k \in {l.key : l \in lots} \ DOMAIN cash}
    <3>1. PICK k \in {l.key : l \in lots} \ DOMAIN cash : w = Held(k)
      BY <2>2
    <3>2. k \in Keys /\ ToSet(Fifo(R)[k].lots) # {} /\ k \notin DOMAIN cash
      BY <1>4, <3>1
    <3> QED BY <1>3, <3>1, <3>2 DEF PosAt
  <2> QED BY <1>1, <1>5, <2>1, <2>2
<1>6. ASSUME NEW k \in Keys, PosAt(w, R, prices, k) PROVE w \in Positions(R, prices)
  <2>1. CASE k \in DOMAIN cash /\ w = CashRow(k, cash[k])
    BY <1>1, <2>1
  <2>2. CASE k \notin DOMAIN cash /\ ToSet(Fifo(R)[k].lots) # {} /\ w = HeldAt(R, prices, k)
    BY <1>1, <1>3, <1>4, <2>2
  <2> QED BY <1>6, <2>1, <2>2 DEF PosAt
<1> QED BY <1>5, <1>6

(* A position depends on the rows of its own portfolio only.               *)
LEMMA PosApart ==
  ASSUME NEW R, Rows(R), NEW prices, NEW w, NEW k \in Keys
  PROVE  PosAt(w, R, prices, k) <=> PosAt(w, Within(R, k[1]), prices, k)
<1> PICK T : T = Within(R, k[1])
  OBVIOUS
<1>1. Fifo(R)[k] = Fifo(T)[k]
  BY FifoApart
<1>2. k \in DOMAIN CashBalances(R) <=> k \in DOMAIN CashBalances(T)
  BY CashApart
<1>3. k \in DOMAIN CashBalances(R) => CashBalances(R)[k] = CashBalances(T)[k]
  BY CashApart
<1>4. HeldAt(R, prices, k) = HeldAt(T, prices, k)
  BY ONLY <1>1 DEF HeldAt
<1> QED BY <1>1, <1>2, <1>3, <1>4 DEF PosAt

(* Only keys that were traded have a position.                             *)
LEMMA PosIsTraded ==
  ASSUME NEW R, Rows(R), NEW prices, NEW w, NEW k \in Keys, PosAt(w, R, prices, k)
  PROVE  \E t \in R : KeyOf(t) = k
<1> SUFFICES ASSUME \A t \in R : KeyOf(t) # k PROVE FALSE
  OBVIOUS
<1>1. k \notin DOMAIN CashBalances(R)
  BY CashBalancesType
<1>2. Fifo(R)[k] = EmptyBook
  BY FifoKeeps
<1>3. ToSet(Fifo(R)[k].lots) = {}
  BY <1>2 DEF EmptyBook, ToSet
<1> QED BY <1>1, <1>3 DEF PosAt

(* The positions of some rows are those of their portfolios.               *)
LEMMA UnionOfPositions ==
  ASSUME NEW R, Rows(R), NEW P, \A t \in R : t.pid \in P, NEW prices
  PROVE  Positions(R, prices) = UNION {Positions(Within(R, p), prices) : p \in P}
<1>0. \A p : Within(R, p) \in SUBSET R /\ Rows(Within(R, p))
  <2> TAKE p
  <2>1. Within(R, p) \in SUBSET R
    BY DEF Within
  <2> QED BY <2>1, RowsOfSubset
<1>1. ASSUME NEW w \in Positions(R, prices) PROVE \E p \in P : w \in Positions(Within(R, p), prices)
  <2>1. PICK k \in Keys : PosAt(w, R, prices, k)
    BY PositionsAre
  <2>2. PICK t \in R : KeyOf(t) = k
    BY <2>1, PosIsTraded
  <2>3. k[1] \in P
    BY <2>2 DEF KeyOf
  <2>4. PosAt(w, Within(R, k[1]), prices, k)
    BY <2>1, PosApart
  <2>5. w \in Positions(Within(R, k[1]), prices)
    BY <1>0, <2>4, PositionsAre
  <2> QED BY <2>3, <2>5
<1>2. ASSUME NEW p \in P, NEW w \in Positions(Within(R, p), prices) PROVE w \in Positions(R, prices)
  <2>1. PICK k \in Keys : PosAt(w, Within(R, p), prices, k)
    BY <1>0, PositionsAre
  <2>2. PICK t \in Within(R, p) : KeyOf(t) = k
    BY <1>0, <2>1, PosIsTraded
  <2>3. k[1] = p
    BY <2>2 DEF KeyOf, Within
  <2>4. PosAt(w, R, prices, k)
    BY <2>1, <2>3, PosApart
  <2> QED BY <2>4, PositionsAre
<1> QED BY <1>1, <1>2

(* The P&L of some rows is that of their portfolios.                       *)
LEMMA UnionOfPnl ==
  ASSUME NEW R, Rows(R), NEW P, \A t \in R : t.pid \in P, NEW prices
  PROVE  Pnl(R, prices) = UNION {Pnl(Within(R, p), prices) : p \in P}
<1>0. \A p : Within(R, p) \in SUBSET R /\ Rows(Within(R, p))
  <2> TAKE p
  <2>1. Within(R, p) \in SUBSET R
    BY DEF Within
  <2> QED BY <2>1, RowsOfSubset
<1> DEFINE On(T, k) == {w \in Positions(T, prices) : w.key = k}
           At(T, k) == PnlRow(k, Fifo(T)[k], On(T, k))
<1>1. \A T : Pnl(T, prices) = {At(T, k) : k \in {KeyOf(t) : t \in T}}
  BY Zenon DEF Pnl, PnlOf
<1>2. \A t \in R : KeyOf(t) \in Keys /\ KeyOf(t)[1] = t.pid
  <2>1. \A t \in R : t \in Transaction
    BY DEF Rows
  <2> QED BY <2>1, KeyOfType DEF KeyOf
<1>3. ASSUME NEW k \in Keys PROVE At(R, k) = At(Within(R, k[1]), k)
  <2> PICK T : T = Within(R, k[1])
    OBVIOUS
  <2>1. \A w : w \in On(R, k) <=> PosAt(w, R, prices, k)
    BY PositionsAre, PosHasKey
  <2>2. \A w : w \in On(T, k) <=> PosAt(w, T, prices, k)
    BY <1>0, PositionsAre, PosHasKey
  <2>3. \A w : PosAt(w, R, prices, k) <=> PosAt(w, T, prices, k)
    BY PosApart
  <2>4. On(R, k) = On(T, k)
    <3> HIDE DEF On
    <3>1. \A w : w \in On(R, k) <=> w \in On(T, k)
      BY <2>1, <2>2, <2>3
    <3> QED BY <3>1 DEF On
  <2>5. Fifo(R)[k] = Fifo(T)[k]
    BY FifoApart
  <2> HIDE DEF On
  <2> QED BY <2>4, <2>5
<1> HIDE DEF At
<1>4. ASSUME NEW x \in Pnl(R, prices) PROVE \E p \in P : x \in Pnl(Within(R, p), prices)
  <2>1. PICK t \in R : x = At(R, KeyOf(t))
    BY <1>1
  <2>2. t \in Within(R, t.pid)
    BY DEF Within
  <2>3. x = At(Within(R, t.pid), KeyOf(t))
    BY <1>2, <1>3, <2>1
  <2> QED BY <1>1, <2>2, <2>3
<1>5. ASSUME NEW p \in P, NEW x \in Pnl(Within(R, p), prices) PROVE x \in Pnl(R, prices)
  <2>1. PICK t \in Within(R, p) : x = At(Within(R, p), KeyOf(t))
    BY <1>1
  <2>2. t \in R /\ t.pid = p
    BY DEF Within
  <2>3. x = At(R, KeyOf(t))
    BY <1>2, <1>3, <2>1, <2>2
  <2> QED BY <1>1, <2>2, <2>3
<1> QED BY <1>4, <1>5

(* Every row's portfolio exists.                                           *)
ForeignKey == \A t \in txs : t.pid \in portfolios
KeyInv == TypeOK /\ ForeignKey

(* Every operation keeps the rows under existing portfolios.               *)
LEMMA ForeignKeyStep == KeyInv /\ [Next]_vars => KeyInv'
<1> SUFFICES ASSUME KeyInv, [Next]_vars PROVE ForeignKey'
  BY TypeStep DEF KeyInv
<1>0. TypeOK /\ ForeignKey
  BY DEF KeyInv
<1>1. CASE CmdPortfolioCreate
  BY <1>0, <1>1 DEF ForeignKey, CmdPortfolioCreate
<1>2. ASSUME NEW e \in Entries, AddTransaction(e) \/ AddTransactionWithDecision(e) PROVE ForeignKey'
  <2>1. Row(e, nextId).pid = e.pid
    BY DEF Row
  <2>2. e.pid \in portfolios /\ txs' = txs \cup {Row(e, nextId)} /\ portfolios' = portfolios
    BY <1>2 DEF AddTransaction, AddTransactionWithDecision, Accepted
  <2> QED BY <1>0, <2>1, <2>2 DEF ForeignKey
<1>3. ASSUME NEW t \in txs, RemoveTransaction(t) PROVE ForeignKey'
  BY <1>0, <1>3 DEF ForeignKey, RemoveTransaction
<1>4. ASSUME NEW p \in Pid, DeletePortfolio(p) PROVE ForeignKey'
  BY <1>0, <1>4 DEF ForeignKey, DeletePortfolio
<1>5. CASE UNCHANGED vars
  BY <1>0, <1>5 DEF ForeignKey, vars
<1> QED BY <1>1, <1>2, <1>3, <1>4, <1>5 DEF Next

(* Every row belongs to an existing portfolio.                             *)
LEMMA KeyInvariant == Spec => []KeyInv
<1>1. Init => KeyInv
  BY FS_EmptySet DEF Init, TypeOK, ForeignKey, KeyInv
<1> QED BY <1>1, ForeignKeyStep, PTL DEF Spec

(* With every row under an existing portfolio, the whole is the union.     *)
LEMMA AllAreApart == KeyInv => AllIsTheUnion
<1> SUFFICES ASSUME KeyInv, NEW prices \in Prices
             PROVE  /\ Positions(txs, prices) = UNION {Positions(RowsOf({p}), prices) : p \in portfolios}
                    /\ Pnl(txs, prices) = UNION {Pnl(RowsOf({p}), prices) : p \in portfolios}
  BY DEF AllIsTheUnion
<1>1. Rows(txs) /\ \A t \in txs : t.pid \in portfolios
  BY TypeRows DEF KeyInv, ForeignKey
<1>2. \A p : RowsOf({p}) = Within(txs, p)
  BY DEF RowsOf, Within
<1>3. /\ Positions(txs, prices) = UNION {Positions(Within(txs, p), prices) : p \in portfolios}
      /\ Pnl(txs, prices) = UNION {Pnl(Within(txs, p), prices) : p \in portfolios}
  BY <1>1, UnionOfPositions, UnionOfPnl
<1> QED BY <1>2, <1>3

(* A view of all portfolios is the union of the views of each.             *)
THEOREM PortfoliosAreApart == Spec => []AllIsTheUnion
  BY KeyInvariant, AllAreApart, PTL

-----------------------------------------------------------------------------
(* What a sale costs *)

(* One more lot adds its cost.                                             *)
LEMMA CostGrows ==
  ASSUME NEW lots \in SUBSET Lot, IsFiniteSet(lots), NEW x \in Lot, x \notin lots
  PROVE  /\ CostOf(lots \cup {x}) = CostOf(lots) + x.qty * x.price
         /\ CostOf(lots) \in Nat /\ x.qty * x.price \in Nat
<1> PICK D : D = lots \cup {x}
  OBVIOUS
<1> PICK f : f = [l \in lots |-> l.qty * l.price]
  OBVIOUS
<1> PICK g : g = [l \in D |-> l.qty * l.price]
  OBVIOUS
<1>1. \A y \in D : y.qty * y.price \in Nat
  <2> TAKE y \in D
  <2>1. y.qty \in Nat /\ y.price \in Nat
    BY DEF Lot
  <2> QED BY <2>1
<1>2. \A y \in lots : g[y] = f[y] /\ f[y] \in Int
  BY <1>1
<1>3. g[x] = x.qty * x.price /\ g[x] \in Int
  BY <1>1
<1>4. SumFunctionOnSet(g, lots \cup {x}) = SumFunctionOnSet(f, lots) + g[x]
  BY <1>2, <1>3, SumGrows
<1>5. CostOf(lots \cup {x}) = CostOf(lots) + x.qty * x.price
  BY <1>3, <1>4 DEF CostOf, SumFunction
<1> QED BY <1>1, <1>5, SumsOfLots

(* A lot cut in two costs what it cost.                                    *)
LEMMA CostOfParts ==
  ASSUME NEW lot \in Lot, NEW l \in Nat \ {0}, l < lot.qty
  PROVE  LET x == [lot EXCEPT !.qty = @ - l]
             y == [lot EXCEPT !.qty = l]
         IN /\ x \in Lot /\ y \in Lot /\ x.id = lot.id /\ y.id = lot.id
            /\ x.qty * x.price + y.qty * y.price = lot.qty * lot.price
            /\ x.qty * x.price \in Nat /\ y.qty * y.price \in Nat
<1> PICK q \in Nat : q = lot.qty
  BY DEF Lot
<1> PICK c \in Nat : c = lot.price
  BY DEF Lot
<1> PICK x : x = [lot EXCEPT !.qty = @ - l]
  OBVIOUS
<1> PICK y : y = [lot EXCEPT !.qty = l]
  OBVIOUS
<1>1. q - l \in Nat \ {0}
  OBVIOUS
<1>2. x \in Lot /\ y \in Lot /\ x.id = lot.id /\ y.id = lot.id
  BY <1>1 DEF Lot
<1>3. x.qty = q - l /\ x.price = c /\ y.qty = l /\ y.price = c
  BY DEF Lot
<1>4. (q - l) * c + l * c = q * c
  BY Distributes
<1>5. (q - l) * c \in Nat /\ l * c \in Nat
  BY <1>1
<1> QED BY <1>2, <1>3, <1>4, <1>5

(* What a sale leaves and what it takes cost what was there.               *)
LEMMA SaleCost ==
  ASSUME NEW lots \in Seq(Lot), Distinct(lots), NEW qty \in Nat
  PROVE  LET r == Consume(lots, qty) IN
         CostOf(ToSet(r.lots)) + CostOf(r.taken) = CostOf(ToSet(lots))
<1> PICK n \in Nat : n = Len(lots)
  OBVIOUS
<1>0. DOMAIN lots = 1..n /\ \A k \in 1..n : lots[k] \in Lot
  OBVIOUS
<1>1. PICK a : /\ a[0] = [left |-> qty, lots |-> <<>>, taken |-> {}]
               /\ \A k \in 1..n : a[k] = TakeFrom(a[k - 1], lots[k])
               /\ Consume(lots, qty) = a[n]
  BY ConsumeSteps
<1> DEFINE F(k) == {lots[i] : i \in 1..k}
           Id(l, k) == \E i \in 1..k : lots[i].id = l.id
           Good(k) == /\ a[k] \in Sale
                      /\ IsFiniteSet(a[k].taken)
                      /\ \A l \in ToSet(a[k].lots) \cup a[k].taken : Id(l, k)
                      /\ IsFiniteSet(F(k))
                      /\ CostOf(ToSet(a[k].lots)) + CostOf(a[k].taken) = CostOf(F(k))
           P == {k \in 0..n : Good(k)}
<1>2. 0 \in P
  <2>1. a[0].lots = <<>> /\ a[0].taken = {} /\ a[0] \in Sale
    BY <1>1 DEF Sale
  <2>2. ToSet(a[0].lots) = {} /\ F(0) = {}
    BY <2>1 DEF ToSet
  <2>3. IsFiniteSet({}) /\ CostOf({}) = 0
    BY FS_EmptySet, NoEvents
  <2>4. CostOf(ToSet(a[0].lots)) + CostOf(a[0].taken) = CostOf(F(0))
    <3>1. ToSet(a[0].lots) = {} /\ a[0].taken = {} /\ F(0) = {}
      BY <2>1, <2>2
    <3> HIDE DEF F
    <3>2. CostOf(ToSet(a[0].lots)) = 0 /\ CostOf(a[0].taken) = 0 /\ CostOf(F(0)) = 0
      BY ONLY <2>3, <3>1
    <3> QED BY ONLY <3>2
  <2>5. Good(0)
    <3> HIDE DEF F, Id
    <3> QED BY <2>1, <2>2, <2>3, <2>4
  <2> QED BY <2>5
<1>3. ASSUME NEW k \in 1..n, k - 1 \in P PROVE k \in P
  <2> PICK acc : acc = a[k - 1]
    OBVIOUS
  <2> PICK lot : lot = lots[k]
    OBVIOUS
  <2> PICK r : r = TakeFrom(acc, lot)
    OBVIOUS
  <2>1. a[k] = r /\ lot \in Lot /\ acc \in Sale /\ r \in Sale /\ IsFiniteSet(acc.taken)
    BY <1>0, <1>1, <1>3, TakeFromType
  <2> PICK A : A = ToSet(acc.lots)
    OBVIOUS
  <2> PICK T : T = acc.taken
    OBVIOUS
  <2> PICK E : E = F(k - 1)
    OBVIOUS
  <2>2. acc.lots \in Seq(Lot) /\ acc.left \in Nat /\ T \in SUBSET Lot /\ A \in SUBSET Lot
        /\ IsFiniteSet(A) /\ IsFiniteSet(T)
    BY <2>1, ElemsAreFinite DEF Sale
  <2>3. E \in SUBSET Lot /\ IsFiniteSet(E) /\ CostOf(A) + CostOf(T) = CostOf(E)
    <3>1. E \in SUBSET Lot
      BY <1>0
    <3> QED BY <1>3, <3>1
  <2>4. F(k) = E \cup {lot}
    <3>1. \A i \in 1..k : i = k \/ i \in 1..(k - 1)
      OBVIOUS
    <3>2. \A i \in 1..(k - 1) : i \in 1..k
      OBVIOUS
    <3>3. k \in 1..k
      OBVIOUS
    <3> QED BY <3>1, <3>2, <3>3
  <2>5. \A l : Id(l, k - 1) => l.id # lot.id /\ Id(l, k)
    BY <1>0 DEF Distinct
  <2>6. \A l : l.id = lot.id => Id(l, k)
    OBVIOUS
  <2>7. \A l \in A \cup T : Id(l, k - 1)
    BY <1>3
  <2>8. \A l \in A \cup T : l.id # lot.id /\ Id(l, k)
    BY <2>5, <2>7
  <2>9. lot \notin E
    BY <1>0 DEF Distinct
  <2> HIDE DEF F, Id
  <2>10. IsFiniteSet(F(k))
    <3>1. IsFiniteSet(E \cup {lot})
      BY ONLY <2>3, FS_AddElement
    <3> QED BY <2>4, <3>1
  <2>11. CostOf(F(k)) = CostOf(E) + lot.qty * lot.price /\ lot.qty * lot.price \in Nat /\ CostOf(E) \in Nat
    BY <2>1, <2>3, <2>4, <2>9, CostGrows
  <2>12. CostOf(A) \in Nat /\ CostOf(T) \in Nat
    BY <2>2, SumsOfLots
  <2> PICK a1 \in Nat : a1 = CostOf(A)
    BY <2>12
  <2> PICK t1 \in Nat : t1 = CostOf(T)
    BY <2>12
  <2> PICK e1 \in Nat : e1 = CostOf(E)
    BY <2>11
  <2> PICK c1 \in Nat : c1 = lot.qty * lot.price
    BY <2>11
  <2> DEFINE Goal == /\ IsFiniteSet(r.taken)
                     /\ \A l \in ToSet(r.lots) \cup r.taken : Id(l, k)
                     /\ CostOf(ToSet(r.lots)) + CostOf(r.taken) = e1 + c1
  <2>13. ASSUME acc.left = 0, r = [left |-> 0, lots |-> Append(acc.lots, lot), taken |-> acc.taken]
         PROVE  Goal
    <3>1. r.lots = Append(acc.lots, lot) /\ r.taken = T /\ ToSet(Append(acc.lots, lot)) = A \cup {lot}
      BY <2>1, <2>2, <2>13, ElemsOfAppend
    <3>2. lot \notin A
      BY <2>8
    <3>3. CostOf(A \cup {lot}) = a1 + c1
      BY <2>1, <2>2, <3>2, CostGrows
    <3>4. a1 + t1 = e1
      BY <2>3
    <3>5. CostOf(ToSet(r.lots)) + CostOf(r.taken) = e1 + c1
      BY <3>1, <3>3, <3>4
    <3>6. \A l \in ToSet(r.lots) \cup r.taken : Id(l, k)
      BY <2>6, <2>8, <3>1
    <3>7. IsFiniteSet(r.taken)
      BY <2>2, <3>1
    <3> QED BY <3>5, <3>6, <3>7
  <2>14. ASSUME 0 < acc.left, acc.left < lot.qty,
                r = [left |-> 0, lots |-> Append(acc.lots, [lot EXCEPT !.qty = @ - acc.left]),
                     taken |-> acc.taken \cup {[lot EXCEPT !.qty = acc.left]}]
         PROVE  Goal
    <3> PICK l \in Nat \ {0} : l = acc.left
      BY <2>2, <2>14
    <3> PICK x : x = [lot EXCEPT !.qty = @ - l]
      OBVIOUS
    <3> PICK y : y = [lot EXCEPT !.qty = l]
      OBVIOUS
    <3>1. /\ x \in Lot /\ y \in Lot /\ x.id = lot.id /\ y.id = lot.id
          /\ x.qty * x.price + y.qty * y.price = c1
          /\ x.qty * x.price \in Nat /\ y.qty * y.price \in Nat
      BY <2>1, <2>14, CostOfParts, ZenonT(40)
    <3>2. r.lots = Append(acc.lots, x) /\ r.taken = T \cup {y}
      BY <2>14, SMTT(20)
    <3>3. ToSet(r.lots) = A \cup {x}
      <4>1. acc.lots \in Seq(Lot) /\ x \in Lot
        BY <2>2, <3>1
      <4>2. ToSet(Append(acc.lots, x)) = ToSet(acc.lots) \cup {x}
        BY ONLY <4>1, ElemsOfAppend
      <4> QED BY ONLY <3>2, <4>2, A = ToSet(acc.lots)
    <3>4. x \notin A /\ y \notin T
      BY <2>8, <3>1
    <3> PICK d1 \in Nat : d1 = x.qty * x.price
      BY <3>1
    <3> PICK d2 \in Nat : d2 = y.qty * y.price
      BY <3>1
    <3>5. CostOf(A \cup {x}) = a1 + d1 /\ CostOf(T \cup {y}) = t1 + d2
      BY <2>2, <3>1, <3>4, CostGrows, ZenonT(40)
    <3>6. a1 + t1 = e1 /\ d1 + d2 = c1
      BY <2>3, <3>1
    <3>7. CostOf(ToSet(r.lots)) + CostOf(r.taken) = e1 + c1
      <4>1. (a1 + d1) + (t1 + d2) = e1 + c1
        BY ONLY <3>6, a1 \in Nat, t1 \in Nat, d1 \in Nat, d2 \in Nat
      <4> QED BY ONLY <3>2, <3>3, <3>5, <4>1
    <3>8. IsFiniteSet(r.taken)
      <4>1. IsFiniteSet(T \cup {y})
        BY ONLY <2>2, FS_AddElement
      <4> QED BY <3>2, <4>1
    <3>9. \A u \in ToSet(r.lots) \cup r.taken : Id(u, k)
      <4>1. ToSet(r.lots) \cup r.taken = (A \cup T) \cup {x, y}
        BY ONLY <3>2, <3>3
      <4>2. Id(x, k) /\ Id(y, k)
        BY <2>6, <3>1
      <4> QED BY ONLY <2>8, <4>1, <4>2
    <3> QED BY <3>7, <3>8, <3>9
  <2>15. ASSUME lot.qty <= acc.left,
                r = [left |-> acc.left - lot.qty, lots |-> acc.lots, taken |-> acc.taken \cup {lot}]
         PROVE  Goal
    <3>1. r.lots = acc.lots /\ r.taken = T \cup {lot} /\ ToSet(r.lots) = A
      BY <2>15
    <3>2. lot \notin T
      BY <2>8
    <3>3. CostOf(T \cup {lot}) = t1 + c1
      BY <2>1, <2>2, <3>2, CostGrows
    <3>4. a1 + t1 = e1
      BY <2>3
    <3>5. CostOf(ToSet(r.lots)) + CostOf(r.taken) = e1 + c1
      BY <3>1, <3>3, <3>4
    <3>6. IsFiniteSet(r.taken)
      <4>1. IsFiniteSet(T \cup {lot})
        BY ONLY <2>2, FS_AddElement
      <4> QED BY <3>1, <4>1
    <3>7. \A u \in ToSet(r.lots) \cup r.taken : Id(u, k)
      <4>1. ToSet(r.lots) \cup r.taken = (A \cup T) \cup {lot}
        BY ONLY <3>1
      <4>2. Id(lot, k)
        BY <2>6
      <4> QED BY ONLY <2>8, <4>1, <4>2
    <3> QED BY <3>5, <3>6, <3>7
  <2>16. Goal
    <3> HIDE DEF Goal
    <3> QED BY <2>1, <2>13, <2>14, <2>15, TakeFromCases
  <2> QED BY <2>1, <2>10, <2>11, <2>16
<1>4. n \in P
  <2> PICK Q : Q = P
    OBVIOUS
  <2> HIDE DEF P
  <2>1. 0 \in Q /\ \A k \in 1..n : k - 1 \in Q => k \in Q
    BY <1>2, <1>3
  <2>2. \A k \in 0..n : k \in Q
    BY <2>1, Climbing
  <2> QED BY <2>2
<1>5. F(n) = ToSet(lots)
  BY <1>0 DEF ToSet
<1> HIDE DEF F
<1> QED BY <1>1, <1>4, <1>5

-----------------------------------------------------------------------------
(* Books balance *)

(* What the rows of T paid, less what they brought in.                     *)
PaidBy(T) == SumFunction([t \in T |-> Signed(t) * t.price])

(* A row pays its amount or is paid it.                                    *)
LEMMA PaymentIs ==
  ASSUME NEW t \in Transaction
  PROVE  /\ t.qty * t.price \in Nat /\ t.fee \in Nat
         /\ Signed(t) * t.price = (IF t.side = "BUY" THEN t.qty * t.price ELSE 0 - t.qty * t.price)
         /\ CashFlow(t) = 0 - Signed(t) * t.price - t.fee
         /\ Signed(t) * t.price \in Int
<1> PICK q \in Nat : q = t.qty
  BY DEF Transaction
<1> PICK x \in Nat : x = t.price
  BY DEF Transaction
<1> PICK f \in Nat : f = t.fee
  BY DEF Transaction
<1> PICK y \in Nat : y = q * x
  OBVIOUS
<1>1. (0 - q) * x = 0 - y
  OBVIOUS
<1>2. CashFlow(t) = IF t.side = "BUY" THEN 0 - (y + f) ELSE y - f
  BY DEF CashFlow
<1>3. Signed(t) * t.price = (IF t.side = "BUY" THEN y ELSE 0 - y)
  <2>1. CASE t.side = "BUY"
    <3>1. Signed(t) = q
      BY <2>1 DEF Signed
    <3> QED BY <2>1, <3>1
  <2>2. CASE t.side # "BUY"
    <3>1. Signed(t) = 0 - q
      BY <2>2 DEF Signed
    <3> QED BY <1>1, <2>2, <3>1
  <2> QED BY <2>1, <2>2
<1> PICK s \in Int : s = Signed(t) * t.price
  BY <1>3
<1>4. CashFlow(t) = 0 - s - f
  BY <1>2, <1>3
<1> QED BY <1>3, <1>4

(* One more row adds its payment.                                          *)
LEMMA PaidGrows ==
  ASSUME NEW T, Rows(T), NEW t \in Transaction, t \notin T
  PROVE  PaidBy(T \cup {t}) = PaidBy(T) + Signed(t) * t.price /\ PaidBy(T) \in Int
<1> PICK D : D = T \cup {t}
  OBVIOUS
<1> PICK f : f = [u \in T |-> Signed(u) * u.price]
  OBVIOUS
<1> PICK g : g = [u \in D |-> Signed(u) * u.price]
  OBVIOUS
<1>1. IsFiniteSet(T) /\ \A u \in D : Signed(u) * u.price \in Int
  <2>1. \A u \in D : u \in Transaction
    BY DEF Rows
  <2> QED BY <2>1, PaymentIs DEF Rows
<1>2. \A u \in T : g[u] = f[u] /\ f[u] \in Int
  BY <1>1
<1>3. g[t] = Signed(t) * t.price /\ g[t] \in Int
  BY <1>1
<1>4. SumFunctionOnSet(g, T \cup {t}) = SumFunctionOnSet(f, T) + g[t]
  BY <1>1, <1>2, <1>3, SumGrows
<1>5. SumFunctionOnSet(f, T) \in Int
  BY <1>1, <1>2, SumIsInt
<1> QED BY <1>3, <1>4, <1>5 DEF PaidBy, SumFunction

(* Nothing was paid by no rows.                                            *)
LEMMA NothingPaid == PaidBy({}) = 0
<1>1. \A f : SumFunctionOnSet(f, {}) = 0
  BY SumUnfolds, FS_EmptySet
<1> QED BY <1>1 DEF PaidBy, SumFunction

(* The book of the rows T: what was invested is open or was sold, and what *)
(* was invested less the proceeds is what the rows paid.                   *)
Balanced(b, T) ==
  /\ b \in Book
  /\ Distinct(b.lots)
  /\ \A l \in ToSet(b.lots) : \E t \in T : t.id = l.id
  /\ CostOf(ToSet(b.lots)) + b.costOfSold = b.invested
  /\ b.invested - b.proceeds = PaidBy(T)

(* The book of no rows is balanced.                                        *)
LEMMA BalancedFirst == Balanced(EmptyBook, {})
<1>1. /\ EmptyBook.lots = <<>> /\ EmptyBook.costOfSold = 0
      /\ EmptyBook.invested = 0 /\ EmptyBook.proceeds = 0
  BY DEF EmptyBook
<1>2. ToSet(EmptyBook.lots) = {} /\ Distinct(EmptyBook.lots)
  BY <1>1 DEF ToSet, Distinct
<1>3. CostOf(ToSet(EmptyBook.lots)) = 0
  BY <1>2, NoEvents
<1> QED BY <1>1, <1>2, <1>3, EmptyBookType, NothingPaid DEF Balanced

(* A purchase keeps a book balanced.                                       *)
LEMMA BalancedBuy ==
  ASSUME NEW T, NEW t, t \notin T, Rows(T \cup {t}), Rows(T), t.side = "BUY",
         NEW b, Balanced(b, T)
  PROVE  Balanced(Bought(b, t), T \cup {t})
<1> PICK lot : lot = [id |-> t.id, qty |-> t.qty, price |-> t.price]
  OBVIOUS
<1>0. t \in Transaction /\ b \in Book /\ \A u \in T : u.id # t.id
  BY DEF Rows, Balanced
<1>1. lot \in Lot /\ b.lots \in Seq(Lot) /\ lot.id = t.id /\ lot.qty * lot.price = t.qty * t.price
  BY <1>0 DEF Transaction, Lot, Book
<1> PICK L \in Seq(Lot) : L = b.lots
  BY <1>1
<1> PICK A : A = ToSet(L)
  OBVIOUS
<1>2. A \in SUBSET Lot /\ IsFiniteSet(A) /\ ToSet(Append(L, lot)) = A \cup {lot}
  BY <1>1, ElemsAreFinite, ElemsOfAppend
<1>3. Distinct(L) /\ \A l \in A : \E u \in T : u.id = l.id
  BY DEF Balanced
<1>4. \A l \in A : l.id # lot.id
  BY <1>0, <1>1, <1>3
<1>5. Distinct(Append(L, lot))
  BY <1>1, <1>3, <1>4, DistinctAppend
<1> PICK d \in Nat : d = t.qty * t.price
  BY <1>0, PaymentIs
<1> PICK c \in Nat : c = CostOf(A)
  BY <1>2, SumsOfLots
<1>6. CostOf(A \cup {lot}) = c + d
  <2>1. lot \notin A
    BY <1>4
  <2> QED BY <1>1, <1>2, <2>1, CostGrows
<1> PICK r : r = Bought(b, t)
  OBVIOUS
<1>7. r \in Book
  BY <1>0, BoughtType
<1>8. /\ r.lots = Append(L, lot) /\ r.costOfSold = b.costOfSold /\ r.invested = b.invested + d
      /\ r.proceeds = b.proceeds
  BY <1>0 DEF Bought, Book
<1>9. b.costOfSold \in Int /\ b.invested \in Nat /\ b.proceeds \in Nat
  BY <1>0 DEF Book
<1> PICK s \in Int : s = b.costOfSold
  BY <1>9
<1> PICK i \in Nat : i = b.invested
  BY <1>9
<1> PICK p \in Nat : p = b.proceeds
  BY <1>9
<1>10. c + s = i /\ i - p = PaidBy(T)
  BY DEF Balanced
<1>11. PaidBy(T \cup {t}) = PaidBy(T) + d
  <2>1. Signed(t) * t.price = d
    BY <1>0, PaymentIs
  <2> QED BY <1>0, <2>1, PaidGrows
<1>12. CostOf(ToSet(r.lots)) + r.costOfSold = r.invested
  <2>1. (c + d) + s = i + d
    BY <1>10
  <2> QED BY <1>2, <1>6, <1>8, <2>1
<1>13. r.invested - r.proceeds = PaidBy(T \cup {t})
  <2>1. (i + d) - p = (i - p) + d
    OBVIOUS
  <2> QED BY <1>8, <1>10, <1>11, <2>1
<1>14. \A l \in ToSet(r.lots) : \E u \in T \cup {t} : u.id = l.id
  BY <1>1, <1>2, <1>3, <1>8
<1> QED BY <1>5, <1>7, <1>8, <1>12, <1>13, <1>14 DEF Balanced

(* A sale keeps a book balanced.                                           *)
LEMMA BalancedSell ==
  ASSUME NEW T, NEW t, t \notin T, Rows(T \cup {t}), Rows(T), t.side # "BUY",
         NEW b, Balanced(b, T)
  PROVE  Balanced(Sold(b, t), T \cup {t})
<1>0. t \in Transaction /\ b \in Book
  BY DEF Rows, Balanced
<1> PICK q \in Nat : q = t.qty
  BY <1>0 DEF Transaction
<1> PICK L \in Seq(Lot) : L = b.lots
  BY <1>0 DEF Book
<1> PICK sale : sale = Consume(L, q)
  OBVIOUS
<1>1. /\ sale \in Sale /\ IsFiniteSet(sale.taken)
      /\ \A l \in ToSet(sale.lots) : \E i \in 1..Len(L) : L[i].id = l.id
      /\ Distinct(L) => Distinct(sale.lots)
  BY ConsumeKeeps
<1>2. Distinct(L) /\ \A l \in ToSet(L) : \E u \in T : u.id = l.id
  BY DEF Balanced
<1>3. CostOf(ToSet(sale.lots)) + CostOf(sale.taken) = CostOf(ToSet(L))
  BY <1>2, SaleCost
<1>4. ToSet(sale.lots) \in SUBSET Lot /\ IsFiniteSet(ToSet(sale.lots)) /\ sale.taken \in SUBSET Lot
      /\ ToSet(L) \in SUBSET Lot /\ IsFiniteSet(ToSet(L))
  BY <1>1, ElemsAreFinite DEF Sale
<1> PICK c \in Nat : c = CostOf(ToSet(sale.lots))
  BY <1>4, SumsOfLots
<1> PICK k \in Nat : k = CostOf(sale.taken)
  BY <1>1, <1>4, SumsOfLots
<1> PICK d \in Nat : d = t.qty * t.price
  BY <1>0, PaymentIs
<1> PICK r : r = Sold(b, t)
  OBVIOUS
<1>5. r \in Book
  BY <1>0, SoldType
<1>6. /\ r.lots = sale.lots /\ r.costOfSold = b.costOfSold + k /\ r.invested = b.invested
      /\ r.proceeds = b.proceeds + d
  BY <1>0 DEF Sold, Settle, Book
<1>7. b.costOfSold \in Int /\ b.invested \in Nat /\ b.proceeds \in Nat
  BY <1>0 DEF Book
<1> PICK s \in Int : s = b.costOfSold
  BY <1>7
<1> PICK i \in Nat : i = b.invested
  BY <1>7
<1> PICK p \in Nat : p = b.proceeds
  BY <1>7
<1>8. (c + k) + s = i /\ i - p = PaidBy(T)
  BY <1>3 DEF Balanced
<1>9. PaidBy(T \cup {t}) = PaidBy(T) + (0 - d)
  <2>1. Signed(t) * t.price = 0 - d
    BY <1>0, PaymentIs
  <2> QED BY <1>0, <2>1, PaidGrows
<1>10. CostOf(ToSet(r.lots)) + r.costOfSold = r.invested
  <2>1. c + (s + k) = i
    BY <1>8
  <2> QED BY <1>6, <2>1
<1>11. r.invested - r.proceeds = PaidBy(T \cup {t})
  <2>1. i - (p + d) = (i - p) + (0 - d)
    BY SMTT(20)
  <2> QED BY <1>6, <1>8, <1>9, <2>1
<1>12. \A l \in ToSet(r.lots) : \E u \in T \cup {t} : u.id = l.id
  <2> TAKE l \in ToSet(r.lots)
  <2>1. PICK j \in 1..Len(L) : L[j].id = l.id
    BY <1>1, <1>6
  <2>2. L[j] \in ToSet(L)
    BY DEF ToSet
  <2> QED BY <1>2, <2>1, <2>2
<1> QED BY <1>1, <1>2, <1>5, <1>6, <1>10, <1>11, <1>12 DEF Balanced

(* The books of all keys are balanced.                                     *)
LEMMA BooksBalance ==
  ASSUME NEW R, Rows(R), NEW k \in Keys
  PROVE  Balanced(Fifo(R)[k], {t \in R : KeyOf(t) = k})
<1> PICK n \in Nat : n = Cardinality(R)
  BY StreamIsSorted
<1> PICK S : S = Stream(R)
  OBVIOUS
<1>1. /\ \A i \in 1..n : S[i] \in R /\ S[i] \in Transaction
      /\ \A t \in R : \E i \in 1..n : S[i] = t
      /\ \A i \in 1..n : \A j \in 1..n : i < j => Before(S[i], S[j])
  BY StreamIsSorted DEF Rows
<1>2. PICK a : /\ a[0] = [h \in Keys |-> EmptyBook]
               /\ \A m \in 1..n : a[m] = Booked(a[m - 1], S[m])
               /\ Fifo(R) = a[n]
  BY FifoSteps
<1> DEFINE T(m) == {t \in R : KeyOf(t) = k /\ \E i \in 1..m : S[i] = t}
           P == {m \in 0..n : a[m] \in [Keys -> Book] /\ Balanced(a[m][k], T(m))}
<1>3. 0 \in P
  <2>1. T(0) = {}
    OBVIOUS
  <2>2. a[0] \in [Keys -> Book] /\ a[0][k] = EmptyBook
    BY <1>2, EmptyBookType
  <2> HIDE DEF T
  <2> QED BY <2>1, <2>2, BalancedFirst
<1>4. ASSUME NEW m \in 1..n, m - 1 \in P PROVE m \in P
  <2> PICK t : t = S[m]
    OBVIOUS
  <2> PICK b : b = a[m - 1]
    OBVIOUS
  <2> PICK A : A = T(m - 1)
    OBVIOUS
  <2> PICK h \in Keys : h = KeyOf(t)
    BY <1>1, KeyOfType
  <2>1. t \in R /\ t \in Transaction /\ a[m] = Booked(b, t)
    BY <1>1, <1>2
  <2>2. b \in [Keys -> Book] /\ Balanced(b[k], A)
    BY <1>4
  <2>3. a[m] \in [Keys -> Book] /\ a[m][k] = IF k = h THEN (IF t.side = "BUY" THEN Bought(b[h], t) ELSE Sold(b[h], t)) ELSE b[k]
    BY <2>1, <2>2, BookedType DEF Booked
  <2>4. \A i \in 1..m : i = m \/ i \in 1..(m - 1)
    OBVIOUS
  <2>5. (\A i \in 1..(m - 1) : i \in 1..m) /\ m \in 1..m
    OBVIOUS
  <2>6. CASE h # k
    <3>1. T(m) = A
      BY <2>4, <2>5, <2>6
    <3> HIDE DEF T
    <3> QED BY <2>2, <2>3, <2>6, <3>1
  <2>7. CASE h = k
    <3>1. T(m) = A \cup {t}
      BY <2>1, <2>4, <2>5, <2>7
    <3>2. \A u \in A : Before(u, t)
      <4> TAKE u \in A
      <4>1. PICK i \in 1..(m - 1) : S[i] = u
        OBVIOUS
      <4>2. i \in 1..n /\ i < m
        OBVIOUS
      <4> QED BY <1>1, <4>1, <4>2
    <3>3. t \notin A
      BY <2>1, <3>2, RowOrder
    <3>4. Rows(A \cup {t}) /\ Rows(A)
      <4>1. A \cup {t} \in SUBSET R
        BY <2>1
      <4>2. A \in SUBSET R
        BY <4>1
      <4> QED BY <4>1, <4>2, RowsOfSubset
    <3> HIDE DEF T
    <3>5. Balanced(a[m][k], A \cup {t})
      BY <2>2, <2>3, <2>7, <3>3, <3>4, BalancedBuy, BalancedSell
    <3>6. Balanced(a[m][k], T(m))
      BY ONLY <3>1, <3>5
    <3> QED BY <2>3, <3>6
  <2> QED BY <2>6, <2>7
<1>5. n \in P
  <2> PICK Q : Q = P
    OBVIOUS
  <2> HIDE DEF P
  <2>1. 0 \in Q /\ \A i \in 1..n : i - 1 \in Q => i \in Q
    BY <1>3, <1>4
  <2>2. \A i \in 0..n : i \in Q
    BY <2>1, Climbing
  <2> QED BY <2>2
<1>6. T(n) = {t \in R : KeyOf(t) = k}
  BY <1>1
<1> HIDE DEF T
<1> QED BY <1>2, <1>5, <1>6

(* What is open cost the proceeds, less the cost of what was sold, and     *)
(* what the rows paid.                                                     *)
LEMMA OpenCostOf ==
  ASSUME NEW R, Rows(R), NEW k \in Keys
  PROVE  LET b == Fifo(R)[k]
             T == {t \in R : KeyOf(t) = k}
         IN /\ b \in Book
            /\ CostOf(ToSet(b.lots)) \in Nat
            /\ PaidBy(T) \in Int
            /\ CostOf(ToSet(b.lots)) = (b.proceeds - b.costOfSold) + PaidBy(T)
<1> PICK b : b = Fifo(R)[k]
  OBVIOUS
<1> PICK T : T = {t \in R : KeyOf(t) = k}
  OBVIOUS
<1>1. Balanced(b, T)
  BY BooksBalance
<1>2. b \in Book /\ b.lots \in Seq(Lot)
  BY <1>1 DEF Balanced, Book
<1>3. CostOf(ToSet(b.lots)) \in Nat
  BY <1>2, ElemsAreFinite, SumsOfLots
<1> PICK c \in Nat : c = CostOf(ToSet(b.lots))
  BY <1>3
<1>4. b.costOfSold \in Int /\ b.invested \in Nat /\ b.proceeds \in Nat
  BY <1>2 DEF Book
<1> PICK s \in Int : s = b.costOfSold
  BY <1>4
<1> PICK i \in Nat : i = b.invested
  BY <1>4
<1> PICK p \in Nat : p = b.proceeds
  BY <1>4
<1>5. c + s = i /\ i - p = PaidBy(T)
  BY <1>1 DEF Balanced
<1>6. c = (p - s) + (i - p)
  BY <1>5
<1>7. i - p \in Int
  OBVIOUS
<1> QED BY <1>2, <1>5, <1>6, <1>7

-----------------------------------------------------------------------------
(* Cash settles *)

FeesOf(T) == SumFunction([t \in T |-> t.fee])

(* One more row adds its fee.                                              *)
LEMMA FeesGrow ==
  ASSUME NEW T, Rows(T), NEW t \in Transaction, t \notin T
  PROVE  FeesOf(T \cup {t}) = FeesOf(T) + t.fee /\ FeesOf(T) \in Int
<1> PICK D : D = T \cup {t}
  OBVIOUS
<1> PICK f : f = [u \in T |-> u.fee]
  OBVIOUS
<1> PICK g : g = [u \in D |-> u.fee]
  OBVIOUS
<1>1. IsFiniteSet(T) /\ \A u \in D : u.fee \in Int
  BY DEF Rows, Transaction
<1>2. \A u \in T : g[u] = f[u] /\ f[u] \in Int
  BY <1>1
<1>3. g[t] = t.fee /\ g[t] \in Int
  BY <1>1
<1>4. SumFunctionOnSet(g, T \cup {t}) = SumFunctionOnSet(f, T) + g[t]
  BY <1>1, <1>2, <1>3, SumGrows
<1>5. SumFunctionOnSet(f, T) \in Int
  BY <1>1, <1>2, SumIsInt
<1> QED BY <1>3, <1>4, <1>5 DEF FeesOf, SumFunction

(* No rows charge no fee.                                                  *)
LEMMA NoFees == FeesOf({}) = 0
<1>1. \A f : SumFunctionOnSet(f, {}) = 0
  BY SumUnfolds, FS_EmptySet
<1> QED BY <1>1 DEF FeesOf, SumFunction

(* Payments and fees are amounts.                                          *)
LEMMA SumsOfRows ==
  ASSUME NEW T, Rows(T) PROVE PaidBy(T) \in Int /\ FeesOf(T) \in Int
<1> PICK f : f = [u \in T |-> Signed(u) * u.price]
  OBVIOUS
<1> PICK g : g = [u \in T |-> u.fee]
  OBVIOUS
<1>1. IsFiniteSet(T) /\ \A u \in T : u \in Transaction
  BY DEF Rows
<1>2. \A u \in T : f[u] \in Int /\ g[u] \in Int
  BY <1>1, PaymentIs
<1>3. SumFunctionOnSet(f, T) \in Int /\ SumFunctionOnSet(g, T) \in Int
  BY <1>1, <1>2, SumIsInt
<1> QED BY <1>3 DEF PaidBy, FeesOf, SumFunction

(* The balances of the cash keys of portfolio p, added up.                 *)
BalanceOf(acc, p) == SumFunctionOnSet([a \in CashAssets[p] |-> acc.balance[<<p, a>>]], CashAssets[p])

(* The pass after the cash rows C, which charged the rows H to portfolio p.*)
Settled(acc, C, H, p) ==
  /\ acc \in Cash
  /\ acc.seen = {KeyOf(t) : t \in C}
  /\ \A k \in Keys : k \notin acc.seen => acc.balance[k] = 0
  /\ BalanceOf(acc, p) = PaidBy(C) - PaidBy(H) - FeesOf(H)

(* A cash asset's keys are keys, finitely many.                            *)
LEMMA CashKeys ==
  ASSUME NEW p \in Pid
  PROVE  /\ CashAssets[p] \in SUBSET Asset /\ IsFiniteSet(CashAssets[p])
         /\ \A a \in CashAssets[p] : <<p, a>> \in Keys
<1>1. CashAssets[p] \in SUBSET Asset
  BY CashAssumption
<1>2. IsFiniteSet(CashAssets[p])
  BY <1>1, ValueAssumption, FS_Subset
<1> QED BY <1>1, <1>2 DEF Keys

(* A balance moved is the sum of the balances moved.                       *)
LEMMA BalanceMoves ==
  ASSUME NEW p \in Pid, NEW x \in Cash, NEW y \in Cash, NEW a \in CashAssets[p], NEW d \in Int,
         y.balance[<<p, a>>] = x.balance[<<p, a>>] + d,
         \A k \in Keys : k # <<p, a>> => y.balance[k] = x.balance[k]
  PROVE  BalanceOf(y, p) = BalanceOf(x, p) + d
<1> PICK A : A = CashAssets[p]
  OBVIOUS
<1> PICK f : f = [b \in A |-> x.balance[<<p, b>>]]
  OBVIOUS
<1> PICK g : g = [b \in A |-> y.balance[<<p, b>>]]
  OBVIOUS
<1>1. IsFiniteSet(A) /\ (\A b \in A : <<p, b>> \in Keys) /\ a \in A
  BY CashKeys
<1>2. \A b \in A : f[b] \in Int
  <2>1. \A k \in Keys : x.balance[k] \in Int
    BY DEF Cash
  <2> QED BY <1>1, <2>1
<1>3. g[a] = f[a] + d
  BY <1>1
<1>4. \A b \in A \ {a} : g[b] = f[b]
  BY <1>1
<1>5. SumFunctionOnSet(g, A) = SumFunctionOnSet(f, A) + d
  BY ONLY d \in Int, <1>1, <1>2, <1>3, <1>4, SumBumps
<1> QED BY <1>5 DEF BalanceOf

(* At the start nothing is seen and nothing is charged.                    *)
LEMMA SettledFirst == ASSUME NEW p \in Pid PROVE Settled(NoCash, {}, {}, p)
<1>1. NoCash \in Cash /\ NoCash.seen = {} /\ \A k \in Keys : NoCash.balance[k] = 0
  BY DEF NoCash, Cash
<1> PICK A : A = CashAssets[p]
  OBVIOUS
<1> PICK f : f = [b \in A |-> NoCash.balance[<<p, b>>]]
  OBVIOUS
<1>2. IsFiniteSet(A) /\ \A b \in A : f[b] = 0
  BY <1>1, CashKeys
<1>3. SumFunctionOnSet(f, A) = 0
  BY <1>2, SumOfZeros
<1>4. BalanceOf(NoCash, p) = 0
  BY <1>3 DEF BalanceOf
<1>5. PaidBy({}) = 0 /\ FeesOf({}) = 0
  BY NothingPaid, NoFees
<1>6. BalanceOf(NoCash, p) = PaidBy({}) - PaidBy({}) - FeesOf({})
  BY ONLY <1>4, <1>5
<1> QED BY <1>1, <1>6 DEF Settled

(* A cash row moves its own balance.                                       *)
LEMMA SettledCash ==
  ASSUME NEW p \in Pid, NEW acc, NEW C, NEW H, Settled(acc, C, H, p), Rows(C), Rows(H),
         NEW t \in Transaction, t \notin C, t.pid = p, IsCash(t),
         NEW S, NEW r \in Cash, \A k \in Keys : MovedAt(r, acc, t, S, k)
  PROVE  Settled(r, C \cup {t}, H, p)
<1> PICK d \in Int : d = Signed(t) * t.price
  BY PaymentIs
<1> PICK x \in Cash : x = acc
  BY DEF Settled
<1>1. KeyOf(t) = <<p, t.asset>> /\ t.asset \in CashAssets[p] /\ KeyOf(t) \in Keys
  BY KeyOfType DEF KeyOf, IsCash
<1>2. /\ r.seen = x.seen \cup {KeyOf(t)}
      /\ r.balance[KeyOf(t)] = x.balance[KeyOf(t)] + d
      /\ \A k \in Keys : k # KeyOf(t) => r.balance[k] = x.balance[k]
  BY <1>1 DEF MovedAt
<1>3. BalanceOf(r, p) = BalanceOf(x, p) + d
  BY <1>1, <1>2, BalanceMoves
<1>4. PaidBy(C \cup {t}) = PaidBy(C) + d /\ PaidBy(C) \in Int
  BY PaidGrows
<1>5. BalanceOf(x, p) = PaidBy(C) - PaidBy(H) - FeesOf(H)
  BY DEF Settled
<1>6. PaidBy(H) \in Int /\ FeesOf(H) \in Int
  BY SumsOfRows
<1>7. BalanceOf(r, p) = PaidBy(C \cup {t}) - PaidBy(H) - FeesOf(H)
  <2> PICK u \in Int : u = PaidBy(C)
    BY <1>4
  <2> PICK v \in Int : v = PaidBy(H)
    BY <1>6
  <2> PICK w \in Int : w = FeesOf(H)
    BY <1>6
  <2>1. (u - v - w) + d = (u + d) - v - w
    OBVIOUS
  <2> QED BY <1>3, <1>4, <1>5, <2>1
<1>8. x.seen = {KeyOf(u) : u \in C} /\ \A k \in Keys : k \notin x.seen => x.balance[k] = 0
  BY DEF Settled
<1>9. r.seen = {KeyOf(u) : u \in C \cup {t}}
  BY <1>2, <1>8
<1>10. \A k \in Keys : k \notin r.seen => r.balance[k] = 0
  BY <1>2, <1>8
<1> QED BY <1>7, <1>9, <1>10 DEF Settled

(* A row charged to the portfolio moves the balance of its first cash row. *)
LEMMA SettledCharge ==
  ASSUME NEW p \in Pid, NEW acc, NEW C, NEW H, Settled(acc, C, H, p), Rows(C), Rows(H),
         NEW t \in Transaction, t \notin H, t.pid = p, ~IsCash(t), Charges(acc, t),
         NEW S, <<p, FirstCash(S, p)>> \in acc.seen, FirstCash(S, p) \in CashAssets[p],
         NEW r \in Cash, \A k \in Keys : MovedAt(r, acc, t, S, k)
  PROVE  Settled(r, C, H \cup {t}, p)
<1> PICK d \in Int : d = Signed(t) * t.price
  BY PaymentIs
<1> PICK e \in Int : e = t.fee
  BY PaymentIs
<1> PICK x \in Cash : x = acc
  BY DEF Settled
<1> PICK g \in Keys : g = <<p, FirstCash(S, p)>>
  BY DEF Cash
<1>1. CashFlow(t) = 0 - d - e
  BY PaymentIs
<1>2. /\ r.seen = x.seen
      /\ r.balance[g] = x.balance[g] + (0 - d - e)
      /\ \A k \in Keys : k # g => r.balance[k] = x.balance[k]
  BY <1>1 DEF MovedAt
<1>3. BalanceOf(r, p) = BalanceOf(x, p) + (0 - d - e)
  <2>1. 0 - d - e \in Int
    OBVIOUS
  <2> QED BY <1>2, <2>1, BalanceMoves
<1>4. PaidBy(H \cup {t}) = PaidBy(H) + d /\ PaidBy(H) \in Int
  BY PaidGrows
<1>5. FeesOf(H \cup {t}) = FeesOf(H) + e /\ FeesOf(H) \in Int
  BY FeesGrow
<1>6. BalanceOf(x, p) = PaidBy(C) - PaidBy(H) - FeesOf(H)
  BY DEF Settled
<1>7. PaidBy(C) \in Int
  BY SumsOfRows
<1>8. BalanceOf(r, p) = PaidBy(C) - PaidBy(H \cup {t}) - FeesOf(H \cup {t})
  <2> PICK u \in Int : u = PaidBy(C)
    BY <1>7
  <2> PICK v \in Int : v = PaidBy(H)
    BY <1>4
  <2> PICK w \in Int : w = FeesOf(H)
    BY <1>5
  <2>1. (u - v - w) + (0 - d - e) = u - (v + d) - (w + e)
    OBVIOUS
  <2> QED BY <1>3, <1>4, <1>5, <1>6, <2>1
<1>9. x.seen = {KeyOf(u) : u \in C} /\ \A k \in Keys : k \notin x.seen => x.balance[k] = 0
  BY DEF Settled
<1>10. \A k \in Keys : k \notin r.seen => r.balance[k] = 0
  BY <1>2, <1>9
<1> QED BY <1>2, <1>8, <1>9, <1>10 DEF Settled

CashOf(T) == {t \in T : IsCash(t)}
(* The rows of T that a cash row of R came before.                         *)
ChargedOf(T, R) == {t \in T : ~IsCash(t) /\ \E c \in CashOf(R) : Before(c, t)}

(* The pass over the rows of one portfolio ends with its cash rows seen    *)
(* and the rows after the first of them charged.                           *)
LEMMA CashSettles ==
  ASSUME NEW R, Rows(R), NEW p \in Pid, \A t \in R : t.pid = p
  PROVE  \E acc : /\ Settled(acc, CashOf(R), ChargedOf(R, R), p)
                  /\ CashBalances(R) = [k \in acc.seen |-> acc.balance[k]]
<1> PICK n \in Nat : n = Cardinality(R)
  BY StreamIsSorted
<1> PICK S : S = Stream(R)
  OBVIOUS
<1>1. /\ \A i \in 1..n : S[i] \in R /\ S[i] \in Transaction
      /\ \A t \in R : \E i \in 1..n : S[i] = t
      /\ \A i \in 1..n : \A j \in 1..n : i < j => Before(S[i], S[j])
  BY StreamIsSorted DEF Rows
<1>2. PICK a : CashWalk(a, R)
  BY CashSteps
<1>3. /\ a[0] = NoCash
      /\ \A m \in 1..n : a[m] = CashMoved(a[m - 1], S[m], S)
      /\ \A m \in 0..n : a[m] \in Cash
      /\ CashBalances(R) = [g \in a[n].seen |-> a[n].balance[g]]
  BY <1>2 DEF CashWalk, CashUpTo
<1> DEFINE T(m) == {t \in R : \E i \in 1..m : S[i] = t}
           P == {m \in 0..n : Settled(a[m], CashOf(T(m)), ChargedOf(T(m), R), p)}
<1>4. 0 \in P
  <2>1. T(0) = {}
    OBVIOUS
  <2>2. CashOf({}) = {} /\ ChargedOf({}, R) = {}
    BY DEF CashOf, ChargedOf
  <2> HIDE DEF T
  <2>3. Settled(a[0], CashOf(T(0)), ChargedOf(T(0), R), p)
    BY <1>3, <2>1, <2>2, SettledFirst
  <2> QED BY <2>3
<1>5. ASSUME NEW m \in 1..n, m - 1 \in P PROVE m \in P
  <2> PICK t : t = S[m]
    OBVIOUS
  <2> PICK acc : acc = a[m - 1]
    OBVIOUS
  <2> PICK r : r = a[m]
    OBVIOUS
  <2> PICK A : A = T(m - 1)
    OBVIOUS
  <2> PICK C : C = CashOf(A)
    OBVIOUS
  <2> PICK H : H = ChargedOf(A, R)
    OBVIOUS
  <2>1. t \in R /\ t \in Transaction /\ r = CashMoved(acc, t, S) /\ t.pid = p /\ r \in Cash
    BY <1>1, <1>3
  <2>2. Settled(acc, C, H, p)
    BY <1>5
  <2>3. A \in SUBSET R
    OBVIOUS
  <2>4. T(m) = A \cup {t}
    <3>1. \A i \in 1..m : i = m \/ i \in 1..(m - 1)
      OBVIOUS
    <3>2. (\A i \in 1..(m - 1) : i \in 1..m) /\ m \in 1..m
      OBVIOUS
    <3> QED BY <2>1, <3>1, <3>2
  <2>5. \A u \in A : Before(u, t)
    <3> TAKE u \in A
    <3>1. PICK i \in 1..(m - 1) : S[i] = u
      OBVIOUS
    <3>2. i \in 1..n /\ i < m
      OBVIOUS
    <3> QED BY <1>1, <3>1, <3>2
  <2>6. \A u \in R : Before(u, t) => u \in A
    <3> TAKE u \in R
    <3> SUFFICES ASSUME Before(u, t) PROVE u \in A
      OBVIOUS
    <3>1. PICK i \in 1..n : S[i] = u
      BY <1>1
    <3>2. i < m
      <4>1. ~Before(t, u) /\ u # t
        BY <2>1, RowOrder
      <4>2. CASE i = m
        BY <3>1, <4>1, <4>2
      <4>3. CASE m < i
        BY <1>1, <3>1, <4>1, <4>3
      <4> QED BY <4>2, <4>3
    <3>3. i \in 1..(m - 1)
      BY <3>2
    <3> QED BY <3>1, <3>3
  <2> HIDE DEF T
  <2>7. t \notin A
    BY <2>1, <2>5, RowOrder
  <2>8. Rows(C) /\ Rows(H) /\ t \notin C /\ t \notin H
    <3>1. C \in SUBSET R /\ H \in SUBSET R
      BY <2>3 DEF CashOf, ChargedOf
    <3>2. t \notin C /\ t \notin H
      BY <2>7 DEF CashOf, ChargedOf
    <3> QED BY <3>1, <3>2, RowsOfSubset
  <2>9. acc \in Cash /\ acc.seen = {KeyOf(u) : u \in C}
    BY <2>2 DEF Settled
  <2>10. \A k \in Keys : MovedAt(r, acc, t, S, k)
    BY <2>1, <2>9, CashMovedIs
  <2>11. Charges(acc, t) <=> C # {}
    <3>1. \A u \in C : KeyOf(u)[1] = p
      BY <2>3 DEF CashOf, KeyOf
    <3> QED BY <2>1, <2>9, <3>1 DEF Charges
  <2>12. C # {} <=> \E c \in CashOf(R) : Before(c, t)
    <3>1. ASSUME NEW c \in C PROVE c \in CashOf(R) /\ Before(c, t)
      BY <2>3, <2>5 DEF CashOf
    <3>2. ASSUME NEW c \in CashOf(R), Before(c, t) PROVE c \in C
      BY <2>6, <3>2 DEF CashOf
    <3> QED BY <3>1, <3>2
  <2>13. CASE IsCash(t)
    <3>1. CashOf(A \cup {t}) = C \cup {t} /\ ChargedOf(A \cup {t}, R) = H
      BY <2>13 DEF CashOf, ChargedOf
    <3>2. Settled(r, C \cup {t}, H, p)
      BY <2>1, <2>2, <2>8, <2>10, <2>13, SettledCash
    <3>3. Settled(a[m], CashOf(T(m)), ChargedOf(T(m), R), p)
      BY ONLY <2>4, <3>1, <3>2, r = a[m]
    <3> QED BY <3>3
  <2>14. CASE ~IsCash(t) /\ C # {}
    <3>1. CashOf(A \cup {t}) = C /\ ChargedOf(A \cup {t}, R) = H \cup {t}
      BY <2>12, <2>14 DEF CashOf, ChargedOf
    <3>2. <<p, FirstCash(S, p)>> \in acc.seen /\ FirstCash(S, p) \in CashAssets[p]
      <4>1. PICK c \in C : TRUE
        BY <2>14
      <4>2. c \in R /\ c.pid = p /\ IsCash(c)
        BY <2>3 DEF CashOf
      <4>3. PICK u \in R : /\ u.pid = c.pid /\ IsCash(u) /\ FirstCash(S, c.pid) = u.asset
                           /\ \A v \in R : v.pid = c.pid /\ IsCash(v) /\ v # u => Before(u, v)
        BY <4>2, FirstCashIs
      <4>4. u = c \/ Before(u, c)
        BY <4>2, <4>3
      <4>5. Before(c, t)
        BY <2>5 DEF CashOf
      <4>6. Before(u, t)
        BY <2>1, <4>2, <4>3, <4>4, <4>5, RowOrder
      <4>7. u \in C
        BY <2>6, <4>3, <4>6 DEF CashOf
      <4>8. KeyOf(u) = <<p, FirstCash(S, p)>> /\ FirstCash(S, p) \in CashAssets[p]
        BY <4>2, <4>3 DEF KeyOf, IsCash
      <4>9. KeyOf(u) \in acc.seen
        BY <2>9, <4>7
      <4> QED BY <4>8, <4>9
    <3>3. Settled(r, C, H \cup {t}, p)
      BY <2>1, <2>2, <2>8, <2>10, <2>11, <2>14, <3>2, SettledCharge
    <3>4. Settled(a[m], CashOf(T(m)), ChargedOf(T(m), R), p)
      BY ONLY <2>4, <3>1, <3>3, r = a[m]
    <3> QED BY <3>4
  <2>15. CASE ~IsCash(t) /\ C = {}
    <3>1. CashOf(A \cup {t}) = C /\ ChargedOf(A \cup {t}, R) = H
      BY <2>12, <2>15 DEF CashOf, ChargedOf
    <3>2. r = acc
      BY <2>1, <2>11, <2>15 DEF CashMoved, Charges
    <3>3. Settled(a[m], CashOf(T(m)), ChargedOf(T(m), R), p)
      BY ONLY <2>2, <2>4, <3>1, <3>2, r = a[m]
    <3> QED BY <3>3
  <2> QED BY <2>13, <2>14, <2>15
<1>6. n \in P
  <2> PICK Q : Q = P
    OBVIOUS
  <2> HIDE DEF P
  <2>1. 0 \in Q /\ \A i \in 1..n : i - 1 \in Q => i \in Q
    BY <1>4, <1>5
  <2>2. \A i \in 0..n : i \in Q
    BY <2>1, Climbing
  <2> QED BY <2>2
<1>7. T(n) = R
  BY <1>1
<1> HIDE DEF T
<1>8. Settled(a[n], CashOf(R), ChargedOf(R, R), p)
  BY <1>6, <1>7
<1> QED BY <1>3, <1>8

-----------------------------------------------------------------------------
(* The equity, asset by asset *)

(* What a key stands in the books with, what its price adds to that, and   *)
(* what it counts for in the equity.                                       *)
StandsAt(R, k) ==
  IF k \in DOMAIN CashBalances(R) THEN CashBalances(R)[k] ELSE CostOf(ToSet(Fifo(R)[k].lots))

GainAt(R, prices, k) ==
  IF k \in DOMAIN CashBalances(R) \/ ToSet(Fifo(R)[k].lots) = {} \/ k[2] \notin DOMAIN prices
    THEN 0
    ELSE QtyOf(ToSet(Fifo(R)[k].lots)) * prices[k[2]] - CostOf(ToSet(Fifo(R)[k].lots))

(* What an equity counts of a position.                                    *)
Counts(w) == IF w.value = NoValue THEN w.cost ELSE w.value

(* These are numbers.                                                      *)
LEMMA StandsType ==
  ASSUME NEW R, Rows(R), NEW prices \in Prices, NEW k \in Keys
  PROVE  StandsAt(R, k) \in Int /\ GainAt(R, prices, k) \in Int
<1>1. k \in DOMAIN CashBalances(R) => CashBalances(R)[k] \in Int
  BY CashBalancesType
<1>2. Fifo(R)[k] \in Book
  BY FifoKeeps
<1>3. Fifo(R)[k].lots \in Seq(Lot)
  BY <1>2 DEF Book
<1> PICK L : L = ToSet(Fifo(R)[k].lots)
  OBVIOUS
<1>4. L \in SUBSET Lot /\ IsFiniteSet(L)
  BY <1>3, ElemsAreFinite
<1>5. QtyOf(L) \in Nat /\ CostOf(L) \in Nat
  BY <1>4, SumsOfLots
<1>6. k[2] \in DOMAIN prices => prices[k[2]] \in Int
  BY ValueAssumption
<1>7. StandsAt(R, k) \in Int
  BY <1>1, <1>5 DEF StandsAt
<1>8. ASSUME k[2] \in DOMAIN prices PROVE QtyOf(L) * prices[k[2]] - CostOf(L) \in Int
  <2> PICK q \in Nat : q = QtyOf(L)
    BY <1>5
  <2> PICK c \in Nat : c = CostOf(L)
    BY <1>5
  <2> PICK x \in Int : x = prices[k[2]]
    BY <1>6, <1>8
  <2>1. q * x - c \in Int
    OBVIOUS
  <2> QED BY <2>1
<1>9. GainAt(R, prices, k) \in Int
  BY <1>8 DEF GainAt
<1> QED BY <1>7, <1>9

(* A position counts for what its key stands with and what its price adds. *)
LEMMA PositionIs ==
  ASSUME NEW R, Rows(R), NEW prices \in Prices, NEW k \in Keys, NEW w, PosAt(w, R, prices, k)
  PROVE  /\ Counts(w) = StandsAt(R, k) + GainAt(R, prices, k)
         /\ OrZero(w.unrealized) = GainAt(R, prices, k)
<1>1. StandsAt(R, k) \in Int /\ GainAt(R, prices, k) \in Int
  BY StandsType
<1>2. CASE k \in DOMAIN CashBalances(R) /\ w = CashRow(k, CashBalances(R)[k])
  <2>1. StandsAt(R, k) = CashBalances(R)[k] /\ GainAt(R, prices, k) = 0
    BY <1>2 DEF StandsAt, GainAt
  <2>2. w.value = StandsAt(R, k) /\ w.unrealized = 0
    BY <1>2, <2>1 DEF CashRow
  <2>3. w.value # NoValue /\ OrZero(0) = 0
    BY <1>1, <2>2, ValueAssumption DEF OrZero
  <2> QED BY <1>1, <2>1, <2>2, <2>3 DEF Counts
<1>3. CASE /\ k \notin DOMAIN CashBalances(R) /\ ToSet(Fifo(R)[k].lots) # {}
           /\ w = HeldAt(R, prices, k)
  <2> PICK L : L = ToSet(Fifo(R)[k].lots)
    OBVIOUS
  <2>1. StandsAt(R, k) = CostOf(L)
    BY <1>3 DEF StandsAt
  <2> PICK c \in Int : c = CostOf(L)
    BY <1>1, <2>1
  <2>2. CASE k[2] \notin DOMAIN prices
    <3>1. w.value = NoValue /\ w.cost = c /\ w.unrealized = NoValue
      BY <1>3, <2>2 DEF HeldAt, HeldRow
    <3>2. GainAt(R, prices, k) = 0 /\ OrZero(NoValue) = 0
      BY <2>2 DEF GainAt, OrZero
    <3> QED BY <2>1, <3>1, <3>2 DEF Counts
  <2>3. CASE k[2] \in DOMAIN prices
    <3> PICK v : v = QtyOf(L) * prices[k[2]]
      OBVIOUS
    <3>1. GainAt(R, prices, k) = v - c
      BY <1>3, <2>3 DEF GainAt
    <3>2. v \in Int
      <4>1. Fifo(R)[k] \in Book
        BY FifoKeeps
      <4>2. Fifo(R)[k].lots \in Seq(Lot)
        BY <4>1 DEF Book
      <4>3. L \in SUBSET Lot /\ IsFiniteSet(L)
        BY <4>2, ElemsAreFinite
      <4>4. QtyOf(L) \in Nat
        BY <4>3, SumsOfLots
      <4> PICK q \in Nat : q = QtyOf(L)
        BY <4>4
      <4> PICK x \in Int : x = prices[k[2]]
        BY <2>3, ValueAssumption
      <4>5. q * x \in Int
        OBVIOUS
      <4> QED BY <4>5
    <3>3. v # NoValue /\ v - c # NoValue
      BY <3>2, ValueAssumption
    <3>4. w.value = v /\ w.cost = c /\ w.unrealized = v - c
      BY <1>3, <2>3, <3>3 DEF HeldAt, HeldRow
    <3>5. Counts(w) = v /\ OrZero(w.unrealized) = v - c
      BY <3>3, <3>4 DEF Counts, OrZero
    <3>6. v = c + (v - c)
      BY <3>2
    <3> QED BY <2>1, <3>1, <3>5, <3>6
  <2> QED BY <2>2, <2>3
<1> QED BY <1>2, <1>3 DEF PosAt

(* A key without a position counts for nothing.                            *)
LEMMA NoPositionIs ==
  ASSUME NEW R, Rows(R), NEW prices, NEW k \in Keys, \A w : ~PosAt(w, R, prices, k)
  PROVE  StandsAt(R, k) = 0 /\ GainAt(R, prices, k) = 0
<1>1. k \notin DOMAIN CashBalances(R)
  <2> SUFFICES ASSUME k \in DOMAIN CashBalances(R) PROVE FALSE
    OBVIOUS
  <2>1. PosAt(CashRow(k, CashBalances(R)[k]), R, prices, k)
    BY DEF PosAt
  <2> QED BY <2>1
<1>2. ToSet(Fifo(R)[k].lots) = {}
  <2> SUFFICES ASSUME ToSet(Fifo(R)[k].lots) # {} PROVE FALSE
    OBVIOUS
  <2>1. PosAt(HeldAt(R, prices, k), R, prices, k)
    BY <1>1 DEF PosAt
  <2> QED BY <2>1
<1>3. CostOf({}) = 0
  BY NoEvents
<1> QED BY <1>1, <1>2, <1>3 DEF StandsAt, GainAt

(* The assets of p with a position, and the position of each.              *)
Shows(R, prices, p) == {a \in Asset : \E w : PosAt(w, R, prices, <<p, a>>)}
ShownFor(R, prices, p) == [a \in Shows(R, prices, p) |-> CHOOSE w : PosAt(w, R, prices, <<p, a>>)]

(* A key has one position at most.                                         *)
LEMMA OnePosition ==
  ASSUME NEW R, NEW prices, NEW k, NEW v, NEW w, PosAt(v, R, prices, k), PosAt(w, R, prices, k)
  PROVE  v = w
BY DEF PosAt

(* p's positions are those of its assets.                                  *)
LEMMA PositionsOfOne ==
  ASSUME NEW R, Rows(R), NEW p \in Pid, \A t \in R : t.pid = p, NEW prices \in Prices
  PROVE  LET S == Shows(R, prices, p)
             at == ShownFor(R, prices, p)
         IN /\ S \in SUBSET Asset /\ IsFiniteSet(S)
            /\ \A a \in S : <<p, a>> \in Keys /\ PosAt(at[a], R, prices, <<p, a>>)
            /\ \A a \in S : \A b \in S : at[a] = at[b] => a = b
            /\ Positions(R, prices) = {at[a] : a \in S}
<1> PICK S : S = Shows(R, prices, p)
  OBVIOUS
<1> PICK at : at = ShownFor(R, prices, p)
  OBVIOUS
<1>1. S \in SUBSET Asset /\ IsFiniteSet(S)
  <2>1. S \in SUBSET Asset
    BY DEF Shows
  <2> QED BY <2>1, FS_Subset, ValueAssumption
<1>2. \A a \in S : <<p, a>> \in Keys /\ PosAt(at[a], R, prices, <<p, a>>)
  <2> TAKE a \in S
  <2>1. \E w : PosAt(w, R, prices, <<p, a>>)
    BY DEF Shows
  <2>2. at[a] = CHOOSE w : PosAt(w, R, prices, <<p, a>>)
    BY DEF ShownFor
  <2>3. PosAt(at[a], R, prices, <<p, a>>)
    BY <2>1, <2>2
  <2> QED BY <1>1, <2>3 DEF Keys
<1>3. \A a \in S : at[a].key = <<p, a>>
  BY <1>2, PosHasKey
<1>4. \A a \in S : \A b \in S : at[a] = at[b] => a = b
  <2> TAKE a \in S
  <2> TAKE b \in S
  <2> SUFFICES ASSUME at[a] = at[b] PROVE a = b
    OBVIOUS
  <2>1. <<p, a>> = <<p, b>>
    BY <1>3
  <2> QED BY <2>1
<1>5. ASSUME NEW w \in Positions(R, prices) PROVE \E a \in S : w = at[a]
  <2>1. PICK k \in Keys : PosAt(w, R, prices, k)
    BY PositionsAre
  <2>2. PICK t \in R : KeyOf(t) = k
    BY <2>1, PosIsTraded
  <2>3. k = <<p, k[2]>> /\ k[2] \in Asset
    BY <2>1, <2>2 DEF KeyOf, Keys
  <2>4. k[2] \in S
    BY <2>1, <2>3 DEF Shows
  <2>5. PosAt(at[k[2]], R, prices, k)
    BY <1>2, <2>3, <2>4
  <2>6. w = at[k[2]]
    BY <2>1, <2>5, OnePosition
  <2> QED BY <2>4, <2>6
<1>6. ASSUME NEW a \in S PROVE at[a] \in Positions(R, prices)
  <2>1. <<p, a>> \in Keys /\ PosAt(at[a], R, prices, <<p, a>>)
    BY <1>2
  <2> QED BY <2>1, PositionsAre
<1>7. Positions(R, prices) = {at[a] : a \in S}
  BY <1>5, <1>6
<1> QED BY <1>1, <1>2, <1>4, <1>7

(* The equity, asset by asset.                                             *)
LEMMA EquityIs ==
  ASSUME NEW R, Rows(R), NEW p \in Pid, \A t \in R : t.pid = p, NEW prices \in Prices,
         NEW f, f = [a \in Asset |-> StandsAt(R, <<p, a>>) + GainAt(R, prices, <<p, a>>)]
  PROVE  Equity(R, prices) = SumFunctionOnSet(f, Asset)
<1> PICK S : S = Shows(R, prices, p)
  OBVIOUS
<1> PICK at : at = ShownFor(R, prices, p)
  OBVIOUS
<1> PICK Ps : Ps = Positions(R, prices)
  OBVIOUS
<1> PICK g : g = [w \in Ps |-> Counts(w)]
  OBVIOUS
<1>1. /\ S \in SUBSET Asset /\ IsFiniteSet(S)
      /\ \A a \in S : <<p, a>> \in Keys /\ PosAt(at[a], R, prices, <<p, a>>)
      /\ \A a \in S : \A b \in S : at[a] = at[b] => a = b
      /\ Ps = {at[a] : a \in S}
  BY PositionsOfOne
<1>2. Equity(R, prices) = SumFunctionOnSet(g, Ps)
  BY DEF Equity, SumFunction, Counts
<1>3. \A a \in Asset : <<p, a>> \in Keys
  BY DEF Keys
<1>4. \A a \in Asset : f[a] \in Int
  <2> TAKE a \in Asset
  <2> PICK x \in Int : x = StandsAt(R, <<p, a>>)
    BY <1>3, StandsType
  <2> PICK y \in Int : y = GainAt(R, prices, <<p, a>>)
    BY <1>3, StandsType
  <2>1. f[a] = x + y
    OBVIOUS
  <2> QED BY <2>1
<1>5. \A a \in S : g[at[a]] = f[a]
  <2> TAKE a \in S
  <2>1. a \in Asset /\ at[a] \in Ps /\ <<p, a>> \in Keys /\ PosAt(at[a], R, prices, <<p, a>>)
    BY <1>1
  <2>2. Counts(at[a]) = StandsAt(R, <<p, a>>) + GainAt(R, prices, <<p, a>>)
    BY <2>1, PositionIs
  <2> QED BY <2>1, <2>2
<1>6. SumFunctionOnSet(g, Ps) = SumFunctionOnSet(f, S)
  <2>1. \A a \in S : f[a] \in Int
    BY <1>1, <1>4
  <2> QED BY ONLY <1>1, <1>5, <2>1, SumRenames
<1>7. \A a \in Asset \ S : f[a] = 0
  <2> TAKE a \in Asset \ S
  <2>1. \A w : ~PosAt(w, R, prices, <<p, a>>)
    BY DEF Shows
  <2>2. StandsAt(R, <<p, a>>) = 0 /\ GainAt(R, prices, <<p, a>>) = 0
    BY <1>3, <2>1, NoPositionIs
  <2> QED BY <2>2
<1>8. SumFunctionOnSet(f, Asset) = SumFunctionOnSet(f, S)
  <2>1. \A a \in S : f[a] \in Int
    BY <1>1, <1>4
  <2>2. IsFiniteSet(Asset)
    BY ValueAssumption
  <2> QED BY ONLY <1>1, <1>7, <2>1, <2>2, SumVanishes
<1> QED BY <1>2, <1>6, <1>8

(* The P&L row of a key.                                                   *)
RowFor(R, prices, k) == PnlRow(k, Fifo(R)[k], {w \in Positions(R, prices) : w.key = k})

(* What the summary adds up of it.                                         *)
LEMMA RowIs ==
  ASSUME NEW R, Rows(R), NEW prices \in Prices, NEW k \in Keys
  PROVE  /\ RowFor(R, prices, k).key = k
         /\ RowFor(R, prices, k).realized = Fifo(R)[k].realized
         /\ OrZero(RowFor(R, prices, k).unrealized) = GainAt(R, prices, k)
<1> PICK rows : rows = {w \in Positions(R, prices) : w.key = k}
  OBVIOUS
<1> PICK r : r = RowFor(R, prices, k)
  OBVIOUS
<1>1. /\ r.key = k /\ r.realized = Fifo(R)[k].realized
      /\ r.unrealized = IF rows = {} THEN NoValue ELSE (CHOOSE w \in rows : TRUE).unrealized
  BY DEF RowFor, PnlRow
<1>2. \A w \in rows : PosAt(w, R, prices, k)
  <2> TAKE w \in rows
  <2>1. PICK j \in Keys : PosAt(w, R, prices, j)
    BY PositionsAre
  <2>2. w.key = j
    BY <2>1, PosHasKey
  <2> QED BY <2>1, <2>2
<1>3. CASE rows = {}
  <2>1. ASSUME NEW w, PosAt(w, R, prices, k) PROVE FALSE
    <3>1. w \in Positions(R, prices) /\ w.key = k
      BY <2>1, PositionsAre, PosHasKey
    <3> QED BY <1>3, <3>1
  <2>2. GainAt(R, prices, k) = 0
    BY <2>1, NoPositionIs
  <2> QED BY <1>1, <1>3, <2>2 DEF OrZero
<1>4. CASE rows # {}
  <2> PICK w : w = CHOOSE v \in rows : TRUE
    OBVIOUS
  <2>1. w \in rows
    BY <1>4
  <2>2. OrZero(w.unrealized) = GainAt(R, prices, k)
    BY <1>2, <2>1, PositionIs
  <2>3. r.unrealized = w.unrealized
    BY <1>1, <1>4
  <2> QED BY <1>1, <2>2, <2>3
<1> QED BY <1>3, <1>4

(* The total P&L of the summary, asset by asset.                           *)
LEMMA TotalPnlIs ==
  ASSUME NEW R, Rows(R), NEW p \in Pid, \A t \in R : t.pid = p, NEW prices \in Prices,
         NEW f, f = [a \in Asset |-> Fifo(R)[<<p, a>>].realized + GainAt(R, prices, <<p, a>>)]
  PROVE  Summary(p, R, prices).totalPnl = SumFunctionOnSet(f, Asset)
<1> PICK S : S = {a \in Asset : \E t \in R : KeyOf(t) = <<p, a>>}
  OBVIOUS
<1> PICK row : row = [a \in Asset |-> RowFor(R, prices, <<p, a>>)]
  OBVIOUS
<1> PICK Ws : Ws = Pnl(R, prices)
  OBVIOUS
<1> PICK g : g = [w \in Ws |-> w.realized + OrZero(w.unrealized)]
  OBVIOUS
<1>1. S \in SUBSET Asset /\ IsFiniteSet(S)
  <2>1. S \in SUBSET Asset
    OBVIOUS
  <2> QED BY <2>1, FS_Subset, ValueAssumption
<1>2. \A a \in Asset : <<p, a>> \in Keys
  BY DEF Keys
<1>3. \A a \in Asset : /\ row[a].key = <<p, a>>
                       /\ row[a].realized + OrZero(row[a].unrealized) = f[a]
  <2> TAKE a \in Asset
  <2> PICK k : k = <<p, a>>
    OBVIOUS
  <2>1. row[a] = RowFor(R, prices, k) /\ f[a] = Fifo(R)[k].realized + GainAt(R, prices, k)
    OBVIOUS
  <2>2. /\ RowFor(R, prices, k).key = k /\ RowFor(R, prices, k).realized = Fifo(R)[k].realized
        /\ OrZero(RowFor(R, prices, k).unrealized) = GainAt(R, prices, k)
    BY <1>2, RowIs
  <2> QED BY <2>1, <2>2
<1>4. \A a \in S : \A b \in S : row[a] = row[b] => a = b
  <2> TAKE a \in S
  <2> TAKE b \in S
  <2> SUFFICES ASSUME row[a] = row[b] PROVE a = b
    OBVIOUS
  <2>1. <<p, a>> = <<p, b>>
    BY <1>1, <1>3
  <2> QED BY <2>1
<1>5. Ws = {row[a] : a \in S}
  <2>1. Ws = {RowFor(R, prices, k) : k \in {KeyOf(t) : t \in R}}
    BY DEF Pnl, PnlOf, RowFor
  <2>2. ASSUME NEW t \in R PROVE \E a \in S : RowFor(R, prices, KeyOf(t)) = row[a]
    <3>1. KeyOf(t) \in Keys /\ KeyOf(t)[1] = p
      BY KeyOfType DEF KeyOf, Rows
    <3>2. KeyOf(t) = <<p, KeyOf(t)[2]>> /\ KeyOf(t)[2] \in Asset
      BY <3>1 DEF Keys
    <3> QED BY <3>2
  <2>3. ASSUME NEW a \in S PROVE \E t \in R : row[a] = RowFor(R, prices, KeyOf(t))
    <3>1. PICK t \in R : KeyOf(t) = <<p, a>>
      OBVIOUS
    <3>2. row[a] = RowFor(R, prices, KeyOf(t))
      BY <1>1, <3>1
    <3> QED BY <3>2
  <2>4. ASSUME NEW w \in Ws PROVE w \in {row[a] : a \in S}
    <3>1. PICK t \in R : w = RowFor(R, prices, KeyOf(t))
      BY <2>1
    <3> QED BY <2>2, <3>1
  <2>5. ASSUME NEW a \in S PROVE row[a] \in Ws
    BY <2>1, <2>3
  <2> QED BY <2>4, <2>5
<1>6. Summary(p, R, prices).totalPnl = SumFunctionOnSet(g, Ws)
  <2>1. {w \in Ws : w.key[1] = p} = Ws
    <3>1. \A a \in S : row[a].key[1] = p
      BY <1>1, <1>3
    <3> QED BY <1>5, <3>1
  <2>2. Summary(p, R, prices).totalPnl
          = SumFunction([w \in {v \in Ws : v.key[1] = p} |-> w.realized + OrZero(w.unrealized)])
    BY DEF Summary, SummaryOf
  <2> QED BY <2>1, <2>2 DEF SumFunction
<1>7. \A a \in Asset : f[a] \in Int
  <2> TAKE a \in Asset
  <2>1. Fifo(R)[<<p, a>>] \in Book
    BY <1>2, FifoKeeps
  <2> PICK x \in Int : x = Fifo(R)[<<p, a>>].realized
    BY <2>1 DEF Book
  <2> PICK y \in Int : y = GainAt(R, prices, <<p, a>>)
    BY <1>2, StandsType
  <2>2. f[a] = x + y
    OBVIOUS
  <2> QED BY <2>2
<1>8. SumFunctionOnSet(g, Ws) = SumFunctionOnSet(f, S)
  <2>1. \A a \in S : f[a] \in Int
    BY <1>1, <1>7
  <2>2. \A a \in S : g[row[a]] = f[a]
    <3> TAKE a \in S
    <3>1. row[a] \in Ws /\ a \in Asset
      BY <1>1, <1>5
    <3> QED BY <1>3, <3>1
  <2> QED BY ONLY <1>1, <1>4, <1>5, <2>1, <2>2, SumRenames
<1>9. \A a \in Asset \ S : f[a] = 0
  <2> TAKE a \in Asset \ S
  <2> PICK k \in Keys : k = <<p, a>>
    BY <1>2
  <2>1. \A t \in R : KeyOf(t) # k
    OBVIOUS
  <2>2. Fifo(R)[k] = EmptyBook
    BY <2>1, FifoKeeps
  <2>3. \A w : ~PosAt(w, R, prices, k)
    BY <2>1, PosIsTraded
  <2>4. GainAt(R, prices, k) = 0
    BY <2>3, NoPositionIs
  <2>5. Fifo(R)[k].realized = 0
    BY <2>2 DEF EmptyBook
  <2> QED BY <2>4, <2>5
<1>10. SumFunctionOnSet(f, Asset) = SumFunctionOnSet(f, S)
  <2>1. \A a \in S : f[a] \in Int
    BY <1>1, <1>7
  <2>2. IsFiniteSet(Asset)
    BY ValueAssumption
  <2> QED BY ONLY <1>1, <1>9, <2>1, <2>2, SumVanishes
<1> QED BY <1>6, <1>8, <1>10

-----------------------------------------------------------------------------
(* Where the equity comes from *)

(* The cash keys stand at the balance of the account.                      *)
LEMMA StandsInCash ==
  ASSUME NEW R, Rows(R), NEW p \in Pid, \A t \in R : t.pid = p,
         NEW acc, NEW H, Settled(acc, CashOf(R), H, p),
         CashBalances(R) = [k \in acc.seen |-> acc.balance[k]],
         NEW f, \A a \in CashAssets[p] : f[a] = StandsAt(R, <<p, a>>)
  PROVE  SumFunctionOnSet(f, CashAssets[p]) = BalanceOf(acc, p)
<1> PICK A : A = CashAssets[p]
  OBVIOUS
<1> PICK g : g = [a \in A |-> acc.balance[<<p, a>>]]
  OBVIOUS
<1>1. A \in SUBSET Asset /\ IsFiniteSet(A) /\ \A a \in A : <<p, a>> \in Keys
  BY CashKeys
<1>2. /\ acc \in Cash /\ acc.seen = {KeyOf(t) : t \in CashOf(R)}
      /\ \A k \in Keys : k \notin acc.seen => acc.balance[k] = 0
  BY DEF Settled
<1>3. \A a \in A : f[a] = g[a]
  <2> TAKE a \in A
  <2> PICK k \in Keys : k = <<p, a>>
    BY <1>1
  <2>1. CASE k \in acc.seen
    <3>1. k \in DOMAIN CashBalances(R) /\ CashBalances(R)[k] = acc.balance[k]
      BY <2>1
    <3> QED BY <3>1 DEF StandsAt
  <2>2. CASE k \notin acc.seen
    <3>1. ASSUME NEW t \in R, KeyOf(t) = k PROVE FALSE
      <4>1. t.pid = p /\ t.asset = a
        BY <3>1 DEF KeyOf
      <4>2. t \in CashOf(R)
        BY <4>1 DEF CashOf, IsCash
      <4> QED BY <1>2, <2>2, <3>1, <4>2
    <3>2. Fifo(R)[k] = EmptyBook
      BY <3>1, FifoKeeps
    <3>3. ToSet(Fifo(R)[k].lots) = {}
      BY <3>2 DEF EmptyBook, ToSet
    <3>4. k \notin DOMAIN CashBalances(R)
      BY <2>2
    <3>5. StandsAt(R, k) = 0
      BY <3>3, <3>4, NoEvents DEF StandsAt
    <3> QED BY <1>2, <2>2, <3>5
  <2> QED BY <2>1, <2>2
<1>4. SumFunctionOnSet(f, A) = SumFunctionOnSet(g, A)
  BY ONLY <1>1, <1>3, SumAgrees
<1> QED BY <1>4 DEF BalanceOf

(* The other keys stand at what was paid for them and not yet sold.        *)
LEMMA StandsInAssets ==
  ASSUME NEW R, Rows(R), NEW p \in Pid, \A t \in R : t.pid = p,
         NEW acc, NEW H, Settled(acc, CashOf(R), H, p),
         CashBalances(R) = [k \in acc.seen |-> acc.balance[k]],
         NEW N, N = Asset \ CashAssets[p],
         NEW f, \A a \in N : f[a] = StandsAt(R, <<p, a>>),
         NEW g, \A a \in N : g[a] = Fifo(R)[<<p, a>>].proceeds - Fifo(R)[<<p, a>>].costOfSold
  PROVE  SumFunctionOnSet(f, N) = SumFunctionOnSet(g, N) + PaidBy(R \ CashOf(R))
<1> PICK T : T = R \ CashOf(R)
  OBVIOUS
<1> PICK paid : paid = [t \in T |-> Signed(t) * t.price]
  OBVIOUS
<1> PICK key : key = [t \in T |-> t.asset]
  OBVIOUS
<1> PICK h : h = [a \in N |-> PaidBy({t \in R : KeyOf(t) = <<p, a>>})]
  OBVIOUS
<1>1. IsFiniteSet(N) /\ \A a \in N : a \in Asset /\ <<p, a>> \in Keys
  <2>1. N \in SUBSET Asset
    OBVIOUS
  <2> QED BY <2>1, FS_Subset, ValueAssumption DEF Keys
<1>2. Rows(T) /\ T \in SUBSET Transaction
  <2>1. T \in SUBSET R
    OBVIOUS
  <2> QED BY <2>1, RowsOfSubset DEF Rows
<1>3. \A t \in T : paid[t] \in Int
  BY <1>2, PaymentIs
<1>4. \A t \in T : key[t] \in N
  <2> TAKE t \in T
  <2>1. t.pid = p /\ ~IsCash(t) /\ t.asset \in Asset
    BY <1>2 DEF CashOf, Transaction
  <2> QED BY <2>1 DEF IsCash
<1>5. \A a \in N : {t \in R : KeyOf(t) = <<p, a>>} = {t \in T : key[t] = a}
  <2> TAKE a \in N
  <2>1. ASSUME NEW t \in R, KeyOf(t) = <<p, a>> PROVE t \in T /\ key[t] = a
    <3>1. t.pid = p /\ t.asset = a
      BY <2>1 DEF KeyOf
    <3>2. ~IsCash(t)
      BY <3>1 DEF IsCash
    <3>3. t \in T
      BY <3>2 DEF CashOf
    <3> QED BY <3>1, <3>3
  <2>2. ASSUME NEW t \in T, key[t] = a PROVE t \in R /\ KeyOf(t) = <<p, a>>
    BY <2>2 DEF KeyOf
  <2> QED BY <2>1, <2>2
<1>6. Grouped(h, paid, T, key, N)
  <2>1. ASSUME NEW a \in N PROVE h[a] = SumFunctionOnSet(paid, {t \in T : key[t] = a})
    <3> PICK G : G = {t \in T : key[t] = a}
      OBVIOUS
    <3> PICK q : q = [t \in G |-> Signed(t) * t.price]
      OBVIOUS
    <3>1. h[a] = SumFunctionOnSet(q, G)
      BY <1>5 DEF PaidBy, SumFunction
    <3>2. G \in SUBSET T
      OBVIOUS
    <3>3. IsFiniteSet(G)
      BY <1>2, <3>2, FS_Subset DEF Rows
    <3>4. \A t \in G : q[t] = paid[t]
      BY <3>2
    <3>5. SumFunctionOnSet(q, G) = SumFunctionOnSet(paid, G)
      BY ONLY <3>3, <3>4, SumAgrees
    <3> QED BY <3>1, <3>5
  <2> QED BY <2>1 DEF Grouped
<1>7. SumFunctionOnSet(h, N) = PaidBy(T)
  <2>1. PaidBy(T) = SumFunctionOnSet(paid, T)
    BY DEF PaidBy, SumFunction
  <2>2. IsFiniteSet(T)
    BY <1>2 DEF Rows
  <2>3. SumFunctionOnSet(h, N) = SumFunctionOnSet(paid, T)
    BY ONLY <1>1, <1>3, <1>4, <1>6, <2>2, SumGroups
  <2> QED BY <2>1, <2>3
<1>8. \A a \in N : g[a] \in Int /\ h[a] \in Int /\ f[a] = g[a] + h[a]
  <2> TAKE a \in N
  <2> PICK k \in Keys : k = <<p, a>>
    BY <1>1
  <2> PICK b : b = Fifo(R)[k]
    OBVIOUS
  <2>1. /\ b \in Book /\ CostOf(ToSet(b.lots)) \in Nat
        /\ PaidBy({t \in R : KeyOf(t) = k}) \in Int
        /\ CostOf(ToSet(b.lots)) = (b.proceeds - b.costOfSold) + PaidBy({t \in R : KeyOf(t) = k})
    BY OpenCostOf
  <2>2. k \notin acc.seen
    <3> SUFFICES ASSUME k \in acc.seen PROVE FALSE
      OBVIOUS
    <3>1. PICK t \in CashOf(R) : KeyOf(t) = k
      BY DEF Settled
    <3>2. t.asset = a /\ t.pid = p /\ IsCash(t)
      BY <3>1 DEF KeyOf, CashOf
    <3> QED BY <3>2 DEF IsCash
  <2>3. k \notin DOMAIN CashBalances(R)
    BY <2>2
  <2>4. StandsAt(R, k) = CostOf(ToSet(b.lots))
    BY <2>3 DEF StandsAt
  <2>5. g[a] = b.proceeds - b.costOfSold /\ h[a] = PaidBy({t \in R : KeyOf(t) = k}) /\ f[a] = StandsAt(R, k)
    OBVIOUS
  <2>6. b.proceeds \in Nat /\ b.costOfSold \in Int
    BY <2>1 DEF Book
  <2>7. b.proceeds - b.costOfSold \in Int
    BY ONLY <2>6
  <2> QED BY ONLY <2>1, <2>4, <2>5, <2>7
<1>9. SumFunctionOnSet(f, N) = SumFunctionOnSet(g, N) + SumFunctionOnSet(h, N)
  BY ONLY <1>1, <1>8, SumAdds
<1> QED BY <1>7, <1>9

(* What is paid for two sets of rows is paid for both.                     *)
LEMMA PaidJoins ==
  ASSUME NEW T, Rows(T), NEW H \in SUBSET T
  PROVE  PaidBy(T) = PaidBy(H) + PaidBy(T \ H)
<1> PICK f : f = [t \in T |-> Signed(t) * t.price]
  OBVIOUS
<1> PICK J : J = T \ H
  OBVIOUS
<1>1. IsFiniteSet(H) /\ IsFiniteSet(J) /\ H \cup J = T /\ H \cap J = {}
  <2>1. H \in SUBSET T /\ J \in SUBSET T
    OBVIOUS
  <2> QED BY <2>1, FS_Subset DEF Rows
<1>2. \A t \in T : f[t] \in Int
  BY PaymentIs DEF Rows
<1>3. \A S \in SUBSET T : IsFiniteSet(S) => PaidBy(S) = SumFunctionOnSet(f, S)
  <2> TAKE S \in SUBSET T
  <2> SUFFICES ASSUME IsFiniteSet(S) PROVE PaidBy(S) = SumFunctionOnSet(f, S)
    OBVIOUS
  <2> PICK q : q = [t \in S |-> Signed(t) * t.price]
    OBVIOUS
  <2>1. PaidBy(S) = SumFunctionOnSet(q, S)
    BY DEF PaidBy, SumFunction
  <2>2. \A t \in S : q[t] = f[t]
    OBVIOUS
  <2>3. SumFunctionOnSet(q, S) = SumFunctionOnSet(f, S)
    BY ONLY IsFiniteSet(S), <2>2, SumAgrees
  <2> QED BY <2>1, <2>3
<1>4. SumFunctionOnSet(f, T) = SumFunctionOnSet(f, H) + SumFunctionOnSet(f, J)
  <2>1. \A t \in H \cup J : f[t] \in Int
    BY <1>1, <1>2
  <2>2. SumFunctionOnSet(f, H \cup J) = SumFunctionOnSet(f, H) + SumFunctionOnSet(f, J)
    BY ONLY <1>1, <2>1, SumJoins
  <2> QED BY <1>1, <2>2
<1> QED BY <1>1, <1>3, <1>4 DEF Rows

(* The equity of one portfolio with a cash row.                            *)
LEMMA EquityAddsUp ==
  ASSUME NEW R, Rows(R), NEW p \in Pid, \A t \in R : t.pid = p, NEW prices \in Prices,
         NEW N, N = Asset \ CashAssets[p],
         NEW H, H = ChargedOf(R, R),
         NEW cr, cr = [a \in CashAssets[p] |-> Fifo(R)[<<p, a>>].realized],
         NEW un, un = [a \in N |-> Fifo(R)[<<p, a>>].proceeds - Fifo(R)[<<p, a>>].realized
                                     - Fifo(R)[<<p, a>>].costOfSold]
  PROVE  Equity(R, prices) =
           PaidBy(CashOf(R)) + Summary(p, R, prices).totalPnl - SumFunctionOnSet(cr, CashAssets[p])
             - FeesOf(H) + SumFunctionOnSet(un, N) + PaidBy((R \ CashOf(R)) \ H)
<1> PICK A : A = CashAssets[p]
  OBVIOUS
<1> PICK st : st = [a \in Asset |-> StandsAt(R, <<p, a>>)]
  OBVIOUS
<1> PICK gain : gain = [a \in Asset |-> GainAt(R, prices, <<p, a>>)]
  OBVIOUS
<1> PICK re : re = [a \in Asset |-> Fifo(R)[<<p, a>>].realized]
  OBVIOUS
<1> PICK eq : eq = [a \in Asset |-> StandsAt(R, <<p, a>>) + GainAt(R, prices, <<p, a>>)]
  OBVIOUS
<1> PICK tp : tp = [a \in Asset |-> Fifo(R)[<<p, a>>].realized + GainAt(R, prices, <<p, a>>)]
  OBVIOUS
<1> PICK kept : kept = [a \in N |-> Fifo(R)[<<p, a>>].proceeds - Fifo(R)[<<p, a>>].costOfSold]
  OBVIOUS
<1>1. /\ IsFiniteSet(Asset) /\ IsFiniteSet(A) /\ IsFiniteSet(N)
      /\ A \cup N = Asset /\ A \cap N = {} /\ A \in SUBSET Asset /\ N \in SUBSET Asset
  <2>1. IsFiniteSet(Asset) /\ A \in SUBSET Asset /\ N \in SUBSET Asset
    BY CashKeys, ValueAssumption
  <2> QED BY <2>1, FS_Subset
<1>2. \A a \in Asset : st[a] \in Int /\ gain[a] \in Int /\ re[a] \in Int
                       /\ eq[a] = st[a] + gain[a] /\ tp[a] = re[a] + gain[a]
  <2> TAKE a \in Asset
  <2> PICK k \in Keys : k = <<p, a>>
    BY DEF Keys
  <2>1. Fifo(R)[k] \in Book
    BY FifoKeeps
  <2>2. Fifo(R)[k].realized \in Int
    BY <2>1 DEF Book
  <2>3. StandsAt(R, k) \in Int /\ GainAt(R, prices, k) \in Int
    BY StandsType
  <2> QED BY <2>2, <2>3
<1>3. \A a \in N : kept[a] \in Int /\ re[a] \in Int /\ un[a] = kept[a] - re[a]
  <2> TAKE a \in N
  <2> PICK k \in Keys : k = <<p, a>>
    BY DEF Keys
  <2> PICK b : b = Fifo(R)[k]
    OBVIOUS
  <2>1. b \in Book
    BY FifoKeeps
  <2> PICK x \in Int : x = b.realized
    BY <2>1 DEF Book
  <2> PICK y \in Int : y = b.costOfSold
    BY <2>1 DEF Book
  <2> PICK z \in Int : z = b.proceeds
    BY <2>1 DEF Book
  <2>2. kept[a] = z - y /\ re[a] = x /\ un[a] = z - x - y
    BY <1>1
  <2>3. z - y \in Int /\ z - x - y = (z - y) - x
    OBVIOUS
  <2> QED BY <2>2, <2>3
<1>4. PICK acc : /\ Settled(acc, CashOf(R), H, p)
                 /\ CashBalances(R) = [k \in acc.seen |-> acc.balance[k]]
  BY CashSettles
(* The sums are numbers. *)
<1>5. /\ SumFunctionOnSet(gain, Asset) \in Int /\ SumFunctionOnSet(re, A) \in Int
      /\ SumFunctionOnSet(re, N) \in Int /\ SumFunctionOnSet(kept, N) \in Int
  <2>1. \A a \in Asset : gain[a] \in Int
    BY <1>2
  <2>2. \A a \in A : re[a] \in Int
    BY <1>1, <1>2
  <2>3. \A a \in N : re[a] \in Int
    BY <1>3
  <2>4. \A a \in N : kept[a] \in Int
    BY <1>3
  <2>5. SumFunctionOnSet(gain, Asset) \in Int
    BY ONLY <1>1, <2>1, SumIsInt
  <2>6. SumFunctionOnSet(re, A) \in Int
    BY ONLY <1>1, <2>2, SumIsInt
  <2>7. SumFunctionOnSet(re, N) \in Int
    BY ONLY <1>1, <2>3, SumIsInt
  <2>8. SumFunctionOnSet(kept, N) \in Int
    BY ONLY <1>1, <2>4, SumIsInt
  <2> QED BY <2>5, <2>6, <2>7, <2>8
<1>6. Equity(R, prices) = SumFunctionOnSet(st, A) + SumFunctionOnSet(st, N) + SumFunctionOnSet(gain, Asset)
  <2>1. Equity(R, prices) = SumFunctionOnSet(eq, Asset)
    BY EquityIs
  <2>2. SumFunctionOnSet(eq, Asset) = SumFunctionOnSet(st, Asset) + SumFunctionOnSet(gain, Asset)
    BY ONLY <1>1, <1>2, SumAdds
  <2>3. \A a \in A \cup N : st[a] \in Int
    BY <1>1, <1>2
  <2>4. SumFunctionOnSet(st, A \cup N) = SumFunctionOnSet(st, A) + SumFunctionOnSet(st, N)
    BY ONLY <1>1, <2>3, SumJoins
  <2> QED BY ONLY <1>1, <2>1, <2>2, <2>4
<1>7. Summary(p, R, prices).totalPnl
        = SumFunctionOnSet(re, A) + SumFunctionOnSet(re, N) + SumFunctionOnSet(gain, Asset)
  <2>1. Summary(p, R, prices).totalPnl = SumFunctionOnSet(tp, Asset)
    BY TotalPnlIs
  <2>2. SumFunctionOnSet(tp, Asset) = SumFunctionOnSet(re, Asset) + SumFunctionOnSet(gain, Asset)
    BY ONLY <1>1, <1>2, SumAdds
  <2>3. \A a \in A \cup N : re[a] \in Int
    BY <1>1, <1>2
  <2>4. SumFunctionOnSet(re, A \cup N) = SumFunctionOnSet(re, A) + SumFunctionOnSet(re, N)
    BY ONLY <1>1, <2>3, SumJoins
  <2> QED BY ONLY <1>1, <2>1, <2>2, <2>4
<1>8. SumFunctionOnSet(cr, A) = SumFunctionOnSet(re, A)
  <2>1. \A a \in A : cr[a] = re[a]
    BY <1>1
  <2> QED BY ONLY <1>1, <2>1, SumAgrees
<1>9. SumFunctionOnSet(un, N) = SumFunctionOnSet(kept, N) - SumFunctionOnSet(re, N)
  BY ONLY <1>1, <1>3, SumSubtracts
<1>10. SumFunctionOnSet(st, A) = PaidBy(CashOf(R)) - PaidBy(H) - FeesOf(H)
  <2>1. \A a \in A : st[a] = StandsAt(R, <<p, a>>)
    BY <1>1
  <2>2. SumFunctionOnSet(st, A) = BalanceOf(acc, p)
    BY <1>4, <2>1, StandsInCash
  <2> QED BY <1>4, <2>2 DEF Settled
<1>11. SumFunctionOnSet(st, N) = SumFunctionOnSet(kept, N) + PaidBy(R \ CashOf(R))
  <2>1. \A a \in N : st[a] = StandsAt(R, <<p, a>>)
    BY <1>1
  <2>2. \A a \in N : kept[a] = Fifo(R)[<<p, a>>].proceeds - Fifo(R)[<<p, a>>].costOfSold
    OBVIOUS
  <2> QED BY <1>4, <2>1, <2>2, StandsInAssets
<1>12. /\ PaidBy(R \ CashOf(R)) = PaidBy(H) + PaidBy((R \ CashOf(R)) \ H)
       /\ PaidBy(H) \in Int /\ FeesOf(H) \in Int /\ PaidBy((R \ CashOf(R)) \ H) \in Int
       /\ PaidBy(CashOf(R)) \in Int
  <2>1. (R \ CashOf(R)) \in SUBSET R /\ CashOf(R) \in SUBSET R
    BY DEF CashOf
  <2>2. H \in SUBSET (R \ CashOf(R))
    BY DEF ChargedOf, CashOf
  <2>3. H \in SUBSET R /\ ((R \ CashOf(R)) \ H) \in SUBSET R
    BY <2>2
  <2>4. Rows(R \ CashOf(R)) /\ Rows(CashOf(R)) /\ Rows(H) /\ Rows((R \ CashOf(R)) \ H)
    BY <2>1, <2>3, RowsOfSubset
  <2> QED BY <2>2, <2>4, PaidJoins, SumsOfRows
<1> PICK x1 \in Int : x1 = SumFunctionOnSet(re, A)
  BY <1>5
<1> PICK x2 \in Int : x2 = SumFunctionOnSet(re, N)
  BY <1>5
<1> PICK x3 \in Int : x3 = SumFunctionOnSet(gain, Asset)
  BY <1>5
<1> PICK x4 \in Int : x4 = SumFunctionOnSet(kept, N)
  BY <1>5
<1> PICK x5 \in Int : x5 = PaidBy(H)
  BY <1>12
<1> PICK x6 \in Int : x6 = FeesOf(H)
  BY <1>12
<1> PICK x7 \in Int : x7 = PaidBy((R \ CashOf(R)) \ H)
  BY <1>12
<1> PICK x8 \in Int : x8 = PaidBy(CashOf(R))
  BY <1>12
<1>13. Equity(R, prices) = (x8 - x5 - x6) + (x4 + (x5 + x7)) + x3
  BY <1>6, <1>10, <1>11, <1>12
<1>14. Summary(p, R, prices).totalPnl = x1 + x2 + x3 /\ SumFunctionOnSet(cr, A) = x1
       /\ SumFunctionOnSet(un, N) = x4 - x2
  BY <1>7, <1>8, <1>9
<1>15. (x8 - x5 - x6) + (x4 + (x5 + x7)) + x3 = x8 + (x1 + x2 + x3) - x1 - x6 + (x4 - x2) + x7
  OBVIOUS
<1> QED BY ONLY <1>13, <1>14, <1>15, x6 = FeesOf(H), x7 = PaidBy((R \ CashOf(R)) \ H), x8 = PaidBy(CashOf(R)), A = CashAssets[p]

(* With a typed ledger every equity is explained.                          *)
LEMMA EquityIsExplainedStep == TypeOK => EquityIsExplained
<1> SUFFICES ASSUME TypeOK, NEW p \in portfolios, NEW prices \in Prices
             PROVE  LET R == RowsOf({p})
                        cash == {t \in R : IsCash(t)}
                        trades == R \ cash
                        books == Fifo(R)
                        charged == {t \in trades : \E c \in cash : Before(c, t)}
                        SignedCost(T) == SumFunction([t \in T |-> Signed(t) * t.price])
                        cashRealized == SumFunction([a \in CashAssets[p] |-> books[<<p, a>>].realized])
                        uncovered == SumFunction([a \in Asset \ CashAssets[p] |->
                          books[<<p, a>>].proceeds - books[<<p, a>>].realized - books[<<p, a>>].costOfSold])
                    IN Equity(R, prices) = SignedCost(cash)
                                 + Summary(p, R, prices).totalPnl - cashRealized
                                 - SumFunction([t \in charged |-> t.fee])
                                 + uncovered
                                 + SignedCost(trades \ charged)
  BY Zenon DEF EquityIsExplained
<1> PICK R : R = RowsOf({p})
  OBVIOUS
<1> PICK N : N = Asset \ CashAssets[p]
  OBVIOUS
<1> PICK H : H = ChargedOf(R, R)
  OBVIOUS
<1> PICK cr : cr = [a \in CashAssets[p] |-> Fifo(R)[<<p, a>>].realized]
  OBVIOUS
<1> PICK un : un = [a \in N |-> Fifo(R)[<<p, a>>].proceeds - Fifo(R)[<<p, a>>].realized
                                  - Fifo(R)[<<p, a>>].costOfSold]
  OBVIOUS
<1>1. p \in Pid /\ Rows(R) /\ \A t \in R : t.pid = p
  BY TypeRows DEF RowsOf, TypeOK
<1>2. Equity(R, prices) =
           PaidBy(CashOf(R)) + Summary(p, R, prices).totalPnl - SumFunctionOnSet(cr, CashAssets[p])
             - FeesOf(H) + SumFunctionOnSet(un, N) + PaidBy((R \ CashOf(R)) \ H)
  <2>1. cr = [a \in CashAssets[p] |-> Fifo(R)[<<p, a>>].realized]
    OBVIOUS
  <2>2. un = [a \in N |-> Fifo(R)[<<p, a>>].proceeds - Fifo(R)[<<p, a>>].realized
                           - Fifo(R)[<<p, a>>].costOfSold]
    OBVIOUS
  <2>3. prices \in Prices /\ N = Asset \ CashAssets[p] /\ H = ChargedOf(R, R)
    OBVIOUS
  <2> QED BY ONLY <1>1, <2>1, <2>2, <2>3, EquityAddsUp
<1>3. H = {t \in R \ CashOf(R) : \E c \in CashOf(R) : Before(c, t)}
  BY DEF ChargedOf, CashOf
<1>4. SumFunctionOnSet(cr, CashAssets[p]) = SumFunction(cr) /\ SumFunctionOnSet(un, N) = SumFunction(un)
  BY DEF SumFunction
<1> QED BY <1>2, <1>3, <1>4 DEF PaidBy, FeesOf, CashOf

(* The equity of a portfolio with a cash row is, in every state, what was  *)
(* deposited, what the summary reports as P&L and what sales without a lot *)
(* brought in, less fees and what was spent before the row.                *)
THEOREM EquityIsAccountedFor == Spec => []EquityIsExplained
  BY TypeCorrect, EquityIsExplainedStep, PTL

-----------------------------------------------------------------------------
(* The commands tell one story *)

(* Prices as the commands get them.                                        *)
Priced(prices) == \A a \in DOMAIN prices : prices[a] \in Int

(* What the sums count of a position.                                      *)
Values(positions) == SumFunction([w \in positions |-> OrZero(w.value)])

(* There are finitely many positions, one per key, each worth a number.    *)
LEMMA PositionsKeyed ==
  ASSUME NEW R, Rows(R), NEW prices, Priced(prices)
  PROVE  /\ IsFiniteSet(Positions(R, prices))
         /\ \A v \in Positions(R, prices) : \A w \in Positions(R, prices) : v.key = w.key => v = w
         /\ \A w \in Positions(R, prices) : w.key \in Keys /\ OrZero(w.value) \in Int
<1> PICK Ps : Ps = Positions(R, prices)
  OBVIOUS
<1>1. \A w \in Ps : w.key \in Keys /\ PosAt(w, R, prices, w.key)
  BY PositionsAre, PosHasKey
<1>2. \A v \in Ps : \A w \in Ps : v.key = w.key => v = w
  <2> TAKE v \in Ps
  <2> TAKE w \in Ps
  <2> SUFFICES ASSUME v.key = w.key PROVE v = w
    OBVIOUS
  <2>1. PosAt(v, R, prices, v.key) /\ PosAt(w, R, prices, v.key)
    BY <1>1
  <2> QED BY <2>1, OnePosition
<1>3. IsFiniteSet(Ps)
  <2>1. IsFiniteSet(Keys)
    BY PidAssumption, ValueAssumption, FS_Product DEF Keys
  <2> PICK f : f = [w \in Ps |-> w.key]
    OBVIOUS
  <2>2. f \in Injection(Ps, Keys)
    <3>1. f \in [Ps -> Keys] /\ \A v \in Ps : \A w \in Ps : f[v] = f[w] => v = w
      BY <1>1, <1>2
    <3> QED BY <3>1, Fun_IsInj
  <2> QED BY <2>1, <2>2, FS_Injection
<1>4. ASSUME NEW w \in Ps PROVE OrZero(w.value) \in Int
  <2> PICK k \in Keys : k = w.key
    BY <1>1
  <2>0. PosAt(w, R, prices, k)
    BY <1>1
  <2>1. CASE k \in DOMAIN CashBalances(R) /\ w = CashRow(k, CashBalances(R)[k])
    <3>1. w.value = CashBalances(R)[k] /\ CashBalances(R)[k] \in Int
      BY <2>1, CashBalancesType DEF CashRow
    <3> QED BY <3>1, ValueAssumption DEF OrZero
  <2>2. CASE w = HeldAt(R, prices, k)
    <3> PICK L : L = ToSet(Fifo(R)[k].lots)
      OBVIOUS
    <3>1. Fifo(R)[k].lots \in Seq(Lot)
      BY FifoKeeps DEF Book
    <3>2. L \in SUBSET Lot /\ IsFiniteSet(L)
      BY <3>1, ElemsAreFinite
    <3> PICK q \in Nat : q = QtyOf(L)
      BY <3>2, SumsOfLots
    <3>3. CASE k[2] \in DOMAIN prices
      <4> PICK x \in Int : x = prices[k[2]]
        BY <3>3 DEF Priced
      <4>1. w.value = q * x /\ q * x \in Int
        BY <2>2, <3>3 DEF HeldAt, HeldRow
      <4> QED BY <4>1, ValueAssumption DEF OrZero
    <3>4. CASE k[2] \notin DOMAIN prices
      <4>1. w.value = NoValue
        BY <2>2, <3>4 DEF HeldAt, HeldRow
      <4> QED BY <4>1 DEF OrZero
    <3> QED BY <3>3, <3>4
  <2> QED BY <2>0, <2>1, <2>2 DEF PosAt
<1> QED BY <1>1, <1>2, <1>3, <1>4

(* What performance and pnl realize of a key are the figures of its book.  *)
LEMMA PerformanceIsPnl ==
  ASSUME NEW R, NEW prices
  PROVE  {Traded(w) : w \in Performance(R)} = {Traded(w) : w \in Pnl(R, prices)}
<1> DEFINE Told(k) == <<k, Fifo(R)[k].realized, Fifo(R)[k].invested, Fifo(R)[k].proceeds, Fifo(R)[k].fees>>
           perf(k) == [key |-> k, realized |-> Fifo(R)[k].realized, invested |-> Fifo(R)[k].invested,
                       proceeds |-> Fifo(R)[k].proceeds, costOfSold |-> Fifo(R)[k].costOfSold,
                       fees |-> Fifo(R)[k].fees]
           pnl(k) == PnlRow(k, Fifo(R)[k], {w \in Positions(R, prices) : w.key = k})
<1> PICK K : K = {KeyOf(t) : t \in R}
  OBVIOUS
<1>1. Performance(R) = {perf(k) : k \in K}
  BY DEF Performance
<1>2. Pnl(R, prices) = {pnl(k) : k \in K}
  BY DEF Pnl, PnlOf
<1>3. \A k : Traded(perf(k)) = Told(k) /\ Traded(pnl(k)) = Told(k)
  BY DEF Traded, PnlRow
<1> HIDE DEF perf, pnl, Told
<1>4. {Traded(w) : w \in Performance(R)} = {Told(k) : k \in K}
  BY <1>1, <1>3
<1>5. {Traded(w) : w \in Pnl(R, prices)} = {Told(k) : k \in K}
  BY <1>2, <1>3
<1> QED BY <1>4, <1>5

(* What a view shows of the portfolios P.                                  *)
Viewed(P, R, prices) == {[pid |-> p, of |-> Summary(p, R, prices)] : p \in P}

(* The values of the portfolios add up to those of the positions.          *)
LEMMA ViewAddsUp ==
  ASSUME NEW R, Rows(R), NEW prices, Priced(prices), NEW P \in SUBSET Pid, \A t \in R : t.pid \in P
  PROVE  SumFunction([v \in Viewed(P, R, prices) |-> v.of.currentValue]) = Values(Positions(R, prices))
<1> PICK Ps : Ps = Positions(R, prices)
  OBVIOUS
<1> PICK f : f = [w \in Ps |-> OrZero(w.value)]
  OBVIOUS
<1> PICK key : key = [w \in Ps |-> w.key[1]]
  OBVIOUS
<1> PICK sums : sums = [p \in P |-> SumFunctionOnSet(f, {w \in Ps : key[w] = p})]
  OBVIOUS
<1>1. IsFiniteSet(Ps) /\ IsFiniteSet(P) /\ \A w \in Ps : f[w] \in Int
  BY PositionsKeyed, PidAssumption, FS_Subset
<1>2. \A w \in Ps : key[w] \in P
  <2> TAKE w \in Ps
  <2>1. PICK k \in Keys : PosAt(w, R, prices, k)
    BY PositionsAre
  <2>2. PICK t \in R : KeyOf(t) = k
    BY <2>1, PosIsTraded
  <2>3. w.key = k
    BY <2>1, PosHasKey
  <2> QED BY <2>2, <2>3 DEF KeyOf
<1>3. SumFunctionOnSet(sums, P) = SumFunctionOnSet(f, Ps)
  <2>1. Grouped(sums, f, Ps, key, P)
    BY DEF Grouped
  <2> QED BY ONLY <1>1, <1>2, <2>1, SumGroups
<1>4. \A p \in P : Summary(p, R, prices).currentValue = sums[p]
  <2> TAKE p \in P
  <2> PICK T : T = {w \in Ps : w.key[1] = p}
    OBVIOUS
  <2> PICK h : h = [w \in T |-> OrZero(w.value)]
    OBVIOUS
  <2>1. Summary(p, R, prices).currentValue = SumFunctionOnSet(h, T)
    BY DEF Summary, SummaryOf, SumFunction
  <2>2. T = {w \in Ps : key[w] = p}
    OBVIOUS
  <2>3. IsFiniteSet(T) /\ \A w \in T : h[w] = f[w]
    BY <1>1, FS_Subset
  <2>4. SumFunctionOnSet(h, T) = SumFunctionOnSet(f, T)
    BY ONLY <2>3, SumAgrees
  <2> QED BY <2>1, <2>2, <2>4
<1> PICK of : of = [p \in P |-> [pid |-> p, of |-> Summary(p, R, prices)]]
  OBVIOUS
<1> PICK V : V = Viewed(P, R, prices)
  OBVIOUS
<1> PICK g : g = [v \in V |-> v.of.currentValue]
  OBVIOUS
<1>5. V = {of[p] : p \in P}
  BY DEF Viewed
<1>6. \A p \in P : sums[p] \in Int
  <2> TAKE p \in P
  <2> PICK T : T = {w \in Ps : key[w] = p}
    OBVIOUS
  <2>1. IsFiniteSet(T) /\ \A w \in T : f[w] \in Int
    BY <1>1, FS_Subset
  <2>2. SumFunctionOnSet(f, T) \in Int
    BY ONLY <2>1, SumIsInt
  <2> QED BY <2>2
<1>7. \A p \in P : \A q \in P : of[p] = of[q] => p = q
  <2>1. \A p \in P : of[p].pid = p
    OBVIOUS
  <2> QED BY <2>1
<1>8. \A p \in P : g[of[p]] = sums[p]
  <2> TAKE p \in P
  <2>1. of[p] \in V
    BY <1>5
  <2>2. of[p].of = Summary(p, R, prices)
    OBVIOUS
  <2> QED BY <1>4, <2>1, <2>2
<1>9. SumFunctionOnSet(g, V) = SumFunctionOnSet(sums, P)
  BY ONLY <1>1, <1>5, <1>6, <1>7, <1>8, SumRenames
<1> QED BY <1>3, <1>9 DEF Values, SumFunction

(* Allocation distributes the value of the positions.                      *)
LEMMA AllocationAddsUp ==
  ASSUME NEW R, Rows(R), NEW prices, Priced(prices), Allocation(R, prices) # {}
  PROVE  SumFunction([w \in Allocation(R, prices) |-> w.value]) = Values(Positions(R, prices))
<1> PICK Ps : Ps = Positions(R, prices)
  OBVIOUS
<1> PICK total : total = Values(Ps)
  OBVIOUS
<1> PICK f : f = [w \in Ps |-> OrZero(w.value)]
  OBVIOUS
<1> PICK part : part = [w \in Ps |-> [key |-> w.key, value |-> OrZero(w.value), of |-> total, qty |-> w.qty]]
  OBVIOUS
<1> PICK A : A = Allocation(R, prices)
  OBVIOUS
<1> PICK g : g = [w \in A |-> w.value]
  OBVIOUS
<1>1. A = {part[w] : w \in Ps}
  <2>1. A = Weighted(Ps, total)
    BY DEF Allocation, Values
  <2>2. A = {[key |-> w.key, value |-> OrZero(w.value), of |-> total, qty |-> w.qty] : w \in Ps}
    BY <2>1 DEF Weighted
  <2> QED BY <2>2
<1>2. IsFiniteSet(Ps) /\ \A w \in Ps : f[w] \in Int
  BY PositionsKeyed
<1>3. \A v \in Ps : \A w \in Ps : part[v] = part[w] => v = w
  <2>1. \A w \in Ps : part[w].key = w.key
    OBVIOUS
  <2>2. \A v \in Ps : \A w \in Ps : v.key = w.key => v = w
    BY PositionsKeyed
  <2> QED BY <2>1, <2>2
<1>4. \A w \in Ps : g[part[w]] = f[w]
  <2> TAKE w \in Ps
  <2>1. part[w] \in A
    BY <1>1
  <2> QED BY <2>1
<1>5. SumFunctionOnSet(g, A) = SumFunctionOnSet(f, Ps)
  <2>1. SumFunctionOnSet(g, {part[x] : x \in Ps}) = SumFunctionOnSet(f, Ps)
    BY ONLY <1>2, <1>3, <1>4, SumRenames
  <2> QED BY <1>1, <2>1
<1> QED BY <1>5 DEF Values, SumFunction

(* A position without a cash row is what its open lots add up to.          *)
LEMMA PositionIsItsLots ==
  ASSUME NEW R, Rows(R), NEW prices, NEW w \in Positions(R, prices), w.key \notin DOMAIN CashBalances(R)
  PROVE  w.qty = QtyOf(Open(Lots(R), w.key))
<1>1. PICK k \in Keys : PosAt(w, R, prices, k)
  BY PositionsAre
<1>2. w.key = k
  BY <1>1, PosHasKey
<1>3. w = HeldAt(R, prices, k)
  BY <1>1, <1>2 DEF PosAt
<1>4. w.qty = QtyOf(ToSet(Fifo(R)[k].lots))
  BY <1>3 DEF HeldAt, HeldRow
<1> QED BY <1>2, <1>4, OpenIsBook

(* Whatever a report names was traded.                                     *)
LEMMA ReportsAreTraded ==
  ASSUME NEW R, Rows(R), NEW prices, NEW w \in Performance(R) \cup Positions(R, prices) \cup Lots(R)
  PROVE  \E t \in R : KeyOf(t) = w.key
<1>1. CASE w \in Performance(R)
  <2>1. \E k \in {KeyOf(t) : t \in R} : w.key = k
    BY <1>1 DEF Performance
  <2> QED BY <2>1
<1>2. CASE w \in Positions(R, prices)
  <2>1. PICK k \in Keys : PosAt(w, R, prices, k)
    BY <1>2, PositionsAre
  <2>2. w.key = k
    BY <2>1, PosHasKey
  <2> QED BY <2>1, <2>2, PosIsTraded
<1>3. CASE w \in Lots(R)
  <2>1. PICK k \in Keys : \E l \in ToSet(Fifo(R)[k].lots) : w = [key |-> k, lot |-> l]
    BY <1>3, LotsAre
  <2>2. w.key = k
    BY <2>1
  <2>3. \E t \in R : KeyOf(t) = k
    BY <2>1, FifoKeeps
  <2> QED BY <2>2, <2>3
<1> QED BY <1>1, <1>2, <1>3

(* export and replay tell the same rows, while no row is cut off.          *)
LEMMA ExportIsReplay ==
  ASSUME NEW R, Rows(R), Cardinality(R) <= MaxTx
  PROVE  ToSet(ListTransactions(R, Everything)) = {e.tx : e \in ReplayFifo(R)}
<1> PICK n \in Nat : n = Cardinality(R)
  BY StreamIsSorted
<1> PICK S : S = Stream(R)
  OBVIOUS
<1>1. S \in Seq(R) /\ Len(S) = n /\ (\A i \in 1..n : S[i] \in R) /\ \A t \in R : \E i \in 1..n : S[i] = t
  BY StreamIsSorted
<1>2. {t \in R : /\ t.asset \in Everything.assets
                 /\ t.side \in Everything.sides
                 /\ t.ts >= Everything.since} = R
  <2>1. \A t \in R : t.asset \in Asset /\ t.side \in {"BUY", "SELL"} /\ t.ts \in Nat
    BY DEF Rows, Transaction
  <2> QED BY <2>1 DEF Everything
<1>3. ListTransactions(R, Everything) = S
  <2>1. ListTransactions(R, Everything) = SubSeq(S, 1, Min({Len(S), MaxTx}))
    BY <1>2 DEF ListTransactions, Everything
  <2>2. Min({n, MaxTx}) = n
    BY BoundAssumption, MinWith
  <2>3. SubSeq(S, 1, n) = S
    BY <1>1
  <2> QED BY <1>1, <2>1, <2>2, <2>3
<1>4. ToSet(S) = R
  BY <1>1 DEF ToSet
<1>5. PICK acc : /\ Together(acc, Fifo(R), S, n)
                 /\ ReplayFifo(R) = {AsReplayed(e, acc.lots) : e \in acc.events}
  BY ReplayEnd
<1> PICK E : E = acc.events
  OBVIOUS
<1>6. (\A e \in E : \E i \in 1..n : e.tx = S[i]) /\ \A i \in 1..n : \E e \in E : e.tx = S[i]
  BY <1>5 DEF Together
<1>7. \A e : AsReplayed(e, acc.lots).tx = e.tx
  BY DEF AsReplayed
<1>8. {e.tx : e \in ReplayFifo(R)} = {e.tx : e \in E}
  <2>1. ReplayFifo(R) = {AsReplayed(e, acc.lots) : e \in E}
    BY <1>5
  <2> QED BY ONLY <1>7, <2>1
<1>9. {e.tx : e \in E} = R
  BY <1>1, <1>6
<1> QED BY <1>3, <1>4, <1>8, <1>9

(* The external balances that a view of positions amounts to.              *)
HeldIn(positions) ==
  [a \in {w.key[2] : w \in positions} |-> (CHOOSE w \in positions : w.key[2] = a).qty]

(* What a key holds does not depend on its price.                          *)
LEMMA QtyHasNoPrice ==
  ASSUME NEW R, NEW p1, NEW p2, NEW k
  PROVE  /\ (\E w : PosAt(w, R, p1, k)) <=> \E w : PosAt(w, R, p2, k)
         /\ \A v : \A w : PosAt(v, R, p1, k) /\ PosAt(w, R, p2, k) => v.qty = w.qty
<1>1. HeldAt(R, p1, k).qty = HeldAt(R, p2, k).qty
  BY DEF HeldAt, HeldRow
<1>2. (\E w : PosAt(w, R, p1, k)) <=> \E w : PosAt(w, R, p2, k)
  BY DEF PosAt
<1>3. \A v : \A w : PosAt(v, R, p1, k) /\ PosAt(w, R, p2, k) => v.qty = w.qty
  BY <1>1 DEF PosAt
<1> QED BY <1>2, <1>3

(* The positions of one portfolio reconcile with what it says it holds.    *)
LEMMA ReconcilesWithItself ==
  ASSUME NEW R, Rows(R), NEW p, \A t \in R : t.pid = p, NEW prices
  PROVE  \A d \in Reconcile(R, HeldIn(Positions(R, prices))) : d.status = "match"
<1> PICK Ps : Ps = Positions(R, prices)
  OBVIOUS
<1> PICK Qs : Qs = Positions(R, <<>>)
  OBVIOUS
<1> PICK held : held = HeldIn(Ps)
  OBVIOUS
<1>1. ASSUME NEW any, NEW w \in Positions(R, any)
      PROVE  w.key \in Keys /\ w.key = <<p, w.key[2]>> /\ PosAt(w, R, any, <<p, w.key[2]>>)
  <2>1. PICK k \in Keys : PosAt(w, R, any, k)
    BY PositionsAre
  <2>2. w.key = k
    BY <2>1, PosHasKey
  <2>3. PICK t \in R : KeyOf(t) = k
    BY <2>1, PosIsTraded
  <2>4. k[1] = p
    BY <2>3 DEF KeyOf
  <2>5. k = <<p, k[2]>>
    BY <2>4 DEF Keys
  <2> QED BY <2>1, <2>2, <2>5
<1>2. ASSUME NEW any, NEW other, NEW w \in Positions(R, any)
      PROVE  \E v \in Positions(R, other) : v.key = w.key
  <2> PICK k \in Keys : k = w.key
    BY <1>1
  <2>1. \E v : PosAt(v, R, any, k)
    BY <1>1
  <2>2. PICK v : PosAt(v, R, other, k)
    BY <2>1, QtyHasNoPrice
  <2>3. v \in Positions(R, other) /\ v.key = k
    BY <2>2, PositionsAre, PosHasKey
  <2> QED BY <2>3
<1>3. DOMAIN held = {w.key[2] : w \in Qs}
  <2>1. DOMAIN held = {w.key[2] : w \in Ps}
    BY DEF HeldIn
  <2>2. ASSUME NEW w \in Ps PROVE \E v \in Qs : v.key[2] = w.key[2]
    <3>1. PICK v \in Positions(R, <<>>) : v.key = w.key
      BY <1>2
    <3> QED BY <3>1
  <2>3. ASSUME NEW w \in Qs PROVE \E v \in Ps : v.key[2] = w.key[2]
    <3>1. PICK v \in Positions(R, prices) : v.key = w.key
      BY <1>2
    <3> QED BY <3>1
  <2> QED BY <2>1, <2>2, <2>3
<1> DEFINE Holders(a) == {w \in Qs : w.key[2] = a}
           Computed(a) == IF Holders(a) = {} THEN 0
                          ELSE (CHOOSE w \in Holders(a) : \A v \in Holders(a) : v.key[1] <= w.key[1]).qty
           External(a) == IF a \in DOMAIN held THEN held[a] ELSE 0
<1>4. Reconcile(R, held) = {[asset |-> a, delta |-> Computed(a) - External(a),
                             status |-> Status(Computed(a), External(a))] :
                               a \in {w.key[2] : w \in Qs} \cup DOMAIN held}
  BY DEF Reconcile, Compare
<1>5. ASSUME NEW a \in {w.key[2] : w \in Qs} PROVE Computed(a) = External(a)
  <2> PICK k : k = <<p, a>>
    OBVIOUS
  <2>1. PICK v \in Qs : v.key[2] = a
    OBVIOUS
  <2>2. PosAt(v, R, <<>>, k) /\ v.key = k
    BY <1>1, <2>1
  <2>3. \A x \in Qs : x.key[2] = a => x = v
    BY <1>1, <2>2, OnePosition
  <2>4. Holders(a) = {v}
    BY <2>1, <2>3
  <2>5. Computed(a) = v.qty
    <3>1. v.key[1] <= v.key[1]
      <4>1. v.key \in Keys
        BY <1>1
      <4> PICK id \in Nat : id = v.key[1]
        BY <4>1, PidIsNat DEF Keys
      <4> QED OBVIOUS
    <3>2. (CHOOSE w \in {v} : \A u \in {v} : u.key[1] <= w.key[1]) = v
      BY <3>1
    <3> QED BY <2>4, <3>2
  <2>6. PICK w \in Ps : w.key[2] = a
    BY <1>2, <2>1
  <2>7. \A x \in Ps : x.key[2] = a => PosAt(x, R, prices, k)
    BY <1>1
  <2> PICK c : c = CHOOSE x \in Ps : x.key[2] = a
    OBVIOUS
  <2>8. c \in Ps /\ c.key[2] = a
    BY <2>6
  <2>9. PosAt(c, R, prices, k)
    BY <2>7, <2>8
  <2>10. c.qty = v.qty
    BY <2>2, <2>9, QtyHasNoPrice
  <2>11. a \in DOMAIN held /\ held[a] = c.qty
    BY <1>3, <2>6 DEF HeldIn
  <2> QED BY <2>5, <2>10, <2>11
<1>6. \A x : Status(x, x) = "match"
  BY DEF Status
<1> HIDE DEF Computed, External
<1>7. ASSUME NEW d \in Reconcile(R, held) PROVE d.status = "match"
  <2>1. PICK a \in {w.key[2] : w \in Qs} : d.status = Status(Computed(a), External(a))
    BY <1>3, <1>4
  <2> QED BY <1>5, <1>6, <2>1
<1> QED BY <1>7

(* No more rows than the bound allows were ever inserted.                  *)
Numbered == nextId <= MaxTx + 1 /\ \A t \in txs : t.id # 0
StoryInv == KeyInv /\ Numbered

(* Every operation keeps the ids within the bound.                         *)
LEMMA NumberedStep == StoryInv /\ [Next]_vars => StoryInv'
<1> SUFFICES ASSUME StoryInv, [Next]_vars PROVE Numbered'
  BY ForeignKeyStep DEF StoryInv
<1>0. Numbered /\ nextId \in Nat \ {0} /\ MaxTx \in Nat
  BY BoundAssumption DEF StoryInv, KeyInv, TypeOK
<1>1. CASE CmdPortfolioCreate
  BY <1>0, <1>1 DEF Numbered, CmdPortfolioCreate
<1>2. ASSUME NEW e \in Entries, AddTransaction(e) \/ AddTransactionWithDecision(e) PROVE Numbered'
  <2>1. Row(e, nextId).id = nextId
    BY DEF Row
  <2>2. nextId <= MaxTx /\ nextId' = nextId + 1 /\ txs' = txs \cup {Row(e, nextId)}
    BY <1>2 DEF AddTransaction, AddTransactionWithDecision
  <2> QED BY <1>0, <2>1, <2>2 DEF Numbered
<1>3. ASSUME NEW t \in txs, RemoveTransaction(t) PROVE Numbered'
  BY <1>0, <1>3 DEF Numbered, RemoveTransaction
<1>4. ASSUME NEW p \in Pid, DeletePortfolio(p) PROVE Numbered'
  BY <1>0, <1>4 DEF Numbered, DeletePortfolio
<1>5. CASE UNCHANGED vars
  BY <1>0, <1>5 DEF Numbered, vars
<1> QED BY <1>1, <1>2, <1>3, <1>4, <1>5 DEF Next

(* Rows under existing portfolios, with ids within the bound.              *)
LEMMA StoryInvariant == Spec => []StoryInv
<1>1. Init => KeyInv
  BY FS_EmptySet DEF Init, TypeOK, ForeignKey, KeyInv
<1>2. Init => Numbered
  BY BoundAssumption DEF Init, Numbered
<1> QED BY <1>1, <1>2, NumberedStep, PTL DEF Spec, StoryInv

(* A bounded number of ids is a bounded number of rows.                    *)
LEMMA RowsAreBounded ==
  ASSUME StoryInv, NEW R \in SUBSET txs PROVE Cardinality(R) <= MaxTx
<1>0. TypeOK /\ Numbered
  BY DEF StoryInv, KeyInv
<1>1. nextId \in Nat /\ MaxTx \in Nat /\ nextId <= MaxTx + 1
  BY <1>0, BoundAssumption DEF TypeOK, Numbered
<1>2. \A t \in R : t.id \in 1..MaxTx
  <2> TAKE t \in R
  <2>1. t.id \in Nat /\ t.id # 0 /\ t.id < nextId
    BY <1>0 DEF TypeOK, Numbered, Transaction
  <2> QED BY <1>1, <2>1
<1>3. \A t \in R : \A u \in R : t.id = u.id => t = u
  BY <1>0 DEF TypeOK
<1> PICK f : f = [t \in R |-> t.id]
  OBVIOUS
<1>4. f \in Injection(R, 1..MaxTx)
  <2>1. f \in [R -> 1..MaxTx] /\ \A t \in R : \A u \in R : f[t] = f[u] => t = u
    BY <1>2, <1>3
  <2> QED BY <2>1, Fun_IsInj
<1>5. IsFiniteSet(1..MaxTx) /\ Cardinality(1..MaxTx) = MaxTx
  <2>1. 1 \in Int /\ MaxTx \in Int
    BY <1>1
  <2>2. Cardinality(1..MaxTx) = IF 1 > MaxTx THEN 0 ELSE MaxTx - 1 + 1
    BY <2>1, FS_Interval
  <2> QED BY <1>1, <2>1, <2>2, FS_Interval
<1> QED BY <1>4, <1>5, FS_Injection

(* The portfolios a token names, by id or by name.                         *)
Own(token) ==
  IF token = NoToken THEN portfolios
  ELSE {p \in portfolios : p \in AsId[token] \/ NameOf[p] = token}

(* A command sees exactly the rows of portfolios its token names, of one   *)
(* portfolio when there is a token, and is refused only for want of one.   *)
LEMMA ScopeIs ==
  ASSUME KeyInv, NEW token \in Tokens \cup {NoToken}
  PROVE  /\ token # NoToken => (Scope(token) = {} <=> Own(token) = {})
         /\ Scope(token) \cap portfolios \subseteq Own(token)
         /\ \A t \in RowsFor(token) : t.pid \in Scope(token) \cap portfolios
         /\ token # NoToken => \E p : Scope(token) \subseteq {p}
<1>1. portfolios \subseteq Pid /\ \A t \in txs : t.pid \in portfolios
  BY DEF KeyInv, TypeOK, ForeignKey
<1>2. \A t \in RowsFor(token) : t.pid \in Scope(token) \cap portfolios
  BY <1>1 DEF RowsFor, RowsOf
<1>3. CASE token = NoToken
  BY <1>1, <1>2, <1>3 DEF Own
<1>4. CASE token # NoToken
  <2>0. token \in Tokens
    BY <1>4
  <2> PICK ids : ids = AsId[token]
    OBVIOUS
  <2> PICK named : named = {p \in portfolios : NameOf[p] = token}
    OBVIOUS
  <2>1. Scope(token) = IF ids \cap portfolios # {} THEN ids \cap portfolios ELSE named
    BY <1>4 DEF Scope, GetPortfolio
  <2>2. Own(token) = (ids \cap portfolios) \cup named
    BY <1>4 DEF Own
  <2>3. \E p : ids \subseteq {p}
    <3>1. ids \in SUBSET Pid /\ Cardinality(ids) <= 1
      BY <2>0, TokenAssumption
    <3>2. IsFiniteSet(ids)
      BY <3>1, PidAssumption, FS_Subset
    <3>3. SUFFICES ASSUME NEW x \in ids, NEW y \in ids, x # y PROVE FALSE
      OBVIOUS
    <3>4. {x, y} \in SUBSET ids /\ Cardinality({x, y}) <= Cardinality(ids)
      <4>1. {x, y} \in SUBSET ids
        OBVIOUS
      <4> QED BY <4>1, <3>2, FS_Subset
    <3>5. Cardinality({x, y}) = 2
      <4>1. IsFiniteSet({x}) /\ Cardinality({x}) = 1
        BY FS_Singleton
      <4>2. Cardinality({x} \cup {y}) = Cardinality({x}) + 1
        BY <3>3, <4>1, FS_AddElement
      <4>3. {x} \cup {y} = {x, y}
        OBVIOUS
      <4> QED BY <4>1, <4>2, <4>3
    <3>6. Cardinality(ids) \in Nat
      BY <3>2, FS_CardinalityType
    <3> QED BY <3>1, <3>4, <3>5, <3>6
  <2>4. \E p : named \subseteq {p}
    <3>1. \A p \in named : \A q \in named : p = q
      BY <1>1, TokenAssumption
    <3> QED BY <3>1
  <2> QED BY <1>2, <1>4, <2>1, <2>2, <2>3, <2>4
<1> QED BY <1>3, <1>4

(* The prices of a session are numbers.                                    *)
PricesFor(live) == GetPrices(live = <<>>, <<>>, live, <<>>)
LEMMA SessionIsPriced == ASSUME NEW live \in Prices PROVE Priced(PricesFor(live))
<1> PICK found : found = IF live = <<>> THEN <<>> ELSE RefreshPrices(live)
  OBVIOUS
<1>1. DOMAIN <<>> = {}
  OBVIOUS
<1>2. PricesFor(live) = [a \in DOMAIN found |-> found[a]]
  BY <1>1 DEF PricesFor, GetPrices
<1>3. CASE live = <<>>
  BY <1>1, <1>2, <1>3 DEF Priced
<1>4. CASE live # <<>>
  <2>1. found = [a \in {t.asset : t \in txs} \cap DOMAIN live |-> live[a]]
    BY <1>4 DEF RefreshPrices
  <2>2. \A a \in DOMAIN live : live[a] \in Int
    BY ValueAssumption
  <2> QED BY <1>2, <2>1, <2>2 DEF Priced
<1> QED BY <1>3, <1>4

(* A refused session shows nothing, and nothing else is refused.           *)
LEMMA SessionIs ==
  ASSUME KeyInv, NEW token \in Tokens \cup {NoToken}, NEW live \in Prices
  PROVE  LET r == Session(token, live)
             R == RowsFor(token)
             prices == PricesFor(live)
         IN IF token # NoToken /\ Own(token) = {}
            THEN /\ r.list = Refused /\ r.export = Refused /\ r.replay = Refused
                 /\ r.positions = Refused /\ r.lots = Refused /\ r.pnl = Refused
                 /\ r.performance = Refused /\ r.allocation = Refused /\ r.view = Refused
            ELSE /\ r.list = ListTransactions(R, Everything) /\ r.export = r.list
                 /\ r.replay = ReplayFifo(R)
                 /\ r.positions = Positions(R, prices) /\ r.lots = Lots(R)
                 /\ r.pnl = Pnl(R, prices) /\ r.performance = Performance(R)
                 /\ r.allocation = Allocation(R, prices)
                 /\ r.view = Viewed(Scope(token) \cap portfolios, R, prices)
<1> PICK r : r = Session(token, live)
  OBVIOUS
<1> PICK R : R = RowsFor(token)
  OBVIOUS
<1> PICK prices : prices = PricesFor(live)
  OBVIOUS
<1>1. /\ r.list = CmdList(token, Everything) /\ r.export = CmdExport(token)
      /\ r.replay = CmdReplay(token) /\ r.positions = CmdPositions(token, prices)
      /\ r.lots = CmdLots(token, Asset) /\ r.pnl = CmdPnl(token, prices)
      /\ r.performance = CmdPerformance(token) /\ r.allocation = CmdAllocation(token, prices)
      /\ r.view = CmdView(token, prices)
  BY DEF Session, PricesFor
<1>2. token # NoToken => (Scope(token) = {} <=> Own(token) = {})
  BY ScopeIs
<1>3. {l \in Lots(R) : l.key[2] \in Asset} = Lots(R)
  <2>1. Rows(R)
    BY TypeRows DEF KeyInv, RowsFor
  <2>2. \A l \in Lots(R) : l.key \in Keys
    BY <2>1, LotsAre
  <2> QED BY <2>2 DEF Keys
<1>4. CASE token # NoToken /\ Own(token) = {}
  <2>1. \A x : Shown(token, x) = Refused
    BY <1>2, <1>4 DEF Shown
  <2> QED BY <1>1, <1>4, <2>1 DEF CmdList, CmdExport, CmdReplay, CmdPositions, CmdLots, CmdPnl,
                                  CmdPerformance, CmdAllocation, CmdView
<1>5. CASE ~(token # NoToken /\ Own(token) = {})
  <2>1. \A x : Shown(token, x) = x
    BY <1>2, <1>5 DEF Shown
  <2>2. r.list = ListTransactions(R, Everything) /\ r.export = ListTransactions(R, Everything)
    BY <1>1, <2>1 DEF CmdList, CmdExport
  <2>3. r.replay = ReplayFifo(R) /\ r.positions = Positions(R, prices) /\ r.pnl = Pnl(R, prices)
    BY <1>1, <2>1 DEF CmdReplay, CmdPositions, CmdPnl
  <2>4. r.performance = Performance(R) /\ r.allocation = Allocation(R, prices)
    BY <1>1, <2>1 DEF CmdPerformance, CmdAllocation
  <2>5. r.lots = Lots(R)
    BY <1>1, <1>3, <2>1 DEF CmdLots
  <2>6. r.view = Viewed(Scope(token) \cap portfolios, R, prices)
    BY <1>1, <2>1 DEF CmdView, Viewed
  <2> QED BY <1>5, <2>2, <2>3, <2>4, <2>5, <2>6
<1> QED BY <1>4, <1>5

(* The commands agree on bounded rows under existing portfolios.           *)
LEMMA StoryHolds == StoryInv => ReportsAgree
<1> SUFFICES ASSUME StoryInv, NEW token \in Tokens \cup {NoToken}, NEW live \in Prices
             PROVE  OneStory(Session(token, live))
  BY DEF ReportsAgree
<1> PICK r : r = Session(token, live)
  OBVIOUS
<1> PICK R : R = RowsFor(token)
  OBVIOUS
<1> PICK prices : prices = PricesFor(live)
  OBVIOUS
<1> PICK P : P = Scope(token) \cap portfolios
  OBVIOUS
<1>0. TypeOK /\ KeyInv
  BY DEF StoryInv, KeyInv
<1>1. /\ r.token = token /\ r.own = Own(token) /\ r.cash = DOMAIN CashBalances(txs)
  BY DEF Session, Own
<1>2. CASE token # NoToken /\ Own(token) = {}
  <2>1. /\ r.list = Refused /\ r.export = Refused /\ r.replay = Refused
        /\ r.positions = Refused /\ r.lots = Refused /\ r.pnl = Refused
        /\ r.performance = Refused /\ r.allocation = Refused /\ r.view = Refused
    BY <1>0, <1>2, SessionIs
  <2> QED BY <1>1, <1>2, <2>1 DEF OneStory
<1>3. CASE ~(token # NoToken /\ Own(token) = {})
  <2>0. Priced(prices) /\ Rows(R) /\ Rows(txs) /\ R \in SUBSET txs
    BY <1>0, SessionIsPriced, TypeRows DEF RowsFor, RowsOf
  <2>1. /\ r.list = ListTransactions(R, Everything) /\ r.export = r.list
        /\ r.replay = ReplayFifo(R)
        /\ r.positions = Positions(R, prices) /\ r.lots = Lots(R)
        /\ r.pnl = Pnl(R, prices) /\ r.performance = Performance(R)
        /\ r.allocation = Allocation(R, prices)
        /\ r.view = Viewed(P, R, prices)
    BY <1>0, <1>3, SessionIs
  <2>2. /\ token # NoToken => (Scope(token) = {} <=> Own(token) = {})
        /\ P \subseteq Own(token) /\ (\A t \in R : t.pid \in P)
        /\ token # NoToken => \E p : Scope(token) \subseteq {p}
    BY <1>0, ScopeIs
  <2>3. P \in SUBSET Pid
    BY <1>0 DEF TypeOK
  <2>4. {w.key[1] : w \in r.performance \cup r.positions \cup r.lots} \subseteq r.own
    <3> SUFFICES ASSUME NEW w \in r.performance \cup r.positions \cup r.lots PROVE w.key[1] \in r.own
      OBVIOUS
    <3>1. PICK t \in R : KeyOf(t) = w.key
      BY <2>0, <2>1, ReportsAreTraded
    <3> QED BY <1>1, <2>2, <3>1 DEF KeyOf
  <2>5. {Traded(w) : w \in r.performance} = {Traded(w) : w \in r.pnl}
    <3>1. {Traded(w) : w \in Performance(R)} = {Traded(w) : w \in Pnl(R, prices)}
      BY PerformanceIsPnl
    <3> QED BY <2>1, <3>1
  <2>6. SumFunction([v \in r.view |-> v.of.currentValue]) = SumFunction([w \in r.positions |-> OrZero(w.value)])
    <3>1. SumFunction([v \in Viewed(P, R, prices) |-> v.of.currentValue]) = Values(Positions(R, prices))
      BY <2>0, <2>2, <2>3, ViewAddsUp
    <3> QED BY <2>1, <3>1 DEF Values
  <2>7. r.allocation # {} => SumFunction([v \in r.view |-> v.of.currentValue])
                               = SumFunction([w \in r.allocation |-> w.value])
    <3> SUFFICES ASSUME Allocation(R, prices) # {}
                 PROVE  SumFunction([w \in Allocation(R, prices) |-> w.value]) = Values(Positions(R, prices))
      BY <2>1, <2>6 DEF Values
    <3> QED BY <2>0, AllocationAddsUp
  <2>8. ASSUME NEW w \in r.positions, w.key \notin r.cash
        PROVE  w.qty = QtyOf({l.lot : l \in {m \in r.lots : m.key = w.key}})
    <3> PICK k : k = w.key
      OBVIOUS
    <3>1. w \in Positions(R, prices)
      BY <2>1
    <3>2. k \in Keys
      BY <2>0, <3>1, PositionsKeyed
    <3>3. PICK t \in R : KeyOf(t) = k
      BY <2>0, <3>1, ReportsAreTraded
    <3>4. k[1] \in Scope(token)
      BY <2>2, <3>3 DEF KeyOf
    <3>5. Within(R, k[1]) = Within(txs, k[1])
      BY <3>4 DEF Within, RowsFor, RowsOf
    <3>6. k \notin DOMAIN CashBalances(R)
      BY <1>1, <2>0, <2>8, <3>2, <3>5, CashApart
    <3>7. w.qty = QtyOf(Open(Lots(R), k))
      BY <2>0, <3>1, <3>6, PositionIsItsLots
    <3> QED BY <2>1, <3>7 DEF Open
  <2>9. ToSet(r.export) = {e.tx : e \in r.replay}
    <3>1. Cardinality(R) <= MaxTx
      BY <2>0, RowsAreBounded
    <3>2. ToSet(ListTransactions(R, Everything)) = {e.tx : e \in ReplayFifo(R)}
      BY <2>0, <3>1, ExportIsReplay
    <3> QED BY <2>1, <3>2
  <2>10. ASSUME token # NoToken PROVE \A d \in CmdReconcile(r.token, Holdings(r)) : d.status = "match"
    <3>1. PICK p : Scope(token) \subseteq {p}
      BY <2>2, <2>10
    <3>2. \A t \in R : t.pid = p
      BY <2>2, <3>1
    <3>3. Holdings(r) = HeldIn(Positions(R, prices))
      BY <2>1 DEF Holdings, HeldIn
    <3>4. CmdReconcile(token, Holdings(r)) = Reconcile(R, HeldIn(Positions(R, prices)))
      BY <1>3, <2>2, <2>10, <3>3 DEF CmdReconcile, Shown
    <3>5. \A d \in Reconcile(R, HeldIn(Positions(R, prices))) : d.status = "match"
      BY <2>0, <3>2, ReconcilesWithItself
    <3> QED BY <1>1, <3>4, <3>5
  <2>11. r.list = r.export
    BY <2>1
  <2> QED BY <1>1, <1>3, <2>4, <2>5, <2>6, <2>7, <2>8, <2>9, <2>10, <2>11 DEF OneStory
<1> QED BY <1>2, <1>3

(* The reading commands tell one story of every ledger that operations     *)
(* lead to, whatever the token and the prices: their figures agree, and    *)
(* nothing is shown of a portfolio the token does not name.                *)
THEOREM CommandsTellOneStory == Spec => []ReportsAgree
  BY StoryInvariant, StoryHolds, PTL
=============================================================================
