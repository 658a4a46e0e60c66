-------------------------- MODULE RiskEngineProofs --------------------------
(***************************************************************************)
(* Proofs about RiskEngine, for every number of vets, all assets, costs,   *)
(* prices, intents and limits, and however fills, price refreshes and      *)
(* other vets run between the reads of a vet.                              *)
(***************************************************************************)
EXTENDS RiskEngine, FoldTheorems

(* The steps after each read of a vet.                                     *)
LotsRead == {"cash", "drawdown lots", "drawdown cash", "select", "rebase", "raise", "trades", "vetted"}
CashRead == {"drawdown lots", "drawdown cash", "select", "rebase", "raise", "trades", "vetted"}
LotsReadAgain == {"drawdown cash", "select", "rebase", "raise", "trades", "vetted"}
CashReadAgain == {"select", "rebase", "raise", "trades", "vetted"}
PeakRead == {"rebase", "raise", "trades", "vetted"}

(* What a vet has read it has, and of the right type; without a portfolio  *)
(* it has read nothing.                                                    *)
Complete(v) ==
  /\ v.step # "idle" => v.prices \in Prices /\ v.reference \in Prices
  /\ ~v.loaded /\ v.step # "idle" =>
       v.step = "vetted" /\ v.trades = {} /\ \A a \in Asset : v.prices[a] = None
  /\ v.loaded =>
       /\ v.step \in LotsRead => v.held \in Quantities
       /\ v.step \in LotsReadAgain => v.dheld \in Quantities
       /\ v.step \in PeakRead => v.peak \in Int

(* What a vet that nothing overtook has read is what is there now.  Prices *)
(* are read for the assets held, and those are the ones that matter.       *)
Fresh(v, h, c, pr, td) ==
  v.clean /\ v.loaded /\ v.step # "idle" =>
    /\ \A a \in Asset : h[a] > 0 => v.prices[a] = pr[a]
    /\ v.step \in LotsRead => v.held = h
    /\ v.step \in CashRead => v.cash = c
    /\ v.step \in LotsReadAgain => v.dheld = h
    /\ v.step \in CashReadAgain => v.dcash = c
    /\ v.step = "vetted" => v.trades = td

(* Whether there is a cash row never changes, so that even an old read of  *)
(* it tells.                                                               *)
Booked(v, c) == v.loaded /\ v.step \in CashReadAgain => (v.dcash = None <=> c = None)

(* All of this, for one vet and for every vet.                             *)
Reading(v) == Complete(v) /\ Fresh(v, held, cash, price, today) /\ Booked(v, cash)
ReadInv == \A p \in Vet : Reading(vet[p])

(* The best equity is at least the one of now and never negative, and an   *)
(* honest peak is at most the best.                                        *)
PeakInv ==
  /\ Equity <= best /\ 0 <= best
  /\ rebased /\ cash # None /\ ~blurred => peak <= best

(* The inductive invariant.                                                *)
IInv == TypeOK /\ ReadInv /\ PeakInv

-----------------------------------------------------------------------------

(* The greater of two.                                                     *)
LEMMA MaxOfTwo ==
  ASSUME NEW x \in Int, NEW y \in Int PROVE Max({x, y}) = IF x >= y THEN x ELSE y
<1>1. \E m \in {x, y} : \A n \in {x, y} : m >= n
  OBVIOUS
<1>2. Max({x, y}) \in {x, y} /\ \A n \in {x, y} : Max({x, y}) >= n
  BY <1>1 DEF Max
<1> QED BY <1>2

(* Positions are worth whole amounts.                                      *)
LEMMA WorthIsNat ==
  ASSUME NEW h \in Quantities, NEW pr \in Prices
  PROVE  /\ Worth(h, pr) = [a \in Asset |-> Worth(h, pr)[a]]
         /\ \A a \in Asset : Worth(h, pr)[a] \in Nat
<1>1. ASSUME NEW m \in Nat, NEW n \in Nat PROVE m * n \in Nat
  OBVIOUS
<1>2. \A a \in Asset : h[a] \in Nat /\ (IF pr[a] # None THEN pr[a] ELSE Cost[a]) \in Nat
  BY RiskAssumption DEF Quantities, Prices
<1> QED BY <1>1, <1>2 DEF Worth

(* So is a portfolio; with the cash row it may be below zero.              *)
LEMMA ValueIsInt ==
  ASSUME NEW h \in Quantities, NEW pr \in Prices, NEW c \in Money
  PROVE  /\ SumFunction(Worth(h, pr)) \in Nat
         /\ Value(h, c, pr) \in Int
         /\ Value(h, c, pr) = SumFunction(Worth(h, pr)) + IF c = None THEN 0 ELSE c
<1>1. DOMAIN Worth(h, pr) = Asset
  BY DEF Worth
<1>2. SumFunction(Worth(h, pr)) \in Nat
  <2> PICK w : w = Worth(h, pr)
    OBVIOUS
  <2>1. \A a \in Asset : w[a] \in Nat
    BY WorthIsNat
  <2>2. SumFunctionOnSet(w, Asset) \in Nat
    BY <2>1, RiskAssumption, SumIsNat
  <2> QED BY <1>1, <2>2 DEF SumFunction
<1>3. (IF c = None THEN 0 ELSE c) \in Int
  BY DEF Money
<1> QED BY <1>2, <1>3 DEF Value

(* The types hold at first.                                                *)
LEMMA InitHasType == Init => TypeOK
<1> SUFFICES ASSUME Init PROVE TypeOK
  OBVIOUS
<1>1. held \in Quantities /\ cash \in Money /\ price \in Prices /\ peak \in Int /\ rebased \in BOOLEAN
  BY RiskAssumption DEF Init, Quantities, Money, Prices
<1>2. best \in Int
  BY <1>1, ValueIsInt DEF Init, Equity
<1>3. vet \in [Vet -> VetState]
  BY DEF Init, Idle, VetState, Steps, Money
<1>4. today \subseteq Trades /\ fills \in 0..MaxFills /\ quotes \in 0..MaxQuotes
  BY RiskAssumption DEF Init
<1>5. blurred \in BOOLEAN
  BY DEF Init
<1> QED BY <1>1, <1>2, <1>3, <1>4, <1>5 DEF TypeOK, VetState

(* A step of a vet leaves it with what it has read so far, from the        *)
(* portfolio as it is.                                                     *)
LEMMA VetMoves ==
  ASSUME TypeOK, NEW p \in Vet, Reading(vet[p]),
         \/ \E loaded \in BOOLEAN : Begin(p, loaded)
         \/ ReadLots(p) \/ ReadCash(p) \/ ReadLotsAgain(p) \/ ReadCashAgain(p)
         \/ SelectPeak(p) \/ Rebase(p) \/ RaisePeak(p)
         \/ ReadTrades(p) \/ Answer(p)
  PROVE  \E w \in VetState : vet' = [vet EXCEPT ![p] = w] /\ Reading(w)
<1> PICK v \in VetState : v = vet[p]
  BY DEF TypeOK, VetState
<1>0. Reading(v)
  OBVIOUS
<1> USE DEF VetState
<1> DEFINE Moved(w) == w \in VetState /\ vet' = [vet EXCEPT ![p] = w] /\ Reading(w)
           Goal == \E w \in VetState : vet' = [vet EXCEPT ![p] = w] /\ Reading(w)
<1> USE DEF LotsRead, CashRead, LotsReadAgain, CashReadAgain, PeakRead
<1>1. ASSUME NEW loaded \in BOOLEAN, Begin(p, loaded) PROVE Goal
  <2> DEFINE pr == [a \in Asset |-> IF loaded /\ held[a] > 0 THEN price[a] ELSE None]
             w == [Idle EXCEPT !.loaded = loaded, !.reference = price, !.prices = pr,
                       !.step = IF loaded THEN "lots" ELSE "vetted"]
  <2>1. pr \in Prices /\ price \in Prices
    BY DEF TypeOK, Prices
  <2>2. w \in VetState
    <3>1. Idle \in VetState
      BY ZenonT(40) DEF Idle, Steps, Money
    <3> PICK z \in VetState : z = Idle
      BY <3>1
    <3> PICK st \in Steps : st = IF loaded THEN "lots" ELSE "vetted"
      BY DEF Steps
    <3>2. w = [z EXCEPT !.loaded = loaded, !.reference = price, !.prices = pr, !.step = st]
      OBVIOUS
    <3> QED BY <2>1, <3>2, ZenonT(40)
  <2>3. vet' = [vet EXCEPT ![p] = w]
    BY <1>1 DEF Begin, Then
  <2>4. /\ \A a \in Asset : loaded /\ held[a] > 0 => pr[a] = price[a]
        /\ \A a \in Asset : ~loaded => pr[a] = None
    OBVIOUS
  <2>5. /\ w.step = IF loaded THEN "lots" ELSE "vetted"
        /\ w.prices = pr /\ w.reference = price /\ w.loaded = loaded /\ w.trades = {}
    BY DEF Idle
  <2> HIDE DEF pr, w
  <2>6. Complete(w)
    BY <2>1, <2>4, <2>5 DEF Complete
  <2>7. Fresh(w, held, cash, price, today)
    BY <2>4, <2>5 DEF Fresh
  <2>8. Booked(w, cash)
    BY <2>5 DEF Booked
  <2> QED BY <2>2, <2>3, <2>6, <2>7, <2>8 DEF Reading
<1>2. ASSUME ReadLots(p) PROVE Goal
  <2> DEFINE w == [v EXCEPT !.held = held, !.step = "cash"]
  <2>1. w \in VetState
    BY DEF TypeOK, Steps
  <2>2. vet' = [vet EXCEPT ![p] = w] /\ v.step = "lots"
    BY <1>2 DEF ReadLots, Then, At
  <2>3. Reading(w)
    BY <1>0, <2>2 DEF Reading, Complete, Fresh, Booked, TypeOK
  <2> QED BY <2>1, <2>2, <2>3
<1>3. ASSUME ReadCash(p) PROVE Goal
  <2> DEFINE w == [v EXCEPT !.cash = cash, !.step = "drawdown lots"]
  <2>1. w \in VetState
    BY DEF TypeOK, Steps
  <2>2. vet' = [vet EXCEPT ![p] = w] /\ v.step = "cash"
    BY <1>3 DEF ReadCash, Then, At
  <2>3. Reading(w)
    BY <1>0, <2>2 DEF Reading, Complete, Fresh, Booked, TypeOK
  <2> QED BY <2>1, <2>2, <2>3
<1>4. ASSUME ReadLotsAgain(p) PROVE Goal
  <2> DEFINE w == [v EXCEPT !.dheld = held, !.step = "drawdown cash"]
  <2>1. w \in VetState
    BY DEF TypeOK, Steps
  <2>2. vet' = [vet EXCEPT ![p] = w] /\ v.step = "drawdown lots"
    BY <1>4 DEF ReadLotsAgain, Then, At
  <2>3. Reading(w)
    BY <1>0, <2>2 DEF Reading, Complete, Fresh, Booked, TypeOK
  <2> QED BY <2>1, <2>2, <2>3
<1>5. ASSUME ReadCashAgain(p) PROVE Goal
  <2> DEFINE w == [v EXCEPT !.dcash = cash, !.step = "select"]
  <2>1. w \in VetState
    BY DEF TypeOK, Steps
  <2>2. vet' = [vet EXCEPT ![p] = w] /\ v.step = "drawdown cash"
    BY <1>5 DEF ReadCashAgain, Then, At
  <2>3. Reading(w)
    BY <1>0, <2>2 DEF Reading, Complete, Fresh, Booked, TypeOK
  <2> QED BY <2>1, <2>2, <2>3
<1>6. ASSUME SelectPeak(p) PROVE Goal
  <2> PICK next \in Steps : next = (IF rebased THEN "raise" ELSE "rebase")
    BY DEF Steps
  <2> PICK x \in Money : x = peak
    BY DEF TypeOK, Money
  <2> PICK r \in BOOLEAN \cup {None} : r = rebased
    BY DEF TypeOK
  <2> DEFINE w == [v EXCEPT !.peak = x, !.rebased = r, !.step = next]
  <2>1. w \in VetState
    BY ZenonT(40)
  <2>2. vet' = [vet EXCEPT ![p] = w] /\ v.step = "select" /\ next \in {"raise", "rebase"}
    BY <1>6 DEF SelectPeak, Then, At
  <2>3. Reading(w)
    BY <1>0, <2>2 DEF Reading, Complete, Fresh, Booked, TypeOK
  <2> QED BY <2>1, <2>2, <2>3
<1>7. ASSUME Rebase(p) PROVE Goal
  <2> PICK x \in Money : x = (IF v.dcash = None THEN v.peak ELSE 0) /\ x \in Int
    BY <1>0, <1>7 DEF Rebase, At, Reading, Complete, TypeOK, Money
  <2> DEFINE w == [v EXCEPT !.peak = x, !.step = "raise"]
  <2>1. w \in VetState
    BY ZenonT(40) DEF Steps
  <2>2. vet' = [vet EXCEPT ![p] = w] /\ v.step = "rebase"
    BY <1>7 DEF Rebase, Then, At
  <2>3. Reading(w)
    BY <1>0, <2>2 DEF Reading, Complete, Fresh, Booked, TypeOK
  <2> QED BY <2>1, <2>2, <2>3
<1>8. ASSUME RaisePeak(p) PROVE Goal
  <2>1. v.step = "raise"
    BY <1>8 DEF RaisePeak, At
  <2>2. v.loaded /\ v.prices \in Prices /\ v.dheld \in Quantities /\ v.dcash \in Money /\ v.peak \in Int
    BY <1>0, <2>1 DEF Reading, Complete
  <2>3. PICK e \in Int : e = Value(v.dheld, v.dcash, v.prices)
    BY <2>2, ValueIsInt
  <2>4. PICK x \in Int : x = NewPeak(v.peak, e)
    BY <2>2, MaxOfTwo DEF NewPeak
  <2> DEFINE w == [v EXCEPT !.peak = x, !.step = "trades"]
  <2>5. w \in VetState
    BY ZenonT(40) DEF Steps, Money
  <2>6. vet' = [vet EXCEPT ![p] = w]
    BY <1>8, <2>3, <2>4 DEF RaisePeak, Then
  <2>7. Reading(w)
    BY <1>0, <2>1 DEF Reading, Complete, Fresh, Booked
  <2> QED BY <2>5, <2>6, <2>7
<1>9. ASSUME ReadTrades(p) PROVE Goal
  <2> DEFINE w == [v EXCEPT !.trades = today, !.step = "vetted"]
  <2>1. w \in VetState
    BY DEF TypeOK, Steps
  <2>2. vet' = [vet EXCEPT ![p] = w] /\ v.step = "trades"
    BY <1>9 DEF ReadTrades, Then, At
  <2>3. Reading(w)
    BY <1>0, <2>2 DEF Reading, Complete, Fresh, Booked, TypeOK
  <2> QED BY <2>1, <2>2, <2>3
<1>10. ASSUME Answer(p) PROVE Goal
  <2>1. Idle \in VetState
    BY DEF Idle, Steps, Money
  <2>2. vet' = [vet EXCEPT ![p] = Idle]
    BY <1>10 DEF Answer
  <2>3. Reading(Idle)
    BY DEF Reading, Complete, Fresh, Booked, Idle
  <2> QED BY <2>1, <2>2, <2>3
<1>11. Goal
  <2> HIDE DEF Goal
  <2> QED BY <1>1, <1>2, <1>3, <1>4, <1>5, <1>6, <1>7, <1>8, <1>9, <1>10
<1> QED BY <1>11

(* The price of an asset that is not held does not matter.                 *)
LEMMA ValueAgrees ==
  ASSUME NEW h \in Quantities, NEW c \in Money, NEW pr \in Prices, NEW now \in Prices,
         \A a \in Asset : h[a] > 0 => pr[a] = now[a]
  PROVE  Value(h, c, pr) = Value(h, c, now)
<1> PICK v : v = Worth(h, pr)
  OBVIOUS
<1> PICK w : w = Worth(h, now)
  OBVIOUS
<1>1. DOMAIN v = Asset /\ DOMAIN w = Asset
  BY DEF Worth
<1>2. \A a \in Asset : v[a] = w[a]
  <2> TAKE a \in Asset
  <2>1. h[a] \in Nat /\ h[a] >= 0
    BY DEF Quantities
  <2>2. CASE h[a] > 0
    BY <2>2 DEF Worth
  <2>3. CASE h[a] = 0
    <3>1. \A n \in Nat : 0 * n = 0
      OBVIOUS
    <3>2. (IF pr[a] # None THEN pr[a] ELSE Cost[a]) \in Nat /\ (IF now[a] # None THEN now[a] ELSE Cost[a]) \in Nat
      BY RiskAssumption DEF Prices
    <3> QED BY <2>3, <3>1, <3>2 DEF Worth
  <2> QED BY <2>1, <2>2, <2>3
<1>3. SumFunctionOnSet(v, Asset) = SumFunctionOnSet(w, Asset)
  BY <1>2, RiskAssumption, SumAgrees
<1> QED BY <1>1, <1>3 DEF Value, SumFunction

(* What a vet that nothing overtook computes is the equity.                *)
LEMMA FreshEquity ==
  ASSUME TypeOK, NEW v, Reading(v), v.loaded, v.clean, v.step \in CashReadAgain
  PROVE  Value(v.dheld, v.dcash, v.prices) = Equity
<1>1. v.step # "idle" /\ v.step \in LotsReadAgain
  BY DEF CashReadAgain, LotsReadAgain
<1>2. v.dheld = held /\ v.dcash = cash /\ v.prices \in Prices
      /\ \A a \in Asset : held[a] > 0 => v.prices[a] = price[a]
  BY <1>1 DEF Reading, Fresh, Complete
<1>3. held \in Quantities /\ cash \in Money /\ price \in Prices
  BY DEF TypeOK
<1>4. Value(held, cash, v.prices) = Value(held, cash, price)
  BY <1>2, <1>3, ValueAgrees
<1> QED BY <1>2, <1>4 DEF Equity

(* The invariant holds at first: a portfolio re-based before is not above  *)
(* its value.                                                              *)
LEMMA InitIsSound == Init => IInv
<1> SUFFICES ASSUME Init PROVE IInv
  OBVIOUS
<1>1. TypeOK
  BY InitHasType
<1>2. ReadInv
  BY DEF Init, Idle, ReadInv, Reading, Complete, Fresh, Booked, LotsRead, CashRead, LotsReadAgain, CashReadAgain, PeakRead
<1>3. PICK b \in FirstBooks : held = b.held /\ cash = b.cash /\ peak = b.peak /\ rebased = b.rebased
  BY DEF Init
<1>4. best = Value(held, cash, price) /\ price = [a \in Asset |-> None]
  BY DEF Init, Equity
<1>5. /\ cash \in Nat \cup {None}
      /\ rebased /\ cash # None => peak <= Value(held, cash, [a \in Asset |-> None])
  BY <1>3, RiskAssumption
<1>6. /\ SumFunction(Worth(held, price)) \in Nat /\ Value(held, cash, price) \in Int
      /\ Value(held, cash, price) = SumFunction(Worth(held, price)) + IF cash = None THEN 0 ELSE cash
  BY <1>1, ValueIsInt DEF TypeOK
<1>7. 0 <= Value(held, cash, price)
  <2> PICK m : m = SumFunction(Worth(held, price))
    OBVIOUS
  <2>1. (IF cash = None THEN 0 ELSE cash) \in Nat
    BY <1>5
  <2> QED BY <1>6, <2>1
<1>8. PeakInv
  <2> PICK x \in Int : x = Value(held, cash, price)
    BY <1>6
  <2> QED BY <1>4, <1>5, <1>7 DEF PeakInv, Equity
<1> QED BY <1>1, <1>2, <1>8 DEF IInv

(* A step of one vet moves no other.                                       *)
LEMMA OthersRead ==
  ASSUME TypeOK, ReadInv, NEW p \in Vet, NEW w \in VetState, Reading(w),
         vet' = [vet EXCEPT ![p] = w], UNCHANGED <<held, cash, price, today>>
  PROVE  vet' \in [Vet -> VetState] /\ ReadInv'
<1>1. vet' \in [Vet -> VetState]
  BY DEF TypeOK, VetState
<1>2. \A q \in Vet : Reading(vet'[q])
  BY DEF TypeOK, ReadInv
<1>3. \A q \in Vet : Reading(vet[q])'
  BY <1>2 DEF Reading
<1> QED BY <1>1, <1>3 DEF ReadInv

(* What a fill or a price overtakes is no longer fresh; it stays complete. *)
LEMMA Overtaken ==
  ASSUME TypeOK, ReadInv, Overtake, cash' = None <=> cash = None
  PROVE  vet' \in [Vet -> VetState] /\ ReadInv'
<1>1. ASSUME NEW p \in Vet PROVE vet'[p] \in VetState /\ Reading(vet[p])'
  <2> PICK v \in VetState : v = vet[p]
    BY DEF TypeOK, VetState
  <2>1. Complete(v) /\ Booked(v, cash)
    BY DEF ReadInv, Reading
  <2>2. CASE v.step = "idle"
    <3>1. vet'[p] = v
      BY <2>2 DEF Overtake, At
    <3>2. Fresh(v, held', cash', price', today')
      BY <2>2 DEF Fresh
    <3>3. Booked(v, cash')
      BY <2>2 DEF Booked, CashReadAgain
    <3> QED BY <2>1, <3>1, <3>2, <3>3 DEF Reading
  <2>3. CASE v.step # "idle"
    <3> DEFINE w == [v EXCEPT !.clean = FALSE]
    <3>1. vet'[p] = w
      BY <2>3 DEF Overtake, At
    <3>2. w \in VetState
      BY DEF VetState
    <3>3. Complete(w)
      BY <2>1 DEF Complete, VetState
    <3>4. Fresh(w, held', cash', price', today')
      BY DEF Fresh, VetState
    <3>5. Booked(w, cash')
      BY <2>1 DEF Booked, VetState
    <3> HIDE DEF w
    <3> QED BY <3>1, <3>2, <3>3, <3>4, <3>5 DEF Reading
  <2> QED BY <2>2, <2>3
<1>2. vet' \in [Vet -> VetState]
  BY <1>1 DEF Overtake
<1> QED BY <1>1, <1>2 DEF ReadInv

(* Steps that touch neither the portfolio nor the peak.                    *)
LEMMA PeakStays ==
  ASSUME PeakInv, UNCHANGED <<held, cash, price, peak, rebased, best, blurred>> PROVE PeakInv'
BY DEF PeakInv, Equity

(* The reads of a vet keep the invariant.                                  *)
LEMMA ReadsKeepIt ==
  ASSUME IInv, NEW p \in Vet,
         \/ \E loaded \in BOOLEAN : Begin(p, loaded)
         \/ ReadLots(p) \/ ReadCash(p) \/ ReadLotsAgain(p) \/ ReadCashAgain(p)
         \/ SelectPeak(p) \/ ReadTrades(p) \/ Answer(p)
  PROVE  IInv'
<1>1. PICK w \in VetState : vet' = [vet EXCEPT ![p] = w] /\ Reading(w)
  BY VetMoves DEF IInv, ReadInv
<1>2. UNCHANGED <<held, cash, price, today, fills, quotes, peak, rebased, best, blurred>>
  BY DEF Begin, ReadLots, ReadCash, ReadLotsAgain, ReadCashAgain, SelectPeak, ReadTrades, Answer, world
<1>3. vet' \in [Vet -> VetState] /\ ReadInv'
  BY <1>1, <1>2, OthersRead DEF IInv
<1>4. PeakInv'
  BY <1>2, PeakStays DEF IInv
<1>5. TypeOK'
  BY <1>2, <1>3 DEF IInv, TypeOK, VetState
<1> QED BY <1>3, <1>4, <1>5 DEF IInv

(* The re-baseline drops the peak of a portfolio with a cash row.          *)
LEMMA RebaseKeepsIt == ASSUME IInv, NEW p \in Vet, Rebase(p) PROVE IInv'
<1>1. PICK w \in VetState : vet' = [vet EXCEPT ![p] = w] /\ Reading(w)
  BY VetMoves DEF IInv, ReadInv
<1>2. UNCHANGED <<held, cash, price, today, fills, quotes, best, blurred>>
  BY DEF Rebase, world
<1>3. vet' \in [Vet -> VetState] /\ ReadInv'
  BY <1>1, <1>2, OthersRead DEF IInv
<1>4. /\ vet[p].loaded /\ vet[p].step \in CashReadAgain
      /\ rebased' = TRUE
      /\ vet[p].dcash # None => peak' = 0
      /\ vet[p].dcash = None => peak' = peak
  BY DEF Rebase, At, IInv, ReadInv, Reading, Complete, CashReadAgain
<1>5. vet[p].dcash = None <=> cash = None
  BY <1>4 DEF IInv, ReadInv, Reading, Booked
<1>6. PeakInv'
  BY <1>2, <1>4, <1>5 DEF IInv, PeakInv, Equity
<1>7. TypeOK'
  BY <1>2, <1>3, <1>4 DEF IInv, TypeOK, VetState
<1> QED BY <1>3, <1>6, <1>7 DEF IInv

(* A vet raises the peak to the equity it computed: the present one if it  *)
(* is clean, else it blurs the peak.                                       *)
LEMMA RaiseKeepsIt == ASSUME IInv, NEW p \in Vet, RaisePeak(p) PROVE IInv'
<1>1. PICK w \in VetState : vet' = [vet EXCEPT ![p] = w] /\ Reading(w)
  BY VetMoves DEF IInv, ReadInv
<1>2. UNCHANGED <<held, cash, price, today, fills, quotes, best, rebased>>
  BY DEF RaisePeak, world
<1>3. vet' \in [Vet -> VetState] /\ ReadInv'
  BY <1>1, <1>2, OthersRead DEF IInv
<1>4. PICK v \in VetState : v = vet[p]
  BY DEF IInv, TypeOK, VetState
<1>5. Reading(v) /\ v.step = "raise"
  BY <1>4 DEF IInv, ReadInv, RaisePeak, At
<1>6. v.loaded /\ v.prices \in Prices /\ v.dheld \in Quantities /\ v.dcash \in Money /\ v.peak \in Int
      /\ v.step \in CashReadAgain /\ v.clean \in BOOLEAN
  BY <1>5 DEF Reading, Complete, LotsReadAgain, CashReadAgain, PeakRead, VetState
<1>7. PICK e \in Int : e = Value(v.dheld, v.dcash, v.prices)
  BY <1>6, ValueIsInt
<1>8. PICK x \in Int : x = (IF v.peak >= e THEN v.peak ELSE e) /\ x = NewPeak(v.peak, e)
  BY <1>6, MaxOfTwo DEF NewPeak
<1>9. \/ x = v.peak /\ peak' = peak /\ blurred' = blurred
      \/ x # v.peak /\ peak' = x /\ blurred' = (blurred \/ ~v.clean)
  BY <1>4, <1>7, <1>8 DEF RaisePeak
<1>10. x # v.peak => x = e
  BY <1>8
<1>11. v.clean => e = Equity
  BY <1>5, <1>6, <1>7, FreshEquity DEF IInv
<1>12. Equity' = Equity
  BY <1>2 DEF Equity
<1>13. PeakInv'
  <2>1. CASE x = v.peak
    BY <2>1, <1>2, <1>9, <1>12 DEF IInv, PeakInv
  <2>2. CASE x # v.peak /\ v.clean
    BY <2>2, <1>2, <1>9, <1>10, <1>11, <1>12 DEF IInv, PeakInv
  <2>3. CASE x # v.peak /\ ~v.clean
    BY <2>3, <1>2, <1>9, <1>12 DEF IInv, PeakInv
  <2> QED BY <2>1, <2>2, <2>3
<1>14. peak' \in Int /\ blurred' \in BOOLEAN
  BY <1>6, <1>9 DEF IInv, TypeOK
<1>15. TypeOK'
  BY <1>2, <1>3, <1>14 DEF IInv, TypeOK, VetState
<1> QED BY <1>3, <1>13, <1>15 DEF IInv

(* The best stays the best when the portfolio or a price moves.            *)
LEMMA BestIsRaised ==
  ASSUME IInv, held' \in Quantities, cash' \in Money, price' \in Prices,
         best' = Max({best, Value(held', cash', price')}),
         cash' = None <=> cash = None, UNCHANGED <<peak, rebased, blurred>>
  PROVE  PeakInv' /\ best' \in Int
<1>1. PICK e \in Int : e = Value(held', cash', price')
  BY ValueIsInt
<1>2. best \in Int /\ peak \in Int
  BY DEF IInv, TypeOK
<1>3. best' = IF best >= e THEN best ELSE e
  BY <1>1, <1>2, MaxOfTwo
<1>4. Equity' = e
  BY <1>1 DEF Equity
<1> QED BY <1>2, <1>3, <1>4 DEF IInv, PeakInv

(* A fill keeps the invariant,                                             *)
LEMMA FillKeepsIt ==
  ASSUME IInv, NEW a \in Asset, NEW side \in {"buy", "sell"}, Fill(a, side) PROVE IInv'
<1>1. held' \in Quantities
  <2>1. held \in Quantities /\ held[a] \in Nat /\ (side = "sell" => held[a] > 0)
        /\ held' = [held EXCEPT ![a] = @ + IF side = "buy" THEN 1 ELSE -1]
    BY DEF Fill, IInv, TypeOK, Quantities
  <2>2. held[a] + (IF side = "buy" THEN 1 ELSE -1) \in Nat
    BY <2>1
  <2> QED BY <2>1, <2>2 DEF Quantities
<1>2. cash' \in Money /\ (cash' = None <=> cash = None)
  <2>1. cash \in Money /\ Cost[a] \in Nat
    BY RiskAssumption DEF IInv, TypeOK
  <2>2. cash' = IF cash = None THEN None ELSE cash - IF side = "buy" THEN Cost[a] ELSE -Cost[a]
    BY DEF Fill
  <2> QED BY <2>1, <2>2, RiskAssumption DEF Money
<1>3. price' = price /\ best' = Max({best, Value(held', cash', price)}) /\ Overtake
      /\ UNCHANGED <<price, quotes, peak, rebased, blurred>>
  BY DEF Fill
<1>4. price' \in Prices
  BY <1>3 DEF IInv, TypeOK
<1>5. PeakInv' /\ best' \in Int
  BY <1>1, <1>2, <1>3, <1>4, BestIsRaised
<1>6. vet' \in [Vet -> VetState] /\ ReadInv'
  BY <1>2, <1>3, Overtaken DEF IInv
<1>7. fills' \in 0..MaxFills /\ fills' \in 1..MaxFills
  BY RiskAssumption DEF Fill, IInv, TypeOK
<1>8. today' \subseteq Trades
  BY <1>7 DEF Fill, IInv, TypeOK, Trades
<1>9. TypeOK'
  BY <1>1, <1>2, <1>3, <1>4, <1>5, <1>6, <1>7, <1>8 DEF IInv, TypeOK, VetState
<1> QED BY <1>5, <1>6, <1>9 DEF IInv

(* a price,                                                                *)
LEMMA QuoteKeepsIt == ASSUME IInv, NEW a \in Asset, NEW x \in Quotes, Quote(a, x) PROVE IInv'
<1>1. price' \in Prices
  BY DEF Quote, IInv, TypeOK, Prices
<1>2. best' = Max({best, Value(held, cash, price')}) /\ Overtake
      /\ UNCHANGED <<held, cash, today, fills, peak, rebased, blurred>>
  BY DEF Quote
<1>3. held' \in Quantities /\ cash' \in Money
  BY <1>2 DEF IInv, TypeOK
<1>4. PeakInv' /\ best' \in Int
  BY <1>1, <1>2, <1>3, BestIsRaised
<1>5. vet' \in [Vet -> VetState] /\ ReadInv'
  BY <1>2, Overtaken DEF IInv
<1>6. quotes' \in 0..MaxQuotes
  BY RiskAssumption DEF Quote, IInv, TypeOK
<1>7. TypeOK'
  BY <1>1, <1>2, <1>4, <1>5, <1>6 DEF IInv, TypeOK, VetState
<1> QED BY <1>4, <1>5, <1>7 DEF IInv

(* and the end of the day.                                                 *)
LEMMA MidnightKeepsIt == ASSUME IInv, Midnight PROVE IInv'
<1>1. UNCHANGED <<held, cash, price, fills, quotes, peak, rebased, best, blurred>> /\ today' = {} /\ Overtake
  BY DEF Midnight
<1>2. vet' \in [Vet -> VetState] /\ ReadInv'
  BY <1>1, Overtaken DEF IInv
<1>3. PeakInv'
  BY <1>1, PeakStays DEF IInv
<1>4. TypeOK'
  BY <1>1, <1>2 DEF IInv, TypeOK, VetState
<1> QED BY <1>2, <1>3, <1>4 DEF IInv

(* Every step keeps it.                                                    *)
LEMMA StepIsSound == ASSUME IInv, [Next]_vars PROVE IInv'
<1>1. CASE UNCHANGED vars
  <2>1. TypeOK'
    BY <1>1 DEF vars, IInv, TypeOK
  <2>2. ReadInv'
    BY <1>1 DEF vars, IInv, ReadInv, Reading
  <2>3. PeakInv'
    BY <1>1, PeakStays DEF vars, IInv
  <2> QED BY <2>1, <2>2, <2>3 DEF IInv
<1>2. CASE Next
  <2>1. ASSUME NEW p \in Vet,
               \/ \E loaded \in BOOLEAN : Begin(p, loaded)
               \/ ReadLots(p) \/ ReadCash(p) \/ ReadLotsAgain(p) \/ ReadCashAgain(p)
               \/ SelectPeak(p) \/ ReadTrades(p) \/ Answer(p)
        PROVE  IInv'
    BY <2>1, ReadsKeepIt
  <2>2. ASSUME NEW p \in Vet, Rebase(p) \/ RaisePeak(p) PROVE IInv'
    BY <2>2, RebaseKeepsIt, RaiseKeepsIt
  <2>3. ASSUME NEW a \in Asset, NEW side \in {"buy", "sell"}, Fill(a, side) PROVE IInv'
    BY <2>3, FillKeepsIt
  <2>4. ASSUME NEW a \in Asset, NEW x \in Quotes, Quote(a, x) PROVE IInv'
    BY <2>4, QuoteKeepsIt
  <2>5. CASE Midnight
    BY <2>5, MidnightKeepsIt
  <2> QED BY <1>2, <2>1, <2>2, <2>3, <2>4, <2>5 DEF Next
<1> QED BY <1>1, <1>2

(* The invariant holds in every reachable state.                           *)
LEMMA Soundness == Spec => []IInv
<1>1. IInv /\ [Next]_vars => IInv'
  BY StepIsSound
<1> QED BY <1>1, InitIsSound, PTL DEF Spec

-----------------------------------------------------------------------------

(* Type correctness of the risk engine.                                    *)
THEOREM TypeCorrect == Spec => []TypeOK
<1>1. IInv => TypeOK
  BY DEF IInv
<1> QED BY <1>1, Soundness, PTL

(* The high-water mark of a re-based portfolio with a cash row is at most  *)
(* an equity it really had, unless a vet wrote one computed from reads that*)
(* were overtaken (compute_portfolio_drawdown).                            *)
THEOREM ThePeakIsHonest == Spec => []PeakIsHonest
<1>1. IInv => PeakIsHonest
  BY DEF IInv, PeakInv, PeakIsHonest
<1> QED BY <1>1, Soundness, PTL

(* The context of a vet that nothing overtook is one picture: total, cash, *)
(* exposure by tier, drawdown, positions and trades agree (build_context). *)
THEOREM AnUndisturbedVetIsExact == Spec => []UndisturbedVetIsExact
<1>1. IInv => UndisturbedVetIsExact
  <2> SUFFICES ASSUME IInv, NEW p \in Vet, At(p, "vetted"), vet[p].clean, vet[p].loaded,
                      NEW o \in Outside,
                      NEW c, c = [Context(vet[p], o) EXCEPT !.metadata = NoTier]
               PROVE  /\ c.total = c.cash + SumFunction(c.exposure) + Untiered(c, vet[p].prices)
                      /\ c.lost = IF c.total >= c.mark THEN 0 ELSE c.mark - c.total
                      /\ c.held = held /\ c.trades = today
    BY DEF UndisturbedVetIsExact, Contexts
  <2>1. PICK v \in VetState : v = vet[p]
    BY DEF IInv, TypeOK, VetState
  <2>2. Reading(v) /\ v.step = "vetted" /\ v.clean /\ v.loaded
    BY <2>1 DEF IInv, ReadInv, At
  <2>3. v.held = held /\ v.cash = cash /\ v.trades = today /\ v.prices \in Prices
        /\ v.dheld = held /\ v.dcash = cash
    BY <2>2 DEF Reading, Fresh, Complete, LotsRead, CashRead, LotsReadAgain, CashReadAgain
  <2>4. held \in Quantities /\ cash \in Money
    BY DEF IInv, TypeOK
  <2> PICK total : total = Value(held, cash, v.prices)
    OBVIOUS
  <2> PICK worth : worth = Worth(held, v.prices)
    OBVIOUS
  <2> PICK mark : mark = Max({v.peak, total})
    OBVIOUS
  <2> PICK tiers : tiers = Range(Tier) \ {None}
    OBVIOUS
  <2> PICK exposure : exposure = [t \in tiers |-> SumFunctionOnSet(worth, {a \in Asset : Tier[a] = t})]
    OBVIOUS
  <2> PICK rest : rest = SumFunctionOnSet(worth, {a \in Asset : Tier[a] = None})
    OBVIOUS
  <2>5. /\ c.total = total
        /\ c.cash = IF cash = None THEN 0 ELSE cash
        /\ c.lost = IF total >= mark THEN 0 ELSE mark - total
        /\ c.mark = mark
        /\ c.exposure = exposure
        /\ c.held = held /\ c.trades = today
        /\ Untiered(c, v.prices) = rest
    BY <2>1, <2>2, <2>3 DEF Context, Untiered
  <2>6. SumFunction(worth) = SumFunction(exposure) + rest /\ SumFunction(exposure) \in Int /\ rest \in Int
    <3> PICK A, B : A = {a \in Asset : Tier[a] # None} /\ B = {a \in Asset : Tier[a] = None}
      OBVIOUS
    <3>1. DOMAIN exposure = tiers /\ DOMAIN worth = Asset
      BY DEF Worth
    <3>2. \A a \in Asset : worth[a] \in Int
      BY <2>3, <2>4, WorthIsNat
    <3>3. \A a \in A : Tier[a] \in tiers
      BY RiskAssumption DEF Range
    <3>4. IsFiniteSet(tiers)
      <4>1. PICK f : f = [a \in Asset |-> Tier[a]]
        OBVIOUS
      <4>2. f \in Surjection(Asset, Range(Tier))
        BY <4>1, RiskAssumption DEF Surjection, Range
      <4>3. IsFiniteSet(Range(Tier))
        BY <4>2, RiskAssumption, FS_Surjection
      <4> QED BY <4>3, FS_Subset
    <3>5. \A t \in tiers : exposure[t] = SumFunctionOnSet(worth, {a \in A : Tier[a] = t})
      <4> SUFFICES ASSUME NEW t \in tiers PROVE {a \in Asset : Tier[a] = t} = {a \in A : Tier[a] = t}
        OBVIOUS
      <4> QED OBVIOUS
    <3>6. IsFiniteSet(A) /\ IsFiniteSet(B)
      BY RiskAssumption, FS_Subset
    <3>7. SumFunctionOnSet(exposure, tiers) = SumFunctionOnSet(worth, A)
      <4>1. Grouped(exposure, worth, A, Tier, tiers)
        BY ONLY <3>5 DEF Grouped
      <4>2. \A a \in A : worth[a] \in Int
        BY <3>2
      <4> QED BY ONLY <3>3, <3>4, <3>6, <4>1, <4>2, SumGroups
    <3>8. SumFunctionOnSet(worth, A \cup B) = SumFunctionOnSet(worth, A) + SumFunctionOnSet(worth, B)
      BY <3>2, <3>6, SumJoins
    <3>9. A \cup B = Asset
      OBVIOUS
    <3>10. SumFunctionOnSet(worth, A) \in Int /\ SumFunctionOnSet(worth, B) \in Int
      BY <3>2, <3>6, SumIsInt
    <3> QED BY <3>1, <3>7, <3>8, <3>9, <3>10 DEF SumFunction
  <2>7. total = SumFunction(worth) + (IF cash = None THEN 0 ELSE cash) /\ SumFunction(worth) \in Int
    BY <2>3, <2>4, ValueIsInt
  <2>8. (IF cash = None THEN 0 ELSE cash) \in Int
    BY <2>4 DEF Money
  <2>9. c.total = c.cash + SumFunction(c.exposure) + Untiered(c, v.prices)
    <3> PICK sum \in Int, money \in Int :
          sum = SumFunction(exposure) /\ money = (IF cash = None THEN 0 ELSE cash)
      BY <2>6, <2>8
    <3>1. total = (sum + rest) + money
      BY <2>6, <2>7
    <3>2. c.total = total /\ c.cash = money /\ c.exposure = exposure /\ Untiered(c, v.prices) = rest
      BY <2>5
    <3> QED BY <2>6, <3>1, <3>2
  <2> QED BY <2>1, <2>5, <2>9
<1> QED BY <1>1, Soundness, PTL

-----------------------------------------------------------------------------
(* The policies *)

(* What a policy may say.                                                  *)
Statuses == {"APPROVED", "CONCERN", "SCALE", "REJECT"}
(* A fragment that lets the order pass.                                    *)
Mild(f) == f.status \in {"APPROVED", "CONCERN"}

(* The policies that do not look at the volume.                            *)
Plain(i, c, lim) ==
  {PortfolioDrawdown(i, c, lim), DailyBudget(i, c, lim), PerPairCooldown(i, c, lim),
   RegimeConsistency(i, c, lim)}
  \cup IF i.venue # "perps" THEN {}
       ELSE {LeverageCap(i, c, lim), LiquidationDistance(i, c, lim), StopDistance(i, c, lim),
             FundingDrag(i, c, lim), DuplicatePerpsPosition(i, c, lim)}

(* What the policies need of a context.                                    *)
Sound(c) ==
  /\ c.total \in Int /\ c.cash \in Int
  /\ c.held \in Quantities /\ c.quote \in Prices /\ c.reference \in Prices
  /\ \A a \in Asset : c.metadata[a] # None => c.exposure[c.metadata[a]] \in Int

(* The limits every portfolio is judged by.                                *)
LimitFields == {"positionPct", "drawdownPct", "budget", "tierPct"}

(* The same order with another volume.                                     *)
Resized(i, s) == [i EXCEPT !.vol = s]

(* A greater volume costs no less.                                         *)
LEMMA MoreCostsMore ==
  ASSUME NEW m \in Nat, NEW n \in Nat, NEW u \in Nat, m <= n PROVE m * u <= n * u /\ m * u \in Nat
OBVIOUS

(* What a cap is divided into fits.                                        *)
LEMMA WhatFits ==
  ASSUME NEW cap \in Nat, NEW u \in Nat \ {0} PROVE cap \div u \in Nat /\ (cap \div u) * u <= cap
OBVIOUS

(* A volume beyond a cap is scaled to a smaller one. *)
LEMMA ScaledIsSmaller ==
  ASSUME NEW cap \in Nat, NEW u \in Nat, NEW vol \in Nat, vol * u > cap
  PROVE  u # 0 /\ cap \div u \in Nat /\ cap \div u <= vol /\ (cap \div u) * u <= cap
<1>1. u # 0
  BY \A n \in Nat : n * 0 = 0
<1> PICK q : q = cap \div u
  OBVIOUS
<1>2. q \in Nat /\ q * u <= cap
  BY <1>1, WhatFits
<1>3. q <= vol
  <2> SUFFICES ASSUME vol <= q PROVE q <= vol
    BY <1>2
  <2>1. vol * u <= q * u
    BY <1>2, MoreCostsMore
  <2>2. vol * u \in Nat /\ q * u \in Nat
    BY <1>2
  <2> QED BY <1>2, <2>1, <2>2
<1> QED BY <1>1, <1>2, <1>3

(* The worst of some ranks is one of them.                                 *)
LEMMA MaxOfRanks ==
  ASSUME NEW T \in SUBSET (0..3), T # {}
  PROVE  Max(T) \in T /\ \A n \in T : Max(T) >= n
<1>1. \E m \in T : \A n \in T : m >= n
  <2>1. CASE 3 \in T
    BY <2>1
  <2>2. CASE 3 \notin T /\ 2 \in T
    BY <2>2
  <2>3. CASE 3 \notin T /\ 2 \notin T /\ 1 \in T
    BY <2>3
  <2>4. CASE 3 \notin T /\ 2 \notin T /\ 1 \notin T
    <3>1. PICK m : m \in T
      OBVIOUS
    <3>2. \A n \in T : n = 0
      <4> TAKE n \in T
      <4>1. n \in 0..3 /\ n # 1 /\ n # 2 /\ n # 3
        BY <2>4
      <4> QED BY <4>1
    <3> QED BY <3>1, <3>2
  <2> QED BY <2>1, <2>2, <2>3, <2>4
<1> QED BY <1>1 DEF Max

(* The smallest of some volumes is one of them.                            *)
LEMMA MinOfNats ==
  ASSUME NEW T \in SUBSET Nat, T # {} PROVE Min(T) \in T /\ \A n \in T : Min(T) <= n
<1>1. \E m \in T : \A n \in T : m <= n
  BY Least
<1> QED BY <1>1 DEF Min

(* A block applied to sound limits gives sound limits.                     *)
LEMMA AppliedIsLimits ==
  ASSUME NEW lim, NEW block, AreLimits(lim), AreLimits(block), LimitFields \subseteq DOMAIN lim
  PROVE  AreLimits(Applied(lim, block)) /\ LimitFields \subseteq DOMAIN Applied(lim, block)
<1> PICK r : r = Applied(lim, block)
  OBVIOUS
<1>1. DOMAIN r = DOMAIN lim
  BY DEF Applied
<1>2. r.positionPct \in Nat
  BY DEF Applied, AreLimits, LimitFields
<1>3. r.drawdownPct \in Nat \ {0}
  BY DEF Applied, AreLimits, LimitFields
<1>4. r.budget \in Nat \ {0}
  BY DEF Applied, AreLimits, LimitFields
<1>5. \A t \in DOMAIN r.tierPct : r.tierPct[t] \in Nat
  <2>1. CASE "tierPct" \notin DOMAIN block
    BY <2>1 DEF Applied, AreLimits, LimitFields
  <2>2. CASE "tierPct" \in DOMAIN block
    <3>1. r.tierPct = Overlay(block.tierPct, lim.tierPct)
      BY <2>2 DEF Applied, LimitFields
    <3> QED BY <3>1, <2>2 DEF Overlay, AreLimits, LimitFields
  <2> QED BY <2>1, <2>2
<1> QED BY <1>1, <1>2, <1>3, <1>4, <1>5 DEF AreLimits

(* So every order is judged by sound limits.                               *)
LEMMA LimitsAreSound ==
  ASSUME NEW i \in Intents, NEW c
  PROVE  AreLimits(Limits(i, c)) /\ LimitFields \subseteq DOMAIN Limits(i, c)
<1>1. i.asset \in Asset
  BY PolicyAssumption DEF IsIntent
<1> PICK general : general = Applied(Defaults, Overrides.global)
  OBVIOUS
<1>2. AreLimits(general) /\ LimitFields \subseteq DOMAIN general
  BY PolicyAssumption, AppliedIsLimits DEF LimitFields
<1> PICK mine : mine = IF c.named THEN Applied(general, Overrides.portfolio) ELSE general
  OBVIOUS
<1>3. AreLimits(mine) /\ LimitFields \subseteq DOMAIN mine
  BY <1>2, PolicyAssumption, AppliedIsLimits
<1>4. Limits(i, c) = Applied(mine, Overrides.pair[i.asset])
  BY DEF Limits
<1>5. AreLimits(Overrides.pair[i.asset])
  BY <1>1, PolicyAssumption
<1> QED BY <1>3, <1>4, <1>5, AppliedIsLimits

(* What the verdicts say.                                                  *)
LEMMA Statements ==
  /\ Approved.status = "APPROVED" /\ Concern.status = "CONCERN" /\ Reject.status = "REJECT"
  /\ \A cost, unit : Scale(cost, unit).status = "SCALE" /\ Scale(cost, unit).vol = cost \div unit
BY DEF Approved, Concern, Reject, Verdict, Scale

(* The worst status is the status of a fragment, and none is worse.        *)
LEMMA WorstIsWorst ==
  ASSUME NEW F, F # {}, \A f \in F : f.status \in Statuses
  PROVE  /\ Worst(F) \in 0..3
         /\ \A f \in F : Worst(F) >= Rank[f.status]
         /\ \E f \in F : Worst(F) = Rank[f.status]
<1> PICK T : T = {Rank[f.status] : f \in F}
  OBVIOUS
<1>1. T \in SUBSET (0..3) /\ T # {}
  BY DEF Rank, Statuses
<1>2. Max(T) \in T /\ \A n \in T : Max(T) >= n
  BY <1>1, MaxOfRanks
<1>3. Worst(F) = Max(T)
  BY DEF Worst
<1> QED BY <1>1, <1>2, <1>3

(* When every fragment is mild the order passes.                           *)
LEMMA MildMeansAccepted ==
  ASSUME NEW F, F # {}, \A f \in F : Mild(f) PROVE Worst(F) <= Rank.CONCERN
<1>1. \A f \in F : f.status \in Statuses /\ Rank[f.status] <= 1
  BY DEF Mild, Statuses, Rank
<1>2. PICK f \in F : Worst(F) = Rank[f.status]
  BY <1>1, WorstIsWorst
<1> QED BY <1>1, <1>2 DEF Rank

(* A policy that does not look at the volume does not scale it.            *)
LEMMA PlainNeverScales ==
  ASSUME NEW i, NEW c, NEW lim PROVE \A f \in Plain(i, c, lim) : f.status \in Statuses \ {"SCALE"}
<1>1. PortfolioDrawdown(i, c, lim) \in {Approved, Concern, Reject}
  BY DEF PortfolioDrawdown
<1>2. DailyBudget(i, c, lim) \in {Approved, Concern, Reject}
  BY DEF DailyBudget
<1>3. PerPairCooldown(i, c, lim) \in {Approved, Concern, Reject}
  BY DEF PerPairCooldown
<1>4. RegimeConsistency(i, c, lim) \in {Approved, Concern, Reject}
  BY DEF RegimeConsistency
<1>5. LeverageCap(i, c, lim) \in {Approved, Concern, Reject}
  BY DEF LeverageCap
<1>6. LiquidationDistance(i, c, lim) \in {Approved, Concern, Reject}
  BY DEF LiquidationDistance
<1>7. StopDistance(i, c, lim) \in {Approved, Concern, Reject}
  BY DEF StopDistance
<1>8. FundingDrag(i, c, lim) \in {Approved, Concern, Reject}
  BY DEF FundingDrag
<1>9. DuplicatePerpsPosition(i, c, lim) \in {Approved, Concern, Reject}
  BY DEF DuplicatePerpsPosition
<1>10. \A f \in {Approved, Concern, Reject} : f.status \in Statuses \ {"SCALE"}
  BY Statements DEF Statuses
<1>11. \A f \in Plain(i, c, lim) : f \in {Approved, Concern, Reject}
  <2> PICK V : V = {Approved, Concern, Reject}
    OBVIOUS
  <2>1. CASE i.venue = "perps"
    BY <2>1, <1>1, <1>2, <1>3, <1>4, <1>5, <1>6, <1>7, <1>8, <1>9 DEF Plain
  <2>2. CASE i.venue # "perps"
    BY <2>2, <1>1, <1>2, <1>3, <1>4 DEF Plain
  <2> QED BY <2>1, <2>2
<1> QED BY <1>10, <1>11

(* The other policies are these three.                                     *)
LEMMA FragmentsSplit ==
  ASSUME NEW i, NEW c, NEW lim
  PROVE  Fragments(i, c, lim) =
           Plain(i, c, lim) \cup {PositionSize(i, c, lim), PerTierExposure(i, c, lim), InsufficientFunds(i, c, lim)}
BY Zenon DEF Fragments, Plain

(* Every fragment has a status.                                            *)
LEMMA FragmentsHaveStatus ==
  ASSUME NEW i, NEW c, NEW lim
  PROVE  \A f \in Fragments(i, c, lim) : f.status \in Statuses
<1>1. PositionSize(i, c, lim).status \in Statuses
  BY Statements DEF PositionSize, Oversized, Statuses
<1>2. PerTierExposure(i, c, lim).status \in Statuses
  BY Statements DEF PerTierExposure, Statuses
<1>3. InsufficientFunds(i, c, lim) \in {Approved, Concern, Reject}
  BY DEF InsufficientFunds
<1>4. InsufficientFunds(i, c, lim).status \in Statuses
  BY <1>3, Statements DEF Statuses
<1> QED BY <1>1, <1>2, <1>4, FragmentsSplit, PlainNeverScales

(* The context of a vet that is done reading serves the policies.          *)
LEMMA ContextIsSound ==
  ASSUME IInv, NEW p \in Vet, At(p, "vetted"), NEW o, NEW metadata \in {NoTier, Tier},
         NEW c, c = [Context(vet[p], o) EXCEPT !.metadata = metadata]
  PROVE  Sound(c)
<1> PICK v \in VetState : v = vet[p]
  BY DEF IInv, TypeOK, VetState
<1>1. v.prices \in Prices /\ v.reference \in Prices /\ v.loaded \in BOOLEAN /\ v.cash \in Money
  BY DEF IInv, ReadInv, Reading, Complete, At, VetState
<1>2. v.loaded => v.held \in Quantities
  BY DEF IInv, ReadInv, Reading, Complete, At, LotsRead
<1> PICK h \in Quantities : h = IF ~v.loaded THEN NoQuantity ELSE v.held
  BY <1>1, <1>2 DEF NoQuantity, Quantities
<1>3. /\ c.held = h
      /\ c.quote = [a \in Asset |-> IF h[a] > 0 THEN v.prices[a] ELSE None]
      /\ c.reference = v.reference
      /\ c.cash = IF ~v.loaded \/ v.cash = None THEN 0 ELSE v.cash
      /\ c.total = IF ~v.loaded THEN 0 ELSE Value(v.held, v.cash, v.prices)
      /\ c.exposure = [t \in Range(Tier) \ {None} |-> SumFunctionOnSet(Worth(h, v.prices), {a \in Asset : Tier[a] = t})]
      /\ c.metadata = metadata
  BY DEF Context
<1>4. c.total \in Int
  BY <1>1, <1>2, <1>3, ValueIsInt
<1>5. c.cash \in Int
  BY <1>1, <1>3 DEF Money
<1>6. c.quote \in Prices
  BY <1>1, <1>3 DEF Prices
<1>7. ASSUME NEW a \in Asset, metadata[a] # None PROVE c.exposure[metadata[a]] \in Int
  <2>1. metadata = Tier
    BY <1>7 DEF NoTier
  <2> PICK t : t = Tier[a]
    OBVIOUS
  <2>2. t \in Range(Tier) \ {None}
    BY <1>7, <2>1, RiskAssumption DEF Range
  <2> PICK w : w = Worth(h, v.prices)
    OBVIOUS
  <2> PICK A : A = {x \in Asset : Tier[x] = t}
    OBVIOUS
  <2>3. \A x \in A : w[x] \in Int
    BY <1>1, WorthIsNat
  <2>4. IsFiniteSet(A)
    BY RiskAssumption, FS_Subset
  <2>5. SumFunctionOnSet(w, A) \in Int
    BY <2>3, <2>4, SumIsInt
  <2>6. c.exposure[t] = SumFunctionOnSet(w, A)
    BY <1>3, <2>2
  <2> QED BY <2>1, <2>5, <2>6
<1> QED BY <1>1, <1>3, <1>4, <1>5, <1>6, <1>7 DEF Sound

(* An order is costed at a price, or at none.                              *)
LEMMA UnitIsPrice ==
  ASSUME NEW i, IsIntent(i), NEW c, Sound(c) PROVE UnitPrice(i, c) \in Nat \cup {None}
<1>1. \A x \in Quotes \cup {None} : x \in Nat \cup {None}
  BY RiskAssumption
<1>2. c.quote[i.asset] \in Nat \cup {None} /\ c.reference[i.asset] \in Nat \cup {None}
  BY <1>1 DEF IsIntent, Sound, Prices
<1> QED BY <1>2 DEF UnitPrice, IsIntent

(* Another volume changes nothing else of an order,                        *)
LEMMA ResizedKeepsRest ==
  ASSUME NEW i, IsIntent(i), NEW s \in Nat
  PROVE  /\ IsIntent(Resized(i, s)) /\ Resized(i, s).vol = s
         /\ Resized(i, s).asset = i.asset /\ Resized(i, s).side = i.side /\ Resized(i, s).venue = i.venue
         /\ Resized(i, s).limit = i.limit /\ Resized(i, s).lev = i.lev /\ Resized(i, s).stop = i.stop
         /\ Resized(i, s).entry = i.entry
<1> PICK j : j = Resized(i, s)
  OBVIOUS
<1>1. j = [asset |-> i.asset, side |-> i.side, venue |-> i.venue, vol |-> s, limit |-> i.limit,
           lev |-> i.lev, stop |-> i.stop, entry |-> i.entry]
  BY DEF Resized, IsIntent
<1>2. /\ j.vol = s /\ j.asset = i.asset /\ j.side = i.side /\ j.venue = i.venue
      /\ j.limit = i.limit /\ j.lev = i.lev /\ j.stop = i.stop /\ j.entry = i.entry
  BY <1>1
<1>3. IsIntent(j)
  BY <1>1, <1>2 DEF IsIntent
<1> QED BY <1>2, <1>3

(* so that the policies that do not look at it say the same.               *)
LEMMA ResizedIsPlainlyTheSame ==
  ASSUME NEW i, IsIntent(i), NEW s \in Nat, NEW c, NEW lim
  PROVE  /\ Plain(Resized(i, s), c, lim) = Plain(i, c, lim)
         /\ UnitPrice(Resized(i, s), c) = UnitPrice(i, c)
         /\ Limits(Resized(i, s), c) = Limits(i, c)
<1> PICK j : j = Resized(i, s)
  OBVIOUS
<1>1. /\ j.asset = i.asset /\ j.side = i.side /\ j.venue = i.venue
      /\ j.limit = i.limit /\ j.lev = i.lev /\ j.stop = i.stop /\ j.entry = i.entry
  BY ResizedKeepsRest
<1>2. UnitPrice(j, c) = UnitPrice(i, c)
  BY <1>1 DEF UnitPrice
<1>3. Limits(j, c) = Limits(i, c)
  BY <1>1 DEF Limits
<1>4. PortfolioDrawdown(j, c, lim) = PortfolioDrawdown(i, c, lim) /\ DailyBudget(j, c, lim) = DailyBudget(i, c, lim)
  BY DEF PortfolioDrawdown, DailyBudget
<1>5. PerPairCooldown(j, c, lim) = PerPairCooldown(i, c, lim)
  BY <1>1 DEF PerPairCooldown
<1>6. RegimeConsistency(j, c, lim) = RegimeConsistency(i, c, lim)
  BY <1>1 DEF RegimeConsistency
<1>7. LeverageCap(j, c, lim) = LeverageCap(i, c, lim)
  BY <1>1 DEF LeverageCap
<1>8. LiquidationDistance(j, c, lim) = LiquidationDistance(i, c, lim)
  BY <1>1 DEF LiquidationDistance
<1>9. StopDistance(j, c, lim) = StopDistance(i, c, lim)
  BY <1>1 DEF StopDistance
<1>10. FundingDrag(j, c, lim) = FundingDrag(i, c, lim)
  BY <1>1 DEF FundingDrag
<1>11. DuplicatePerpsPosition(j, c, lim) = DuplicatePerpsPosition(i, c, lim)
  BY <1>1 DEF DuplicatePerpsPosition
<1>12. Plain(j, c, lim) = Plain(i, c, lim)
  BY <1>1, <1>4, <1>5, <1>6, <1>7, <1>8, <1>9, <1>10, <1>11 DEF Plain
<1> QED BY <1>2, <1>3, <1>12

(* Within the cap or not: a smaller cost is judged no worse.               *)
LEMMA SmallerIsMilder ==
  ASSUME NEW cap \in Nat, NEW u \in Nat, NEW vol \in Nat, NEW s \in Nat, s <= vol,
         Oversized(vol * u, cap, u).status # "REJECT",
         Oversized(vol * u, cap, u).status = "SCALE" => s <= Oversized(vol * u, cap, u).vol
  PROVE  Mild(Oversized(s * u, cap, u))
<1> PICK big \in Nat : big = vol * u
  OBVIOUS
<1> PICK small \in Nat : small = s * u
  OBVIOUS
<1>1. small <= big
  BY MoreCostsMore
<1>2. ~(big > 3 * cap /\ ~(big <= cap))
  BY Statements DEF Oversized
<1>3. CASE big <= cap
  <2>1. small <= cap
    BY <1>1, <1>3
  <2>2. Oversized(small, cap, u) = Approved
    BY <2>1 DEF Oversized
  <2> QED BY <2>2, Statements DEF Mild
<1>4. CASE ~(big <= cap) /\ big * 10 <= cap * 11
  <2>1. ~(small > 3 * cap) /\ small * 10 <= cap * 11
    BY <1>1, <1>2, <1>4
  <2>2. Oversized(small, cap, u) \in {Approved, Concern}
    BY <2>1 DEF Oversized
  <2> QED BY <2>2, Statements DEF Mild
<1>5. CASE ~(big <= cap) /\ ~(big * 10 <= cap * 11)
  <2>1. Oversized(big, cap, u) = Scale(cap, u)
    BY <1>2, <1>5 DEF Oversized
  <2> PICK q : q = cap \div u
    OBVIOUS
  <2>2. s <= q
    BY <2>1, Statements
  <2>3. q \in Nat /\ q * u <= cap /\ q * u \in Nat
    BY <1>5, ScaledIsSmaller
  <2>4. small <= q * u
    BY <2>2, <2>3, MoreCostsMore
  <2>5. small <= cap
    BY <2>3, <2>4
  <2>6. Oversized(small, cap, u) = Approved
    BY <2>5 DEF Oversized
  <2> QED BY <2>6, Statements DEF Mild
<1> QED BY <1>3, <1>4, <1>5

(* The position policy accepts the suggested volume,                       *)
LEMMA SmallerPosition ==
  ASSUME NEW i, IsIntent(i), NEW c, Sound(c), NEW lim, lim.positionPct \in Nat,
         NEW s \in Nat, s <= i.vol,
         PositionSize(i, c, lim).status # "REJECT",
         PositionSize(i, c, lim).status = "SCALE" => s <= PositionSize(i, c, lim).vol
  PROVE  Mild(PositionSize(Resized(i, s), c, lim))
<1> PICK j : j = Resized(i, s)
  OBVIOUS
<1>1. j.asset = i.asset /\ j.side = i.side /\ j.vol = s
  BY ResizedKeepsRest
<1> PICK u : u = UnitPrice(i, c)
  OBVIOUS
<1>2. u \in Nat \cup {None} /\ UnitPrice(j, c) = u
  BY UnitIsPrice, ResizedIsPlainlyTheSame
<1>3. CASE c.total <= 0
  <2>1. PositionSize(j, c, lim) = Approved
    BY <1>3 DEF PositionSize
  <2> QED BY <2>1, Statements DEF Mild
<1>4. CASE ~(c.total <= 0) /\ (u = None \/ (i.side = "sell" /\ c.held[i.asset] <= 0))
  <2>1. PositionSize(j, c, lim) = Concern
    BY <1>1, <1>2, <1>4 DEF PositionSize
  <2> QED BY <2>1, Statements DEF Mild
<1>5. CASE ~(c.total <= 0) /\ u # None /\ ~(i.side = "sell" /\ c.held[i.asset] <= 0)
  <2> PICK cap : cap = c.total * lim.positionPct
    OBVIOUS
  <2>1. cap \in Nat
    <3>1. c.total \in Nat
      BY <1>5 DEF Sound
    <3> QED BY <3>1
  <2>2. PositionSize(i, c, lim) = Oversized(i.vol * u, cap, u)
    BY <1>5 DEF PositionSize
  <2>3. PositionSize(j, c, lim) = Oversized(s * u, cap, u)
    BY <1>1, <1>2, <1>5 DEF PositionSize
  <2>4. i.vol \in Nat /\ u \in Nat
    BY <1>2, <1>5 DEF IsIntent
  <2>5. Mild(Oversized(s * u, cap, u))
    BY <2>1, <2>2, <2>4, SmallerIsMilder
  <2> QED BY <2>3, <2>5
<1> QED BY <1>3, <1>4, <1>5

(* so does the tier policy,                                                *)
LEMMA SmallerTier ==
  ASSUME NEW i, IsIntent(i), NEW c, Sound(c), NEW lim,
         \A t \in DOMAIN lim.tierPct : lim.tierPct[t] \in Nat,
         NEW s \in Nat, s <= i.vol,
         PerTierExposure(i, c, lim).status # "REJECT",
         PerTierExposure(i, c, lim).status = "SCALE" => s <= PerTierExposure(i, c, lim).vol
  PROVE  Mild(PerTierExposure(Resized(i, s), c, lim))
<1> PICK j : j = Resized(i, s)
  OBVIOUS
<1>1. j.asset = i.asset /\ j.side = i.side /\ j.vol = s
  BY ResizedKeepsRest
<1> PICK u : u = UnitPrice(i, c)
  OBVIOUS
<1>2. u \in Nat \cup {None} /\ UnitPrice(j, c) = u
  BY UnitIsPrice, ResizedIsPlainlyTheSame
<1> PICK t : t = c.metadata[i.asset]
  OBVIOUS
<1> PICK room : room = c.total * lim.tierPct[t] - c.exposure[t] * 100
  OBVIOUS
<1> DEFINE Early == \/ lim.tierPct = NoLimits \/ t = None
                    \/ t \notin DOMAIN lim.tierPct \/ i.side = "sell" \/ u = None
<1>3. CASE Early
  <2>1. PerTierExposure(j, c, lim) \in {Approved, Concern}
    BY <1>1, <1>2, <1>3 DEF PerTierExposure
  <2> QED BY <2>1, Statements DEF Mild
<1>4. CASE ~Early
  <2>1. /\ PerTierExposure(i, c, lim) = IF c.total <= 0 \/ i.vol * u <= room THEN Approved
                                        ELSE IF room <= 0 THEN Reject ELSE Scale(room, u)
        /\ PerTierExposure(j, c, lim) = IF c.total <= 0 \/ s * u <= room THEN Approved
                                        ELSE IF room <= 0 THEN Reject ELSE Scale(room, u)
    BY <1>1, <1>2, <1>4 DEF PerTierExposure
  <2>2. room \in Int /\ u \in Nat /\ i.vol \in Nat /\ c.total \in Int
    <3>1. c.exposure[t] \in Int /\ lim.tierPct[t] \in Nat /\ c.total \in Int
      BY <1>4 DEF Sound, IsIntent
    <3> QED BY <3>1, <1>2, <1>4 DEF IsIntent
  <2>3. s * u \in Nat /\ i.vol * u \in Nat /\ s * u <= i.vol * u
    BY <2>2, MoreCostsMore
  <2> PICK whole \in Nat : whole = i.vol * u
    BY <2>3
  <2> PICK part \in Nat : part = s * u
    BY <2>3
  <2>6. part <= whole
    BY <2>3
  <2>4. CASE c.total <= 0 \/ i.vol * u <= room
    <3>1. c.total <= 0 \/ whole <= room
      BY <2>4
    <3>2. c.total <= 0 \/ part <= room
      BY ONLY <3>1, <2>2, <2>6, whole \in Nat, part \in Nat
    <3>3. PerTierExposure(j, c, lim) = Approved
      BY ONLY <2>1, <3>2, part = s * u
    <3> QED BY <3>3, Statements DEF Mild
  <2>5. CASE ~(c.total <= 0 \/ i.vol * u <= room)
    <3>1. ~(room <= 0) /\ PerTierExposure(i, c, lim) = Scale(room, u)
      BY <2>1, <2>5, Statements
    <3> PICK q : q = room \div u
      OBVIOUS
    <3>2. s <= q
      BY <3>1, Statements
    <3>3. q \in Nat /\ q * u <= room /\ q * u \in Nat
      <4>1. room \in Nat /\ i.vol * u > room
        <5>1. ~(room <= 0) /\ ~(whole <= room)
          BY <2>5, <3>1
        <5>2. room \in Nat /\ whole > room
          BY ONLY <5>1, <2>2, whole \in Nat
        <5> QED BY ONLY <5>2, whole = i.vol * u
      <4> PICK vol \in Nat : vol = i.vol
        BY <2>2
      <4>2. u # 0 /\ room \div u \in Nat /\ (room \div u) * u <= room
        BY <4>1, <2>2, ScaledIsSmaller
      <4>3. q \in Nat /\ q * u <= room
        BY ONLY <4>2, q = room \div u
      <4> QED BY ONLY <4>3, <2>2, MoreCostsMore
    <3>4. s * u <= q * u
      BY ONLY <3>2, <3>3, <2>2, s \in Nat, MoreCostsMore
    <3>5. s * u <= room
      <4> PICK y \in Nat : y = q * u
        BY <3>3
      <4>1. part <= y
        BY ONLY <3>4, part = s * u, y = q * u
      <4>2. y <= room
        BY ONLY <3>3, y = q * u
      <4>3. part <= room
        BY ONLY <4>1, <4>2, <2>2, part \in Nat, y \in Nat
      <4> QED BY ONLY <4>3, part = s * u
    <3>6. PerTierExposure(j, c, lim) = Approved
      BY <2>1, <3>5
    <3> QED BY <3>6, Statements DEF Mild
  <2> QED BY <2>4, <2>5
<1> QED BY <1>3, <1>4

(* and the funds policy any that is smaller.                               *)
LEMMA SmallerFunds ==
  ASSUME NEW i, IsIntent(i), NEW c, Sound(c), NEW lim,
         NEW s \in Nat, s <= i.vol,
         InsufficientFunds(i, c, lim).status # "REJECT"
  PROVE  Mild(InsufficientFunds(Resized(i, s), c, lim))
<1> PICK j : j = Resized(i, s)
  OBVIOUS
<1>1. j.asset = i.asset /\ j.side = i.side /\ j.vol = s
  BY ResizedKeepsRest
<1> PICK u : u = UnitPrice(i, c)
  OBVIOUS
<1>2. u \in Nat \cup {None} /\ UnitPrice(j, c) = u
  BY UnitIsPrice, ResizedIsPlainlyTheSame
<1>3. InsufficientFunds(i, c, lim) # Reject
  BY Statements
<1>4. CASE i.side = "sell"
  <2>1. ~(i.vol > c.held[i.asset] * 100)
    BY <1>3, <1>4 DEF InsufficientFunds
  <2>2. c.held[i.asset] \in Nat /\ i.vol \in Nat
    BY DEF Sound, IsIntent, Quantities
  <2>3. ~(s > c.held[i.asset] * 100)
    BY <2>1, <2>2
  <2>4. InsufficientFunds(j, c, lim) = Approved
    BY <1>1, <1>4, <2>3 DEF InsufficientFunds
  <2> QED BY <2>4, Statements DEF Mild
<1>5. CASE i.side # "sell" /\ u = None
  <2>1. InsufficientFunds(j, c, lim) = Concern
    BY <1>1, <1>2, <1>5 DEF InsufficientFunds
  <2> QED BY <2>1, Statements DEF Mild
<1>6. CASE i.side # "sell" /\ u # None
  <2>1. s * u \in Nat /\ i.vol * u \in Nat /\ s * u <= i.vol * u /\ c.cash \in Int
    BY <1>2, <1>6, MoreCostsMore DEF Sound, IsIntent
  <2>2. ~(i.vol * u > c.cash * 100 /\ (c.total > 0 \/ c.cash > 0))
    BY <1>3, <1>6 DEF InsufficientFunds
  <2>3. ~(s * u > c.cash * 100 /\ (c.total > 0 \/ c.cash > 0))
    BY <2>1, <2>2
  <2>4. InsufficientFunds(j, c, lim) \in {Approved, Concern}
    BY <1>1, <1>2, <1>6, <2>3 DEF InsufficientFunds
  <2> QED BY <2>4, Statements DEF Mild
<1> QED BY <1>4, <1>5, <1>6

(* In a sound context the smallest suggestion is accepted by all policies. *)
LEMMA TheSuggestedIsAccepted ==
  ASSUME NEW i \in Intents, NEW c, Sound(c),
         Worst(Judged(i, c)) = Rank.SCALE, Suggested(Judged(i, c)) > 0
  PROVE  Worst(Judged([i EXCEPT !.vol = Suggested(Judged(i, c))], c)) <= Rank.CONCERN
<1> PICK lim : lim = Limits(i, c)
  OBVIOUS
<1> PICK F : F = Fragments(i, c, lim)
  OBVIOUS
<1> PICK s : s = Suggested(F)
  OBVIOUS
<1>1. IsIntent(i) /\ i.vol \in Nat
  BY PolicyAssumption DEF IsIntent
<1>2. lim.positionPct \in Nat /\ \A t \in DOMAIN lim.tierPct : lim.tierPct[t] \in Nat
  BY LimitsAreSound DEF AreLimits, LimitFields
<1>3. F = Plain(i, c, lim) \cup {PositionSize(i, c, lim), PerTierExposure(i, c, lim), InsufficientFunds(i, c, lim)}
  BY FragmentsSplit
<1>4. F # {} /\ \A f \in F : f.status \in Statuses
  BY <1>3, FragmentsHaveStatus
<1>5. Worst(F) = 2 /\ s > 0
  BY DEF Judged, Rank
<1>6. \A f \in F : f.status # "REJECT"
  <2> SUFFICES ASSUME NEW f \in F, f.status = "REJECT" PROVE FALSE
    OBVIOUS
  <2>1. Worst(F) >= Rank[f.status]
    BY <1>4, WorstIsWorst
  <2> QED BY <2>1, <1>5 DEF Rank
<1> PICK scaled : scaled = {g \in F : g.status = "SCALE"}
  OBVIOUS
<1>7. scaled # {}
  <2>1. PICK f \in F : Worst(F) = Rank[f.status]
    BY <1>4, WorstIsWorst
  <2>2. f.status = "SCALE"
    BY <2>1, <1>4, <1>5 DEF Rank, Statuses
  <2> QED BY <2>2
<1>8. \A f \in scaled : f = PositionSize(i, c, lim) \/ f = PerTierExposure(i, c, lim)
  <2> SUFFICES ASSUME NEW f \in scaled, f # PositionSize(i, c, lim), f # PerTierExposure(i, c, lim) PROVE FALSE
    OBVIOUS
  <2>1. f.status = "SCALE"
    OBVIOUS
  <2>2. f \notin Plain(i, c, lim)
    BY <2>1, PlainNeverScales DEF Statuses
  <2>3. f = InsufficientFunds(i, c, lim)
    BY <2>2, <1>3
  <2>4. InsufficientFunds(i, c, lim) \in {Approved, Concern, Reject}
    BY DEF InsufficientFunds
  <2> QED BY <2>1, <2>3, <2>4, Statements
<1> PICK u : u = UnitPrice(i, c)
  OBVIOUS
<1>9. u \in Nat \cup {None}
  BY <1>1, UnitIsPrice
<1>10. \A f \in scaled : f.vol \in Nat /\ f.vol <= i.vol
  <2> PICK vol \in Nat : vol = i.vol
    BY <1>1
  <2>1. PositionSize(i, c, lim).status = "SCALE" =>
          PositionSize(i, c, lim).vol \in Nat /\ PositionSize(i, c, lim).vol <= vol
    <3> SUFFICES ASSUME PositionSize(i, c, lim).status = "SCALE"
                 PROVE  PositionSize(i, c, lim).vol \in Nat /\ PositionSize(i, c, lim).vol <= vol
      OBVIOUS
    <3> PICK cap : cap = c.total * lim.positionPct
      OBVIOUS
    <3>1. c.total > 0 /\ u # None /\ PositionSize(i, c, lim) = Oversized(vol * u, cap, u)
      <4>1. ~(c.total <= 0) /\ u # None /\ PositionSize(i, c, lim) = Oversized(vol * u, cap, u)
        BY Statements DEF PositionSize
      <4> QED BY <4>1 DEF Sound
    <3>2. ~(vol * u <= cap) /\ PositionSize(i, c, lim) = Scale(cap, u)
      BY <3>1, Statements DEF Oversized
    <3>3. cap \in Nat /\ u \in Nat
      <4>1. c.total \in Nat
        BY <3>1 DEF Sound
      <4> QED BY <4>1, <1>2, <1>9, <3>1
    <3>4. vol * u > cap
      BY <3>2, <3>3
    <3>5. cap \div u \in Nat /\ cap \div u <= vol
      BY <3>3, <3>4, ScaledIsSmaller
    <3> QED BY <3>2, <3>5, Statements
  <2>2. PerTierExposure(i, c, lim).status = "SCALE" =>
          PerTierExposure(i, c, lim).vol \in Nat /\ PerTierExposure(i, c, lim).vol <= vol
    <3> SUFFICES ASSUME PerTierExposure(i, c, lim).status = "SCALE"
                 PROVE  PerTierExposure(i, c, lim).vol \in Nat /\ PerTierExposure(i, c, lim).vol <= vol
      OBVIOUS
    <3> PICK t : t = c.metadata[i.asset]
      OBVIOUS
    <3> PICK room : room = c.total * lim.tierPct[t] - c.exposure[t] * 100
      OBVIOUS
    <3>1. /\ t # None /\ t \in DOMAIN lim.tierPct /\ u # None
          /\ ~(c.total <= 0 \/ vol * u <= room) /\ ~(room <= 0)
          /\ PerTierExposure(i, c, lim) = Scale(room, u)
      BY Statements DEF PerTierExposure
    <3>2. room \in Nat /\ u \in Nat
      <4>1. c.exposure[t] \in Int /\ lim.tierPct[t] \in Nat /\ c.total \in Int
        BY <1>1, <1>2, <3>1 DEF Sound, IsIntent
      <4>2. room \in Int
        BY <4>1
      <4> QED BY <4>2, <3>1, <1>9
    <3>3. vol * u > room
      <4> PICK z \in Nat : z = vol * u
        BY <3>2
      <4>1. ~(z <= room)
        BY <3>1
      <4>2. z > room
        BY ONLY <3>2, <4>1, z \in Nat
      <4> QED BY ONLY <4>2, z = vol * u
    <3>4. room \div u \in Nat /\ room \div u <= vol
      BY ONLY <3>2, <3>3, vol \in Nat, ScaledIsSmaller
    <3> QED BY <3>1, <3>4, Statements
  <2>3. \A f \in scaled : f.status = "SCALE"
    OBVIOUS
  <2> QED BY <2>1, <2>2, <2>3, <1>8
<1>11. s \in Nat /\ s <= i.vol /\ \A f \in scaled : s <= f.vol
  <2> PICK V : V = {f.vol : f \in scaled}
    OBVIOUS
  <2>1. V \in SUBSET Nat /\ V # {}
    BY <1>7, <1>10
  <2>2. s = Min(V)
    BY DEF Suggested
  <2>3. s \in V /\ \A n \in V : s <= n
    BY <2>1, <2>2, MinOfNats
  <2> QED BY <2>1, <2>3, <1>10, <1>1
<1> PICK j : j = Resized(i, s)
  OBVIOUS
<1>12. Limits(j, c) = lim /\ Plain(j, c, lim) = Plain(i, c, lim)
  BY <1>1, <1>11, ResizedIsPlainlyTheSame
<1>13. \A f \in Plain(j, c, lim) : Mild(f)
  BY <1>3, <1>6, <1>12, PlainNeverScales DEF Mild, Statuses
<1>14. Mild(PositionSize(j, c, lim))
  <2>1. PositionSize(i, c, lim).status = "SCALE" => s <= PositionSize(i, c, lim).vol
    BY <1>3, <1>11
  <2> QED BY <2>1, <1>1, <1>2, <1>3, <1>6, <1>11, SmallerPosition
<1>15. Mild(PerTierExposure(j, c, lim))
  <2>1. PerTierExposure(i, c, lim).status = "SCALE" => s <= PerTierExposure(i, c, lim).vol
    BY <1>3, <1>11
  <2> QED BY <2>1, <1>1, <1>2, <1>3, <1>6, <1>11, SmallerTier
<1>16. Mild(InsufficientFunds(j, c, lim))
  BY <1>1, <1>3, <1>6, <1>11, SmallerFunds
<1>17. \A f \in Fragments(j, c, lim) : Mild(f)
  BY <1>13, <1>14, <1>15, <1>16, FragmentsSplit
<1>18. Fragments(j, c, lim) # {}
  BY FragmentsSplit
<1>19. Worst(Fragments(j, c, lim)) <= Rank.CONCERN
  BY <1>17, <1>18, MildMeansAccepted
<1> QED BY <1>12, <1>19 DEF Judged, Resized

(* A volume that vet suggests is not scaled down or rejected when it is put*)
(* to the same policies in the same context.                               *)
THEOREM TheScaledIsAccepted == Spec => []ScaledIsAccepted
<1>1. IInv => ScaledIsAccepted
  <2> SUFFICES ASSUME IInv, NEW p \in Vet, At(p, "vetted"), NEW metadata \in {NoTier, Tier},
                      NEW o \in Outside, NEW c, c = [Context(vet[p], o) EXCEPT !.metadata = metadata],
                      NEW i \in Intents,
                      Worst(Judged(i, c)) = Rank.SCALE, Suggested(Judged(i, c)) > 0
               PROVE  Worst(Judged([i EXCEPT !.vol = Suggested(Judged(i, c))], c)) <= Rank.CONCERN
    BY DEF ScaledIsAccepted, Judging, Contexts
  <2>1. Sound(c)
    BY ContextIsSound
  <2> QED BY <2>1, TheSuggestedIsAccepted
<1> QED BY <1>1, Soundness, PTL

(* A buy without a price is at least a concern; without a portfolio a spot *)
(* buy is no more than that.                                               *)
THEOREM MissingDataIsNoLicence == Spec => []MissingDataIsAConcern
<1>1. IInv => MissingDataIsAConcern
  <2> SUFFICES ASSUME IInv, NEW p \in Vet, At(p, "vetted"),
                      NEW o \in Outside, NEW c, c = [Context(vet[p], o) EXCEPT !.metadata = NoTier],
                      NEW i \in Intents, i.side = "buy"
               PROVE  /\ i.limit = None /\ (~vet[p].loaded \/ vet[p].prices[i.asset] = None)
                         /\ (i.venue = "perps" \/ vet[p].reference[i.asset] = None)
                         => Worst(Judged(i, c)) >= Rank.CONCERN
                      /\ ~vet[p].loaded /\ i.venue = "spot" => Worst(Judged(i, c)) <= Rank.CONCERN
    BY DEF MissingDataIsAConcern, Judging, Contexts
  <2> PICK v \in VetState : v = vet[p]
    BY DEF IInv, TypeOK, VetState
  <2> PICK lim : lim = Limits(i, c)
    OBVIOUS
  <2> PICK F : F = Fragments(i, c, lim)
    OBVIOUS
  <2>1. F = Plain(i, c, lim) \cup {PositionSize(i, c, lim), PerTierExposure(i, c, lim), InsufficientFunds(i, c, lim)}
    BY FragmentsSplit
  <2>2. F # {} /\ \A f \in F : f.status \in Statuses
    BY <2>1, FragmentsHaveStatus
  <2>3. Sound(c)
    BY ContextIsSound
  <2>4. i.asset \in Asset
    BY PolicyAssumption DEF IsIntent
  <2>5. v.prices \in Prices /\ Complete(v) /\ v.step = "vetted"
    BY DEF IInv, ReadInv, Reading, Complete, At
  <2>6. ~v.loaded => v.prices[i.asset] = None
    BY <2>4, <2>5 DEF Complete
  <2> PICK h : h = IF ~v.loaded THEN NoQuantity ELSE v.held
    OBVIOUS
  <2>7. /\ c.quote = [a \in Asset |-> IF h[a] > 0 THEN v.prices[a] ELSE None]
        /\ c.reference = v.reference
    BY DEF Context
  <2>8. ASSUME i.limit = None, ~v.loaded \/ v.prices[i.asset] = None,
               i.venue = "perps" \/ v.reference[i.asset] = None
        PROVE  Worst(F) >= Rank.CONCERN
    <3>1. c.quote[i.asset] = None
      BY <2>4, <2>6, <2>7, <2>8
    <3>2. UnitPrice(i, c) = None
      BY <2>7, <2>8, <3>1 DEF UnitPrice
    <3>3. InsufficientFunds(i, c, lim) = Concern
      BY <3>2 DEF InsufficientFunds
    <3>4. Worst(F) >= Rank[Concern.status]
      BY <2>1, <2>2, <3>3, WorstIsWorst
    <3> QED BY <3>4, Statements DEF Rank
  <2>9. ASSUME ~v.loaded, i.venue = "spot" PROVE Worst(F) <= Rank.CONCERN
    <3>1. /\ c.total = 0 /\ c.cash = 0 /\ c.lost = 0 /\ c.mark = 0 /\ c.trades = {}
          /\ c.metadata = NoTier
      BY <2>5, <2>9 DEF Context, Complete
    <3>2. lim.drawdownPct \in Nat \ {0} /\ lim.budget \in Nat \ {0}
      BY LimitsAreSound DEF AreLimits, LimitFields
    <3>3. PositionSize(i, c, lim) = Approved
      BY <3>1 DEF PositionSize
    <3>4. PortfolioDrawdown(i, c, lim) = Approved
      BY <3>1, <3>2 DEF PortfolioDrawdown
    <3>5. PerTierExposure(i, c, lim) \in {Approved, Concern}
      BY <3>1, <2>4 DEF PerTierExposure, NoTier
    <3>6. DailyBudget(i, c, lim) \in {Approved, Concern}
      BY <3>1, <3>2, FS_EmptySet DEF DailyBudget
    <3>7. InsufficientFunds(i, c, lim) \in {Approved, Concern}
      BY <3>1 DEF InsufficientFunds
    <3>8. PerPairCooldown(i, c, lim) \in {Approved, Concern} /\ RegimeConsistency(i, c, lim) \in {Approved, Concern}
      BY DEF PerPairCooldown, RegimeConsistency
    <3>9. Plain(i, c, lim) = {PortfolioDrawdown(i, c, lim), DailyBudget(i, c, lim), PerPairCooldown(i, c, lim),
                              RegimeConsistency(i, c, lim)}
      BY <2>9 DEF Plain
    <3>10. \A f \in F : f = Approved \/ f = Concern
      BY <2>1, <3>3, <3>4, <3>5, <3>6, <3>7, <3>8, <3>9
    <3>11. \A f \in F : Mild(f)
      BY <3>10, Statements DEF Mild
    <3> QED BY <2>2, <3>11, MildMeansAccepted
  <2> QED BY <2>8, <2>9 DEF Judged
<1> QED BY <1>1, Soundness, PTL
=============================================================================
