----------------------------- MODULE SignalProofs -----------------------------
(***************************************************************************)
(* Proofs about what is built on Signals: Backtest and the strategies it   *)
(* replays, for every series of bars, every command line, every fee and    *)
(* slippage, and whichever way a decimal tie is rounded; and after it Scan *)
(* and the notebook of Notes it is composed with, for every number of      *)
(* clerks and runners, all drafts, notes and command lines, and however    *)
(* commands overlap or are killed; last the history of the scans and the   *)
(* chop score that is read from it.                                        *)
(***************************************************************************)
EXTENDS Backtest, Scan, FoldTheorems

(* Rounding *)

(* A number lies between two multiples of a step.                          *)
LEMMA Quotient ==
  ASSUME NEW x \in Int, NEW T \in {1, 100, 10000}
  PROVE  /\ x \div T \in Int /\ (x % T) \in 0..(T - 1)
         /\ x = T * (x \div T) + (x % T)
<1>1. CASE T = 1
  BY <1>1
<1>2. CASE T = 100
  BY <1>2
<1>3. CASE T = 10000
  BY <1>3
<1> QED BY <1>1, <1>2, <1>3

(* A rounded price is the multiple of the tick below or the one above, and *)
(* the higher one only beyond half of the way.                             *)
Rounded(x, T, q, up) ==
  /\ q \in Int /\ up \in {0, 1}
  /\ T * q <= x /\ x < T * q + T
  /\ up = 1 => 2 * (x - T * q) >= T
  /\ up = 0 => 2 * (x - T * q) <= T
  /\ up = 1 /\ 2 * (x - T * q) = T => TiesUp
  /\ up = 0 /\ 2 * (x - T * q) = T => ~TiesUp
  /\ RoundPrice(x) = (q + up) * T

(* Prices are rounded to the tick of their magnitude.                      *)
LEMMA Rounds ==
  ASSUME NEW x \in Int
  PROVE  Tick(x) \in {1, 100, 10000} /\ \E q, up : Rounded(x, Tick(x), q, up)
<1>1. Tick(x) \in {1, 100, 10000}
  BY DEF Tick
<1> PICK T \in {1, 100, 10000} : T = Tick(x)
  BY <1>1
<1> PICK q : q = x \div T
  OBVIOUS
<1> PICK m : m = x % T
  OBVIOUS
<1>2. q \in Int /\ m \in 0..(T - 1) /\ x = T * q + m
  BY Quotient
<1> PICK up : up = IF 2 * m > T \/ (2 * m = T /\ TiesUp) THEN 1 ELSE 0
  OBVIOUS
<1>3. RoundPrice(x) = (q + up) * T
  BY DEF RoundPrice
<1> PICK k \in Int : k = T * q
  <2>1. T * q \in Int
    BY <1>2
  <2> QED BY <2>1
<1>4. m = x - k /\ k <= x /\ x < k + T
  <2>1. x = k + m /\ m \in Int /\ 0 <= m /\ m < T
    BY <1>2
  <2> QED BY ONLY <2>1, x \in Int, k \in Int, T \in {1, 100, 10000}
<1>5. up \in {0, 1} /\ (up = 1 => 2 * m >= T) /\ (up = 0 => 2 * m <= T)
  <2>1. m \in Int
    BY <1>2
  <2>2. CASE 2 * m > T \/ (2 * m = T /\ TiesUp)
    BY <2>1, <2>2
  <2>3. CASE ~(2 * m > T \/ (2 * m = T /\ TiesUp))
    BY <2>1, <2>3, TiesAssumption
  <2> QED BY <2>2, <2>3
<1>6. (up = 1 /\ 2 * m = T => TiesUp) /\ (up = 0 /\ 2 * m = T => ~TiesUp)
  BY <1>2, TiesAssumption
<1>7. T * q = k /\ x - k = m
  BY <1>4
<1>8. Rounded(x, T, q, up)
  BY ONLY <1>2, <1>3, <1>4, <1>5, <1>6, <1>7 DEF Rounded
<1> QED BY <1>1, <1>8

(* What lies on one side of a common multiple of the ticks stays there.    *)
LEMMA RoundStays ==
  ASSUME NEW x \in Int, NEW b \in Int
  PROVE  /\ RoundPrice(x) \in Int
         /\ x <= 10000 * b => RoundPrice(x) <= 10000 * b
         /\ x >= 10000 * b => RoundPrice(x) >= 10000 * b
<1> PICK T \in {1, 100, 10000} : T = Tick(x)
  BY Rounds
<1> PICK q, up : Rounded(x, T, q, up)
  BY Rounds
<1> PICK r : r = RoundPrice(x)
  OBVIOUS
<1>1. q \in Int /\ up \in {0, 1} /\ T * q <= x /\ x < T * q + T /\ r = (q + up) * T
      /\ (up = 1 => 2 * (x - T * q) >= T)
  BY DEF Rounded
<1>2. CASE T = 1
  BY ONLY <1>1, <1>2, x \in Int, b \in Int, r = RoundPrice(x)
<1>3. CASE T = 100
  BY ONLY <1>1, <1>3, x \in Int, b \in Int, r = RoundPrice(x)
<1>4. CASE T = 10000
  BY ONLY <1>1, <1>4, x \in Int, b \in Int, r = RoundPrice(x)
<1> QED BY <1>2, <1>3, <1>4

(* Rounding never swaps two prices.                                        *)
LEMMA RoundKeepsOrder ==
  ASSUME NEW x \in Int, NEW y \in Int, x <= y
  PROVE  RoundPrice(x) <= RoundPrice(y)
<1>1. CASE Tick(x) = Tick(y)
  <2> PICK T \in {1, 100, 10000} : T = Tick(x)
    BY Rounds
  <2> PICK q, up : Rounded(x, T, q, up)
    BY Rounds
  <2> PICK p, vp : Rounded(y, T, p, vp)
    BY <1>1, Rounds
  <2>1. /\ q \in Int /\ up \in {0, 1} /\ p \in Int /\ vp \in {0, 1}
        /\ T * q <= x /\ x < T * q + T /\ T * p <= y /\ y < T * p + T
        /\ (up = 1 => 2 * (x - T * q) >= T) /\ (vp = 0 => 2 * (y - T * p) <= T)
    BY DEF Rounded
  <2>2. ~(up = 1 /\ vp = 0 /\ 2 * (x - T * q) = T /\ 2 * (y - T * p) = T)
    BY DEF Rounded
  <2>3. q <= p
    <3>1. CASE T = 1
      BY ONLY <2>1, <3>1, x \in Int, y \in Int, x <= y
    <3>2. CASE T = 100
      BY ONLY <2>1, <3>2, x \in Int, y \in Int, x <= y
    <3>3. CASE T = 10000
      BY ONLY <2>1, <3>3, x \in Int, y \in Int, x <= y
    <3> QED BY <3>1, <3>2, <3>3
  <2>4. q + up <= p + vp
    <3>1. CASE q < p
      BY <2>1, <3>1
    <3>2. CASE q = p
      <4> PICK k \in Int : k = T * q
        <5>1. T * q \in Int
          BY <2>1
        <5> QED BY <5>1
      <4>1. ~(up = 1 /\ vp = 0)
        BY ONLY <2>1, <2>2, <3>2, k = T * q, k \in Int, x \in Int, y \in Int, x <= y, T \in {1, 100, 10000}
      <4> QED BY <2>1, <3>2, <4>1
    <3> QED BY <2>1, <2>3, <3>1, <3>2
  <2>5. RoundPrice(x) = (q + up) * T /\ RoundPrice(y) = (p + vp) * T
    BY DEF Rounded
  <2>6. (q + up) * T <= (p + vp) * T
    <3>1. CASE T = 1
      BY ONLY <2>1, <2>4, <3>1
    <3>2. CASE T = 100
      BY ONLY <2>1, <2>4, <3>2
    <3>3. CASE T = 10000
      BY ONLY <2>1, <2>4, <3>3
    <3> QED BY <3>1, <3>2, <3>3
  <2> QED BY <2>5, <2>6
<1>2. CASE Tick(x) # Tick(y)
  <2>1. \E b \in {-100, -1, 1, 100} : x <= 10000 * b /\ 10000 * b <= y
    BY <1>2 DEF Tick, Magnitude
  <2> PICK b \in {-100, -1, 1, 100} : x <= 10000 * b /\ 10000 * b <= y
    BY <2>1
  <2>2. RoundPrice(x) <= 10000 * b /\ RoundPrice(y) >= 10000 * b /\ b \in Int
        /\ RoundPrice(x) \in Int /\ RoundPrice(y) \in Int
    BY RoundStays
  <2> QED BY <2>2
<1> QED BY <1>1, <1>2

-----------------------------------------------------------------------------
(* What the strategies build *)

Side == {"long", "short"}
IdeaType ==
  [dir : Side, conviction : Int, entry : Int, stop : Int, ideal : [1..3 -> Int], tp : [1..3 -> Int]]

(* Rounded prices, the first target on the side the stop leaves.           *)
Bracketed(i) ==
  /\ i.conviction <= 5
  /\ \A k \in 1..3 : i.tp[k] = RoundPrice(i.ideal[k])
  /\ \E e \in Int, s \in Int, h \in {2, 3, 4} :
       i.entry = RoundPrice(e) /\ i.stop = RoundPrice(s) /\ i.ideal[1] = Target(e, s, h)
Brackets == {i \in IdeaType : Bracketed(i)}

(* Every idea made by the common constructor is of this form.              *)
LEMMA IdeaIsBracketed ==
  ASSUME NEW dir \in Side, NEW conviction \in Int, conviction <= 5, NEW entry \in Int, NEW stop \in Int,
         NEW h \in {2, 3, 4}, NEW h2 \in Nat, NEW h3 \in Nat, NEW clamped \in BOOLEAN, NEW level \in Int
  PROVE  Idea(dir, conviction, entry, stop, <<h, h2, h3>>, clamped, level) \in Brackets
<1>1. \A g \in Nat : Target(entry, stop, g) \in Int
  <2> TAKE g \in Nat
  <2>1. (entry - stop) * g \in Int
    OBVIOUS
  <2> QED BY <2>1 DEF Target
<1>2. Sign(dir) \in Int
  BY DEF Sign
<1>3. DeadZone(dir, entry) \in Int
  <2>1. Tick(entry) \in Int /\ entry * (20 + Sign(dir)) \in Int /\ Sign(dir) * Tick(entry) \in Int
    BY <1>2 DEF Tick
  <2> QED BY <2>1 DEF DeadZone
<1> PICK far : far = IF clamped THEN Farther(dir, Farther(dir, Target(entry, stop, h3), level), DeadZone(dir, entry))
                     ELSE Target(entry, stop, h3)
  OBVIOUS
<1>4. far \in Int
  <2>1. \A x \in Int : \A y \in Int : Farther(dir, x, y) \in Int
    BY DEF Farther
  <2> QED BY <1>1, <1>3, <2>1
<1> PICK points : points = <<Target(entry, stop, h), Target(entry, stop, h2), far>>
  OBVIOUS
<1>5. points \in [1..3 -> Int] /\ points[1] = Target(entry, stop, h)
  BY <1>1, <1>4
<1> PICK tp : tp = [k \in 1..3 |-> RoundPrice(points[k])]
  OBVIOUS
<1>6. \A x \in Int : RoundPrice(x) \in Int
  BY RoundStays
<1>7. tp \in [1..3 -> Int] /\ \A k \in 1..3 : tp[k] = RoundPrice(points[k])
  BY <1>5, <1>6
<1> PICK i : i = Idea(dir, conviction, entry, stop, <<h, h2, h3>>, clamped, level)
  OBVIOUS
<1>8. i = [dir |-> dir, conviction |-> conviction, entry |-> RoundPrice(entry),
           stop |-> RoundPrice(stop), ideal |-> points, tp |-> tp]
  BY DEF Idea
<1>9. i \in IdeaType
  BY <1>5, <1>6, <1>7, <1>8 DEF IdeaType
<1>10. Bracketed(i)
  BY <1>5, <1>7, <1>8 DEF Bracketed
<1> QED BY <1>9, <1>10 DEF Brackets

(* What finalize_ideas passes can be traded as documented.                 *)
Tradeable(i, floor) ==
  LET s == Sign(i.dir)
  IN /\ i.dir \in Side /\ i.entry \in Int /\ i.stop \in Int /\ i.tp \in [1..3 -> Int]
     /\ s * i.stop < s * i.entry
     /\ 50 * s * (i.entry - i.stop) >= i.entry
     /\ s * i.entry < s * i.tp[1] /\ s * i.tp[1] < s * i.tp[2] /\ s * i.tp[2] < s * i.tp[3]
     /\ 20 * s * (i.tp[3] - i.entry) >= i.entry
     /\ \A k \in 1..2 : RewardToRisk(i)[k][1] < RewardToRisk(i)[k + 1][1]
     /\ i.conviction \in floor..5

(* An idea nobody complains of, with enough conviction, can be traded.     *)
LEMMA SoundIsTradeable ==
  ASSUME NEW i \in Brackets, Complaint(i) = "ok", NEW floor \in Int, i.conviction >= floor
  PROVE  Tradeable(i, floor)
<1> PICK e \in Int, s \in Int, h \in {2, 3, 4} :
      i.entry = RoundPrice(e) /\ i.stop = RoundPrice(s) /\ i.ideal[1] = Target(e, s, h)
  BY DEF Brackets, Bracketed
<1>1. /\ i.dir \in Side /\ i.entry \in Int /\ i.stop \in Int /\ i.tp \in [1..3 -> Int]
      /\ i.ideal \in [1..3 -> Int] /\ i.conviction \in floor..5
      /\ \A k \in 1..3 : i.tp[k] = RoundPrice(i.ideal[k])
  BY DEF Brackets, Bracketed, IdeaType
<1>2. Ladder(i) = "ok" /\ StopWideEnough(i)
  BY DEF Complaint
<1>3. /\ i.stop # i.entry
      /\ \A k \in 1..3 : Beyond(i.dir, i.tp[k], i.entry)
      /\ Beyond(i.dir, i.tp[2], i.tp[1]) /\ Beyond(i.dir, i.tp[3], i.tp[2])
      /\ ~Beyond(i.dir, i.entry * (20 + Sign(i.dir)), i.tp[3] * 20)
  BY <1>2 DEF Ladder
<1>4. \A x \in Int : \A y \in Int : RoundPrice(x) < RoundPrice(y) => x < y
  <2> SUFFICES ASSUME NEW x \in Int, NEW y \in Int, y <= x PROVE ~(RoundPrice(x) < RoundPrice(y))
    OBVIOUS
  <2>1. RoundPrice(y) <= RoundPrice(x) /\ RoundPrice(x) \in Int /\ RoundPrice(y) \in Int
    BY RoundKeepsOrder, RoundStays
  <2> QED BY <2>1
<1> PICK t1 \in Int, t2 \in Int, t3 \in Int : t1 = i.tp[1] /\ t2 = i.tp[2] /\ t3 = i.tp[3]
  BY <1>1
<1> PICK i1 \in Int, i2 \in Int, i3 \in Int : i1 = i.ideal[1] /\ i2 = i.ideal[2] /\ i3 = i.ideal[3]
  BY <1>1
<1> PICK entry \in Int, stop \in Int : entry = i.entry /\ stop = i.stop
  BY <1>1
<1>5. t1 = RoundPrice(i1) /\ t2 = RoundPrice(i2) /\ t3 = RoundPrice(i3)
  BY <1>1
<1>6. entry = 0 \/ 50 * Magnitude(entry - stop) >= entry
  BY <1>2 DEF StopWideEnough
<1>7. CASE i.dir = "long"
  <2>1. Sign(i.dir) = 1
    BY <1>7 DEF Sign
  <2>2. /\ entry < t1 /\ t1 < t2 /\ t2 < t3 /\ entry * 21 <= t3 * 20
    BY <1>3, <2>1 DEF Beyond
  <2>3. e < i1 /\ i1 < i2 /\ i2 < i3
    BY <1>4, <1>5, <2>2
  <2>4. s < e
    BY <2>3 DEF Target
  <2>5. stop < entry
    <3>1. stop <= entry
      BY <2>4, RoundKeepsOrder
    <3> QED BY <3>1, <1>3
  <2>6. 50 * (entry - stop) >= entry
    BY <1>6, <2>5 DEF Magnitude
  <2>7. RewardToRisk(i) = [k \in 1..3 |-> <<1 * (i.ideal[k] - entry), Magnitude(entry - stop)>>]
    BY <2>1, <2>5, <1>1 DEF RewardToRisk, Beyond
  <2>8. \A k \in 1..2 : RewardToRisk(i)[k][1] < RewardToRisk(i)[k + 1][1]
    BY <2>3, <2>7
  <2> QED BY <1>1, <2>1, <2>2, <2>5, <2>6, <2>8 DEF Tradeable
<1>8. CASE i.dir = "short"
  <2>1. Sign(i.dir) = -1
    BY <1>8 DEF Sign
  <2>2. /\ entry > t1 /\ t1 > t2 /\ t2 > t3 /\ entry * 19 >= t3 * 20
    BY <1>3, <2>1 DEF Beyond
  <2>3. e > i1 /\ i1 > i2 /\ i2 > i3
    BY <1>4, <1>5, <2>2
  <2>4. s > e
    BY <2>3 DEF Target
  <2>5. stop > entry
    <3>1. stop >= entry
      BY <2>4, RoundKeepsOrder
    <3> QED BY <3>1, <1>3
  <2>6. 50 * (stop - entry) >= entry
    BY <1>6, <2>5 DEF Magnitude
  <2>7. RewardToRisk(i) = [k \in 1..3 |-> <<(-1) * (i.ideal[k] - entry), Magnitude(entry - stop)>>]
    BY <2>1, <2>5, <1>1 DEF RewardToRisk, Beyond
  <2>8. \A k \in 1..2 : RewardToRisk(i)[k][1] < RewardToRisk(i)[k + 1][1]
    BY <2>3, <2>7
  <2> QED BY <1>1, <2>1, <2>2, <2>5, <2>6, <2>8 DEF Tradeable
<1> QED BY <1>1, <1>7, <1>8 DEF Side

-----------------------------------------------------------------------------
(* What the detectors say *)

(* A set listed in five names, equal or not, is finite.                    *)
LEMMA FiveAreFinite ==
  ASSUME NEW a, NEW b, NEW c, NEW d, NEW e PROVE IsFiniteSet({a, b, c, d, e})
<1>1. IsFiniteSet({a})
  BY FS_Singleton
<1>2. IsFiniteSet({a} \cup {b})
  BY <1>1, FS_AddElement
<1>3. IsFiniteSet(({a} \cup {b}) \cup {c})
  BY <1>2, FS_AddElement
<1>4. IsFiniteSet((({a} \cup {b}) \cup {c}) \cup {d})
  BY <1>3, FS_AddElement
<1>5. IsFiniteSet(((({a} \cup {b}) \cup {c}) \cup {d}) \cup {e})
  BY <1>4, FS_AddElement
<1>6. ((({a} \cup {b}) \cup {c}) \cup {d}) \cup {e} = {a, b, c, d, e}
  OBVIOUS
<1> QED BY <1>5, <1>6

(* A detector's weight is a sum over the votes that are on.                *)
LEMMA WeightIsSum ==
  ASSUME NEW vote, NEW weights
  PROVE  Weight(vote, weights) = SumFunctionOnSet(weights, On(vote))
  BY DEF Weight, MapThenSumSet, SumFunctionOnSet, FoldFunctionOnSet

(* What is clipped between 1 and 5 is one of them.                         *)
LEMMA ClipBounds == ASSUME NEW x \in Int PROVE Clip(1, x, 5) \in 1..5
  BY DEF Clip

(* A weight becomes a confidence between 1 and 5.                          *)
LEMMA ConfidenceBounds == ASSUME NEW w \in Int PROVE Confidence(w) \in 1..5
<1>1. HalfEven(5 * w, 10000) \in Int
  BY DEF HalfEven
<1> QED BY <1>1, ClipBounds DEF Confidence

(* Votes that have numbers for weights weigh a number.                     *)
LEMMA WeightIsInt ==
  ASSUME NEW weights, NEW vote, IsFiniteSet(DOMAIN vote), \A s \in DOMAIN vote : weights[s] \in Int
  PROVE  Weight(vote, weights) \in Int
<1>1. IsFiniteSet(On(vote)) /\ \A s \in On(vote) : weights[s] \in Int
  BY FS_Subset DEF On
<1> QED BY <1>1, WeightIsSum, SumIsInt

Sounds(verdict) == verdict.confidence \in 1..5

(* Every detector reports a confidence between 1 and 5, with or without a  *)
(* pattern.                                                                *)
LEMMA BreakoutSounds == ASSUME NEW b \in Bar, NEW m PROVE Sounds(Breakout(b, m))
<1> PICK vote : vote = BreakoutVote(b, m)
  OBVIOUS
<1>1. DOMAIN vote = {"structure", "volume", "obv", "squeeze", "retest"}
  BY DEF BreakoutVote
<1>2. IsFiniteSet(DOMAIN vote)
  <2>1. IsFiniteSet({"structure", "volume", "obv", "squeeze", "retest"})
    BY ONLY FiveAreFinite
  <2> QED BY ONLY <1>1, <2>1
<1>3. Weight(vote, BreakoutWeights) \in Int
  BY <1>1, <1>2, WeightIsInt DEF BreakoutWeights
<1> QED BY <1>3, ConfidenceBounds DEF Breakout, Sounds, Verdict

(* This is market-breakout; so do market-accumulation,                     *)
LEMMA AccumulationSounds == ASSUME NEW b \in Bar, NEW m PROVE Sounds(Accumulation(b, m))
<1> PICK vote : vote = AccumulationVote(b, m)
  OBVIOUS
<1>1. DOMAIN vote = {"spring", "absorption", "strength", "reaccum", "lowVol"}
  BY DEF AccumulationVote
<1>2. IsFiniteSet(DOMAIN vote)
  <2>1. IsFiniteSet({"spring", "absorption", "strength", "reaccum", "lowVol"})
    BY ONLY FiveAreFinite
  <2> QED BY ONLY <1>1, <2>1
<1>3. Weight(vote, AccumulationWeights) \in Int
  BY <1>1, <1>2, WeightIsInt DEF AccumulationWeights
<1> QED BY <1>3, ConfidenceBounds DEF Accumulation, Sounds, Verdict, NoVerdict

(* exhaustion-climax,                                                      *)
LEMMA ExhaustionSounds == ASSUME NEW b \in Bar PROVE Sounds(Exhaustion(b))
<1> PICK vote : vote = ExhaustionVote(b)
  OBVIOUS
<1>1. DOMAIN vote = {"climax", "extreme", "narrow", "divergence", "divergence"}
  BY DEF ExhaustionVote
<1>2. IsFiniteSet(DOMAIN vote)
  <2>1. IsFiniteSet({"climax", "extreme", "narrow", "divergence", "divergence"})
    BY ONLY FiveAreFinite
  <2> QED BY ONLY <1>1, <2>1
<1>3. Weight(vote, ExhaustionWeights) \in Int
  BY <1>1, <1>2, WeightIsInt DEF ExhaustionWeights
<1> QED BY <1>3, ConfidenceBounds DEF Exhaustion, Sounds, Verdict, NoVerdict

(* market-liquidity-sweep,                                                 *)
LEMMA SweepSounds == ASSUME NEW b \in Bar PROVE Sounds(Sweep(b))
<1> PICK vote : vote = SweepVote(b)
  OBVIOUS
<1>1. DOMAIN vote = {"wick", "reclaim", "swing", "volume", "volume"}
  BY DEF SweepVote
<1>2. IsFiniteSet(DOMAIN vote)
  <2>1. IsFiniteSet({"wick", "reclaim", "swing", "volume", "volume"})
    BY ONLY FiveAreFinite
  <2> QED BY ONLY <1>1, <2>1
<1>3. Weight(vote, SweepWeights) \in Int
  BY <1>1, <1>2, WeightIsInt DEF SweepWeights
<1> QED BY <1>3, ConfidenceBounds DEF Sweep, Sounds, Verdict, NoVerdict

Alignments == {"FULL_BULL", "PARTIAL_BULL", "TANGLED", "PARTIAL_BEAR", "FULL_BEAR"}

(* and market-trend-quality.                                               *)
LEMMA QualitySounds ==
  ASSUME NEW b \in Bar, NEW m, m.alignment \in Alignments PROVE Sounds(TrendQuality(b, m))
<1> PICK shares : shares = QualityShares(b, m)
  OBVIOUS
<1> DEFINE D == {"ema", "swings", "pullback", "impulse", "volume"}
<1>1. b.fib \in {"near", "mid", "far"} /\ b.impulse \in {"bounce", "drop", "slowing", "none"}
  BY DEF Bar
<1>2. shares.ema \in Int
  BY DEF QualityShares, Alignments
<1>3. shares.swings \in Int /\ shares.pullback \in Int /\ shares.impulse \in Int
  BY <1>1 DEF QualityShares
<1>4. shares.volume \in Int
  BY DEF QualityShares, VolumeShare
<1>5. DOMAIN QualityWeights = D
  BY DEF QualityWeights
<1>6. \A s \in D : shares[s] \in Int
  BY <1>2, <1>3, <1>4
<1>7. IsFiniteSet(D)
  BY FiveAreFinite
<1>8. SignedScore(b, m) = SumFunctionOnSet(shares, D)
  <2>1. SignedScore(b, m) = SumFunctionOnSet(QualityShares(b, m), DOMAIN QualityWeights)
    BY DEF SignedScore, MapThenSumSet, SumFunctionOnSet, FoldFunctionOnSet
  <2> QED BY <1>5, <2>1
<1>9. SignedScore(b, m) \in Int
  BY <1>6, <1>7, <1>8, SumIsInt
<1>10. Magnitude(SignedScore(b, m)) \in Int
  BY <1>9 DEF Magnitude
<1> QED BY <1>10, ConfidenceBounds DEF TrendQuality, Sounds, Verdict, NoVerdict

(* The trend of a bar is one of the alignments.                            *)
LEMMA TrendTypes ==
  ASSUME NEW b \in Bar PROVE MarketTrend(b).alignment \in Alignments
  BY DEF MarketTrend, Alignment, Alignments

(* All of a bar's readings.                                                *)
Heard(r) ==
  /\ Sounds(r.quality) /\ Sounds(r.breakout) /\ Sounds(r.accumulation)
  /\ Sounds(r.exhaustion) /\ Sounds(r.sweep)

(* What the strategies read of a bar are such verdicts.                    *)
LEMMA ReadingsSound == ASSUME NEW b \in Bar PROVE Heard(Readings(b, MarketTrend(b)))
<1> PICK m : m = MarketTrend(b)
  OBVIOUS
<1>1. m.alignment \in Alignments
  BY TrendTypes
<1>2. /\ Sounds(TrendQuality(b, m)) /\ Sounds(Breakout(b, m)) /\ Sounds(Accumulation(b, m))
      /\ Sounds(Exhaustion(b)) /\ Sounds(Sweep(b))
  BY <1>1, QualitySounds, BreakoutSounds, AccumulationSounds, ExhaustionSounds, SweepSounds
<1> QED BY <1>2 DEF Heard, Readings

-----------------------------------------------------------------------------
(* Every idea a strategy builds is bracketed, whatever it hears *)

Ladders == {<<3, 5, 8>>, <<2, 4, 6>>, <<4, 6, 10>>, <<4, 6, 8>>}

(* Ideas as the strategies make them: none at all,                         *)
LEMMA NoneIsBracketed == << >> \in Seq(Brackets)
OBVIOUS

(* one with a stop at a level,                                             *)
LEMMA AnyIsBracketed ==
  ASSUME NEW dir \in Side, NEW conviction \in 1..5, NEW entry \in Int, NEW stop \in Int,
         NEW halves \in Ladders, NEW clamped \in BOOLEAN, NEW level \in Int
  PROVE  <<Idea(dir, conviction, entry, stop, halves, clamped, level)>> \in Seq(Brackets)
<1>1. PICK h \in {2, 3, 4}, h2 \in Nat, h3 \in Nat : halves = <<h, h2, h3>>
  BY DEF Ladders
<1>2. conviction \in Int /\ conviction <= 5
  OBVIOUS
<1>3. Idea(dir, conviction, entry, stop, <<h, h2, h3>>, clamped, level) \in Brackets
  BY <1>2, IdeaIsBracketed
<1> QED BY <1>1, <1>3

(* one with a stop some ATRs away.                                         *)
LEMMA AtrIsBracketed ==
  ASSUME NEW b \in Bar, NEW dir \in Side, NEW conviction \in 1..5, NEW atrHalves \in Nat,
         NEW halves \in Ladders, NEW clamped \in BOOLEAN
  PROVE  <<AtrIdea(b, dir, conviction, atrHalves, halves, clamped)>> \in Seq(Brackets)
<1>1. b.close \in Int /\ b.atr \in Int
  BY DEF Bar
<1>2. b.atr * atrHalves \in Int
  BY <1>1
<1>3. b.close - Sign(dir) * ((b.atr * atrHalves) \div 2) \in Int
  BY <1>1, <1>2 DEF Sign
<1> QED BY <1>1, <1>3, AnyIsBracketed DEF AtrIdea

(* Each strategy makes ideas of these forms: trend-follow,                 *)
LEMMA TrendFollowIsBracketed ==
  ASSUME NEW b \in Bar, NEW r, Heard(r) PROVE TrendFollow(b, r) \in Seq(Brackets)
<1> PICK halves \in Ladders : halves = <<3, 5, 8>>
  BY DEF Ladders
<1> PICK c \in 1..5 : c = r.quality.confidence
  BY DEF Heard, Sounds
<1> PICK less : less = Clip(1, c - 1, 5)
  OBVIOUS
<1>1. less \in 1..5
  BY ClipBounds
<1>2. \A x \in 1..5 : \A dir \in Side : <<AtrIdea(b, dir, x, 4, halves, TRUE)>> \in Seq(Brackets)
  BY AtrIsBracketed
<1>3. \A x \in {c, less} : \A dir \in {"long", "short"} :
        <<AtrIdea(b, dir, x, 4, halves, TRUE)>> \in Seq(Brackets)
  BY <1>1, <1>2 DEF Side
<1>5. \/ TrendFollow(b, r) = << >>
      \/ \E x \in {c, less}, dir \in {"long", "short"} :
           TrendFollow(b, r) = <<AtrIdea(b, dir, x, 4, halves, TRUE)>>
  BY DEF TrendFollow
<1> QED BY ONLY <1>3, <1>5, NoneIsBracketed

(* mean-reversion,                                                         *)
LEMMA MeanReversionIsBracketed ==
  ASSUME NEW b \in Bar PROVE MeanReversion(b) \in Seq(Brackets)
<1> PICK halves \in Ladders : halves = <<2, 4, 6>>
  BY DEF Ladders
<1>1. b.close \in Int /\ b.atr \in Int /\ b.support \in Int /\ b.resistance \in Int
  BY DEF Bar
<1>2. \A c \in {2, 3} : \A dir \in {"long", "short"} : \A stop \in Int : \A level \in Int :
        <<Idea(dir, c, b.close, stop, halves, TRUE, IF level = Unknown THEN b.close ELSE level)>> \in Seq(Brackets)
  <2> TAKE c \in {2, 3}, dir \in {"long", "short"}, stop \in Int, level \in Int
  <2>1. (IF level = Unknown THEN b.close ELSE level) \in Int
    BY <1>1
  <2>2. c \in 1..5 /\ dir \in Side
    BY DEF Side
  <2> QED BY <1>1, <2>1, <2>2, AnyIsBracketed
<1> PICK c \in {2, 3} : c = IF b.regime = "LOW" THEN 3 ELSE 2
  OBVIOUS
<1> DEFINE up == <<Idea("long", c, b.close, b.support - b.atr, halves, TRUE,
                        IF b.resistance = Unknown THEN b.close ELSE b.resistance)>>
           down == <<Idea("short", c, b.close, b.resistance + b.atr, halves, TRUE,
                          IF b.support = Unknown THEN b.close ELSE b.support)>>
<1>3. up \in Seq(Brackets) /\ down \in Seq(Brackets) /\ << >> \in Seq(Brackets)
  <2>1. b.support - b.atr \in Int /\ b.resistance + b.atr \in Int
    BY <1>1
  <2>2. up \in Seq(Brackets)
    BY ONLY <1>1, <1>2, <2>1, c \in {2, 3}
  <2>3. down \in Seq(Brackets)
    BY ONLY <1>1, <1>2, <2>1, c \in {2, 3}
  <2> QED BY <2>2, <2>3, NoneIsBracketed
<1>4. \E x \in {up, << >>} : \E y \in {down, << >>} : MeanReversion(b) = x \o y
  <2>1. PICK x \in {up, << >>} :
          x = IF (/\ b.rsi # Unknown /\ b.rsi <= 30 /\ b.support # Unknown /\ 50 * b.close <= 51 * b.support)
              THEN up ELSE << >>
    OBVIOUS
  <2>2. PICK y \in {down, << >>} :
          y = IF (/\ b.rsi # Unknown /\ b.rsi >= 70 /\ b.resistance # Unknown /\ 50 * b.close >= 49 * b.resistance)
              THEN down ELSE << >>
    OBVIOUS
  <2>3. MeanReversion(b) = x \o y
    BY <2>1, <2>2 DEF MeanReversion
  <2> QED BY <2>3
<1> HIDE DEF up, down
<1>5. PICK x \in {up, << >>}, y \in {down, << >>} : MeanReversion(b) = x \o y
  BY <1>4
<1>6. x \in Seq(Brackets) /\ y \in Seq(Brackets)
  BY <1>3
<1> QED BY <1>5, <1>6, ElemsOfConcat

(* breakout-confirm,                                                       *)
LEMMA BreakoutConfirmIsBracketed ==
  ASSUME NEW b \in Bar, NEW r, Heard(r) PROVE BreakoutConfirm(b, r) \in Seq(Brackets)
<1> PICK halves \in Ladders : halves = <<3, 5, 8>>
  BY DEF Ladders
<1> PICK dir : dir = Direction(r.trend)
  OBVIOUS
<1>1. dir \in Side \cup {"none"}
  BY DEF Direction, Side
<1> PICK c : c = Clip(1, r.breakout.confidence + (IF SqueezeSide(b) = dir THEN 1 ELSE 0), 5)
  OBVIOUS
<1>2. c \in 1..5
  BY ClipBounds DEF Heard, Sounds
<1>3. BreakoutConfirm(b, r) = << >> \/ (dir # "none" /\ BreakoutConfirm(b, r) = <<AtrIdea(b, dir, c, 3, halves, FALSE)>>)
  BY DEF BreakoutConfirm
<1>4. CASE dir # "none"
  <2>1. <<AtrIdea(b, dir, c, 3, halves, FALSE)>> \in Seq(Brackets)
    BY <1>1, <1>2, <1>4, AtrIsBracketed
  <2> QED BY <1>3, <2>1, NoneIsBracketed
<1> QED BY <1>3, <1>4, NoneIsBracketed

(* accumulation-swing,                                                     *)
LEMMA AccumulationSwingIsBracketed ==
  ASSUME NEW b \in Bar, NEW r, Heard(r) PROVE AccumulationSwing(b, r) \in Seq(Brackets)
<1> PICK halves \in Ladders : halves = <<4, 6, 10>>
  BY DEF Ladders
<1> PICK c : c = Clip(1, r.accumulation.confidence + (IF r.quality.class = "HEALTHY_UPTREND" THEN 2 ELSE 0), 5)
  OBVIOUS
<1>1. c \in 1..5
  BY ClipBounds DEF Heard, Sounds
<1>2. <<AtrIdea(b, "long", c, 3, halves, TRUE)>> \in Seq(Brackets)
  BY <1>1, AtrIsBracketed DEF Side
<1>3. AccumulationSwing(b, r) \in {<<AtrIdea(b, "long", c, 3, halves, TRUE)>>, << >>}
  BY DEF AccumulationSwing
<1> QED BY <1>2, <1>3, NoneIsBracketed

(* exhaustion-fade,                                                        *)
LEMMA ExhaustionFadeIsBracketed ==
  ASSUME NEW b \in Bar, NEW r, Heard(r) PROVE ExhaustionFade(b, r) \in Seq(Brackets)
<1> PICK halves \in Ladders : halves = <<2, 4, 6>>
  BY DEF Ladders
<1> PICK c \in 1..5 : c = r.exhaustion.confidence
  BY DEF Heard, Sounds
<1>1. \A dir \in {"long", "short"} : <<AtrIdea(b, dir, c, 3, halves, TRUE)>> \in Seq(Brackets)
  BY AtrIsBracketed DEF Side
<1>2. ExhaustionFade(b, r) \in {<<AtrIdea(b, dir, c, 3, halves, TRUE)>> : dir \in {"long", "short"}} \cup {<< >>}
  BY DEF ExhaustionFade
<1> QED BY <1>1, <1>2, NoneIsBracketed

(* funding-carry,                                                          *)
LEMMA FundingCarryIsBracketed ==
  ASSUME NEW b \in Bar PROVE FundingCarry(b) \in Seq(Brackets)
<1> PICK halves \in Ladders : halves = <<3, 5, 8>>
  BY DEF Ladders
<1>1. \A c \in {2, 3, 4} : \A dir \in {"long", "short"} : <<AtrIdea(b, dir, c, 4, halves, TRUE)>> \in Seq(Brackets)
  <2> TAKE c \in {2, 3, 4}, dir \in {"long", "short"}
  <2>1. c \in 1..5 /\ dir \in Side
    BY DEF Side
  <2> QED BY <2>1, AtrIsBracketed
<1>2. \/ FundingCarry(b) = << >>
      \/ \E c \in {2, 3, 4}, dir \in {"long", "short"} : FundingCarry(b) = <<AtrIdea(b, dir, c, 4, halves, TRUE)>>
  <2> PICK c \in {2, 3, 4} :
        c = IF Magnitude(b.funding) >= 100 THEN 4 ELSE IF Magnitude(b.funding) >= 50 THEN 3 ELSE 2
    OBVIOUS
  <2> PICK dir \in {"long", "short"} : dir = IF b.funding < 0 THEN "long" ELSE "short"
    OBVIOUS
  <2>1. FundingCarry(b) = <<AtrIdea(b, dir, c, 4, halves, TRUE)>> \/ FundingCarry(b) = << >>
    BY DEF FundingCarry
  <2> QED BY <2>1
<1> QED BY <1>1, <1>2, NoneIsBracketed

(* liquidity-sweep,                                                        *)
LEMMA LiquiditySweepIsBracketed ==
  ASSUME NEW b \in Bar, NEW r, Heard(r) PROVE LiquiditySweep(b, r) \in Seq(Brackets)
<1> PICK halves \in Ladders : halves = <<4, 6, 8>>
  BY DEF Ladders
<1> PICK c : c = IF r.accumulation.class = "none" THEN 2
                 ELSE Clip(1, r.sweep.confidence + r.accumulation.confidence \div 2, 5)
  OBVIOUS
<1>1. c \in 1..5
  <2>1. r.sweep.confidence + r.accumulation.confidence \div 2 \in Int
    BY DEF Heard, Sounds
  <2> QED BY <2>1, ClipBounds
<1>2. <<AtrIdea(b, "long", c, 3, halves, TRUE)>> \in Seq(Brackets)
  BY <1>1, AtrIsBracketed DEF Side
<1>3. LiquiditySweep(b, r) \in {<<AtrIdea(b, "long", c, 3, halves, TRUE)>>, << >>}
  BY DEF LiquiditySweep
<1> QED BY <1>2, <1>3, NoneIsBracketed

(* and so all of them.                                                     *)
LEMMA BuildIsBracketed ==
  ASSUME NEW strategy \in Strategy, NEW b \in Bar, NEW r, Heard(r)
  PROVE  Build(strategy, b, r) \in Seq(Brackets)
BY TrendFollowIsBracketed, MeanReversionIsBracketed, BreakoutConfirmIsBracketed,
   AccumulationSwingIsBracketed, ExhaustionFadeIsBracketed, FundingCarryIsBracketed,
   LiquiditySweepIsBracketed DEF Strategy, Build

(* The downgrades of Pattern S change the conviction alone.                *)
LEMMA PatternSKeeps ==
  ASSUME NEW i \in Brackets, NEW b, NEW lowest, NEW class
  PROVE  PatternS(i, b, lowest, class) \in Brackets
<1> PICK j : j = PatternS(i, b, lowest, class)
  OBVIOUS
<1>1. i \in IdeaType /\ Bracketed(i)
  BY DEF Brackets
<1>2. \A x \in Int : Clip(1, x, 5) \in 1..5
  BY ClipBounds
<1>3. \E c \in 1..5 : j = [i EXCEPT !.conviction = c]
  <2>1. \E lost \in {0, 1, 2} : j = [i EXCEPT !.conviction = Clip(1, i.conviction - lost, 5)]
    BY <1>1 DEF PatternS, IdeaType
  <2>2. \A lost \in {0, 1, 2} : i.conviction - lost \in Int
    BY <1>1 DEF IdeaType
  <2> QED BY <1>2, <2>1, <2>2
<1> PICK c \in 1..5 : j = [i EXCEPT !.conviction = c]
  BY <1>3
<1>4. /\ j \in IdeaType /\ j.conviction = c /\ j.entry = i.entry /\ j.stop = i.stop
      /\ j.ideal = i.ideal /\ j.tp = i.tp
  BY <1>1 DEF IdeaType
<1>5. Bracketed(j)
  BY <1>1, <1>4 DEF Bracketed
<1> QED BY <1>4, <1>5 DEF Brackets

(* What a strategy lets out is sound, and at least as convinced as the     *)
(* floor.                                                                  *)
Good(floor) == {i \in Brackets : Complaint(i) = "ok" /\ i.conviction >= floor}

(* Finalize keeps the sound ones with enough conviction.                   *)
LEMMA FinalizeIsGood ==
  ASSUME NEW ideas \in Seq(Brackets), NEW floor PROVE Finalize(ideas, floor) \in Seq(Good(floor))
<1> DEFINE parts == [i \in DOMAIN ideas |->
      IF Complaint(ideas[i]) = "ok" /\ ideas[i].conviction >= floor THEN <<ideas[i]>> ELSE <<>>]
<1>1. ASSUME NEW i \in DOMAIN ideas PROVE parts[i] \in Seq(Good(floor))
  <2>1. ideas[i] \in Brackets
    BY <1>1
  <2>2. CASE Complaint(ideas[i]) = "ok" /\ ideas[i].conviction >= floor
    <3>1. ideas[i] \in Good(floor)
      BY <2>1, <2>2 DEF Good
    <3> QED BY <2>2, <3>1
  <2>3. CASE ~(Complaint(ideas[i]) = "ok" /\ ideas[i].conviction >= floor)
    BY <2>3
  <2> QED BY <2>2, <2>3
<1>2. DOMAIN ideas = 1..Len(ideas) /\ Len(ideas) \in Nat
  OBVIOUS
<1>3. parts \in Seq(Seq(Good(floor)))
  <2>1. parts \in [1..Len(ideas) -> Seq(Good(floor))]
    BY <1>1, <1>2
  <2> HIDE DEF parts
  <2> QED BY <1>2, <2>1
<1>4. FlattenSeq(parts) \in Seq(Good(floor))
  <2> HIDE DEF parts
  <2> QED BY <1>3, FlattenElems
<1> QED BY <1>4 DEF Finalize

(* and so are those a strategy finds in a bar,                             *)
LEMMA AnalyzeIsGood ==
  ASSUME NEW strategy \in Strategy, NEW b \in Bar, NEW r, Heard(r), NEW lowest, NEW class, NEW floor
  PROVE  Analyze(strategy, b, r, lowest, class, floor) \in Seq(Good(floor))
<1> PICK built : built = Build(strategy, b, r)
  OBVIOUS
<1>1. built \in Seq(Brackets)
  BY BuildIsBracketed
<1> PICK tagged : tagged = IF strategy = "trend_follow"
       THEN [k \in DOMAIN built |-> PatternS(built[k], b, lowest, class)] ELSE built
  OBVIOUS
<1>2. tagged \in Seq(Brackets)
  <2>1. \A k \in 1..Len(built) : PatternS(built[k], b, lowest, class) \in Brackets
    BY <1>1, PatternSKeeps
  <2>2. DOMAIN built = 1..Len(built) /\ Len(built) \in Nat
    BY <1>1
  <2>3. [k \in DOMAIN built |-> PatternS(built[k], b, lowest, class)] \in [1..Len(built) -> Brackets]
    BY <2>1, <2>2
  <2>4. [k \in DOMAIN built |-> PatternS(built[k], b, lowest, class)] \in Seq(Brackets)
    BY <2>2, <2>3
  <2> QED BY <1>1, <2>4
<1>3. Analyze(strategy, b, r, lowest, class, floor) = Finalize(tagged, floor)
  BY DEF Analyze
<1> QED BY <1>2, <1>3, FinalizeIsGood

(* so that the first of them, if there is one, can be traded.              *)
LEMMA FirstIsTradeable ==
  ASSUME NEW strategy \in Strategy, NEW b \in Bar, NEW r, Heard(r), NEW lowest, NEW class, NEW floor \in Int,
         NEW i, i = FirstIdea(Analyze(strategy, b, r, lowest, class, floor))
  PROVE  i = NoIdea \/ Tradeable(i, floor)
<1> PICK out : out = Analyze(strategy, b, r, lowest, class, floor)
  OBVIOUS
<1>1. out \in Seq(Good(floor)) /\ i = FirstIdea(out)
  BY AnalyzeIsGood
<1>2. CASE out = << >>
  BY <1>1, <1>2 DEF FirstIdea
<1>3. CASE out # << >>
  <2>1. i = out[1] /\ out[1] \in Good(floor)
    BY <1>1, <1>3 DEF FirstIdea
  <2>2. i \in Brackets /\ Complaint(i) = "ok" /\ i.conviction >= floor
    BY <2>1 DEF Good
  <2> QED BY <2>2, SoundIsTradeable
<1> QED BY <1>2, <1>3

-----------------------------------------------------------------------------
(* The replay *)

(* The first idea at bar t of a series.                                    *)
Proposal(p, series, t) ==
  FirstIdea(Analyze(p.strategy, series[t], Readings(series[t], MarketTrend(series[t])),
                    LowestClose(p, series, t), p.class, p.floor))
Proposals(p, series, n) == [j \in 1..n |-> Proposal(p, series, p.warmup + j)]
Replayed(p, series) == Fills(Proposals(p, series, Len(series) - p.warmup), p, series)

(* The report of the trades of a series.                                   *)
Reported(p, series, trades) ==
  [strategy |-> Compute(trades, Curve(trades, p, Len(series))),
   curve |-> Curve(trades, p, Len(series)), benchmark |-> Benchmark(p, series)]

(* What is known of the invocation after any number of steps: the windows  *)
(* are the proposals of the bars walked so far, the trades of a complete   *)
(* replay those of all of them, and the trades of the last run those of    *)
(* the same series without its last bar.                                   *)
BarsInv ==
  /\ plan \in Plans /\ bars \in Seq(Bar)
  /\ phase \in {"fetch", "replay", "replayed", "filled", "ended"}
  /\ phase \in {"replay", "replayed", "filled"} \/ report # <<>> \/ windows # <<>>
       => Len(bars) > plan.warmup
WindowsInv ==
  /\ Len(windows) \in Nat
  /\ windows = Proposals(plan, bars, Len(windows))
  /\ phase = "fetch" => windows = <<>>
  /\ windows # <<>> => Len(windows) <= Len(bars) - plan.warmup
  /\ phase = "replay" => Len(windows) < Len(bars) - plan.warmup
  /\ phase \in {"replayed", "filled"} \/ report # <<>> \/ records # <<>>
       => Len(windows) = Len(bars) - plan.warmup
  /\ readings # <<>> => phase = "replay" /\ readings = <<Readings(bars[Current], MarketTrend(bars[Current]))>>
Drilled ==
  \E j \in WithIdea : plan.warmup + j < Len(bars)
                   /\ records = <<Simulate(windows[j], plan.warmup + j, bars)>>
RecordsInv ==
  /\ records = <<>> \/ (phase \in {"filled", "ended"} /\ records = Replayed(plan, bars))
       \/ (phase = "ended" /\ report = <<>> /\ Drilled)
  /\ phase = "filled" => records = Replayed(plan, bars)
  /\ report # <<>> => /\ phase = "ended" /\ records = Replayed(plan, bars)
                      /\ report = <<Reported(plan, bars, records)>>
EarlierInv ==
  \/ earlier = <<>>
  \/ /\ phase # "fetch" /\ Len(bars) > plan.warmup + 1
     /\ earlier = Replayed(plan, Front(bars))
ReplayInv == BarsInv /\ WindowsInv /\ RecordsInv /\ EarlierInv

(* The windows of a replay, one for each bar after the warm-up.            *)
LEMMA ProposalsAre ==
  ASSUME NEW p, NEW series, NEW n \in Nat
  PROVE  /\ Len(Proposals(p, series, n)) = n /\ DOMAIN Proposals(p, series, n) = 1..n
         /\ \A j \in 1..n : Proposals(p, series, n)[j] = Proposal(p, series, p.warmup + j)
BY DEF Proposals

(* Before the first bar there is none,                                     *)
LEMMA NoProposals == ASSUME NEW p, NEW series PROVE Proposals(p, series, 0) = << >>
BY DEF Proposals

(* and each bar adds its own.                                              *)
LEMMA ProposalsGrow ==
  ASSUME NEW p, NEW series, NEW n \in Nat, NEW i, i = Proposal(p, series, p.warmup + n + 1), p.warmup \in Nat
  PROVE  Append(Proposals(p, series, n), i) = Proposals(p, series, n + 1)
<1> PICK V : V = {Proposal(p, series, p.warmup + j) : j \in 1..(n + 1)}
  OBVIOUS
<1> PICK old : old = Proposals(p, series, n)
  OBVIOUS
<1> PICK new : new = Proposals(p, series, n + 1)
  OBVIOUS
<1>1. Len(old) = n /\ DOMAIN old = 1..n /\ \A j \in 1..n : old[j] = Proposal(p, series, p.warmup + j)
  BY ProposalsAre
<1>2. Len(new) = n + 1 /\ \A j \in 1..(n + 1) : new[j] = Proposal(p, series, p.warmup + j)
  BY ProposalsAre
<1>3. old \in Seq(V) /\ new \in Seq(V)
  BY DEF Proposals
<1>4. i \in V /\ p.warmup + n + 1 = p.warmup + (n + 1)
  OBVIOUS
<1>5. Append(old, i) \in Seq(V) /\ Len(Append(old, i)) = n + 1
      /\ \A j \in 1..(n + 1) : Append(old, i)[j] = IF j <= n THEN old[j] ELSE i
  BY <1>1, <1>3, <1>4
<1>6. \A j \in 1..(n + 1) : Append(old, i)[j] = new[j]
  BY <1>1, <1>2, <1>4, <1>5
<1>7. Append(old, i) = new
  <2> PICK app : app = Append(old, i)
    OBVIOUS
  <2>1. app \in Seq(V) /\ Len(app) = n + 1 /\ \A j \in 1..(n + 1) : app[j] = new[j]
    BY <1>5, <1>6
  <2> QED BY <1>2, <1>3, <2>1, SeqEqual
<1> QED BY <1>7

(* What a plan is made of.                                                 *)
LEMMA PlanTypes ==
  ASSUME NEW p \in Plans
  PROVE  /\ p.warmup \in Nat /\ p.length \in Nat /\ p.floor \in 1..99 /\ p.strategy \in Strategy /\ p.lowest \in Nat
         /\ Feed(p.feed) \subseteq Bar
BY BacktestAssumption DEF Plan

(* The invariant holds at the start,                                       *)
LEMMA InitInv == Init => ReplayInv
<1> SUFFICES ASSUME Init PROVE ReplayInv
  OBVIOUS
<1>1. Proposals(plan, bars, 0) = << >>
  BY NoProposals
<1> QED BY <1>1 DEF Init, ReplayInv, BarsInv, WindowsInv, RecordsInv, EarlierInv

(* and after every step: the fetch of the bars,                            *)
LEMMA FetchInv == ReplayInv /\ Fetch => ReplayInv'
<1> SUFFICES ASSUME ReplayInv, Fetch PROVE ReplayInv'
  OBVIOUS
<1>1. plan \in Plans /\ bars \in Seq(Bar) /\ phase = "fetch" /\ windows = << >> /\ readings = << >>
      /\ report = << >> /\ records = << >>
  BY DEF ReplayInv, BarsInv, WindowsInv, RecordsInv, Fetch
<1>2. earlier = << >>
  BY <1>1 DEF ReplayInv, EarlierInv, Fetch
<1>3. PICK bar \in Bar : bars' = Append(bars, bar)
  BY <1>1, PlanTypes DEF Fetch
<1>4. Proposals(plan, bars', 0) = << >>
  BY NoProposals
<1> QED BY <1>1, <1>2, <1>3, <1>4 DEF ReplayInv, BarsInv, WindowsInv, RecordsInv, EarlierInv, Fetch

(* the refusal of a history too short,                                     *)
LEMMA ShortInv == ReplayInv /\ NothingToReplay => ReplayInv'
BY DEF ReplayInv, BarsInv, WindowsInv, RecordsInv, EarlierInv, NothingToReplay, End

(* the start of the walk,                                                  *)
LEMMA StartInv == ReplayInv /\ StartReplay => ReplayInv'
<1> SUFFICES ASSUME ReplayInv, StartReplay PROVE ReplayInv'
  OBVIOUS
<1>1. plan.warmup \in Nat /\ Len(bars) \in Nat /\ Len(windows) = 0 /\ windows = << >>
  BY PlanTypes DEF ReplayInv, BarsInv, WindowsInv, StartReplay
<1> QED BY <1>1 DEF ReplayInv, BarsInv, WindowsInv, RecordsInv, EarlierInv, StartReplay

(* the reading of a bar,                                                   *)
LEMMA ReadInv == ReplayInv /\ Read => ReplayInv'
BY DEF ReplayInv, BarsInv, WindowsInv, RecordsInv, EarlierInv, Read, Current

(* the window made of it,                                                  *)
LEMMA WalkInv == ReplayInv /\ Walk => ReplayInv'
<1> SUFFICES ASSUME ReplayInv, Walk PROVE ReplayInv'
  OBVIOUS
<1> PICK n \in Nat : n = Len(windows)
  BY DEF ReplayInv, WindowsInv
<1>1. /\ plan.warmup \in Nat /\ Len(bars) \in Nat /\ windows = Proposals(plan, bars, n)
      /\ n < Len(bars) - plan.warmup /\ readings[1] = Readings(bars[Current], MarketTrend(bars[Current]))
      /\ Current = plan.warmup + n + 1
  BY PlanTypes DEF ReplayInv, BarsInv, WindowsInv, Walk, Current
<1>2. windows' = Append(windows, Proposal(plan, bars, plan.warmup + n + 1))
  BY <1>1 DEF Walk, Proposal
<1>3. windows' = Proposals(plan, bars, n + 1)
  BY <1>1, <1>2, ProposalsGrow
<1>4. Len(windows') = n + 1
  BY <1>3, ProposalsAre
<1>5. phase = "replay" /\ report = << >> /\ records = << >>
  BY DEF ReplayInv, RecordsInv, Walk
<1>6. phase' = IF plan.warmup + n + 1 = Len(bars) THEN "replayed" ELSE "replay"
  BY <1>1 DEF Walk
<1>7. BarsInv'
  BY <1>1, <1>5, <1>6 DEF ReplayInv, BarsInv, Walk
<1>8. WindowsInv'
  <2>1. phase' = "replay" => n + 1 < Len(bars) - plan.warmup
    BY <1>1, <1>6
  <2>2. phase' = "replayed" => n + 1 = Len(bars) - plan.warmup
    BY <1>1, <1>6
  <2>3. n + 1 <= Len(bars) - plan.warmup
    BY <1>1
  <2> QED BY <1>3, <1>4, <1>5, <1>6, <2>1, <2>2, <2>3 DEF Walk, WindowsInv
<1>9. RecordsInv'
  BY <1>5, <1>6 DEF RecordsInv, Walk
<1>10. EarlierInv'
  BY <1>6 DEF ReplayInv, EarlierInv, Walk
<1> QED BY <1>7, <1>8, <1>9, <1>10 DEF ReplayInv

(* the count without a drill,                                              *)
LEMMA CountInv == ReplayInv /\ CountOnly => ReplayInv'
BY DEF ReplayInv, BarsInv, WindowsInv, RecordsInv, EarlierInv, CountOnly, End

(* All bars were walked.                                                   *)
LEMMA AllWalked ==
  ASSUME ReplayInv, phase \in {"replayed", "filled"} \/ report # <<>>
  PROVE  Fills(windows, plan, bars) = Replayed(plan, bars)
BY DEF ReplayInv, WindowsInv, Replayed

(* the drill into one bar,                                                 *)
LEMMA DrillInv == ReplayInv /\ (\E t \in 0..plan.length : Drill(t)) => ReplayInv'
<1> SUFFICES ASSUME ReplayInv, NEW t \in 0..plan.length, Drill(t) PROVE ReplayInv'
  OBVIOUS
<1>1. /\ phase = "replayed" /\ phase' = "ended" /\ report = << >>
      /\ UNCHANGED <<plan, bars, readings, windows, report, earlier>>
  BY DEF Drill, End, ReplayInv, RecordsInv
<1>2. RecordsInv'
  <2> PICK w : w = t - plan.warmup
    OBVIOUS
  <2>1. CASE w \in DOMAIN windows /\ windows[w] # NoIdea /\ t < Len(bars)
    <3>1. w \in WithIdea /\ plan.warmup + w = t
      BY <2>1, <1>1, PlanTypes DEF WithIdea, ReplayInv, BarsInv
    <3>2. records' = <<Simulate(windows[w], t, bars)>>
      BY <2>1 DEF Drill
    <3>3. Drilled'
      BY <1>1, <2>1, <3>1, <3>2 DEF Drilled, WithIdea
    <3> QED BY <1>1, <3>3 DEF RecordsInv
  <2>2. CASE ~(w \in DOMAIN windows /\ windows[w] # NoIdea /\ t < Len(bars))
    <3>1. records' = << >>
      BY <2>2 DEF Drill
    <3> QED BY <1>1, <3>1 DEF RecordsInv
  <2> QED BY <2>1, <2>2
<1> QED BY <1>1, <1>2 DEF ReplayInv, BarsInv, WindowsInv, EarlierInv

(* the filling of the trades,                                              *)
LEMMA FillInv == ReplayInv /\ FillSim => ReplayInv'
<1> SUFFICES ASSUME ReplayInv, FillSim PROVE ReplayInv'
  OBVIOUS
<1>1. records' = Replayed(plan, bars)
  BY AllWalked DEF FillSim
<1> QED BY <1>1 DEF ReplayInv, BarsInv, WindowsInv, RecordsInv, EarlierInv, FillSim

(* their measurement,                                                      *)
LEMMA MetricsInv == ReplayInv /\ Metrics => ReplayInv'
<1> SUFFICES ASSUME ReplayInv, Metrics PROVE ReplayInv'
  OBVIOUS
<1>1. records = Replayed(plan, bars) /\ phase = "filled"
  BY DEF ReplayInv, RecordsInv, Metrics
<1>2. report' = <<Reported(plan, bars, records)>>
  BY DEF Metrics, Reported
<1> QED BY <1>1, <1>2 DEF ReplayInv, BarsInv, WindowsInv, RecordsInv, EarlierInv, Metrics, End

(* a second replay with one bar more,                                      *)
LEMMA AgainInv == ReplayInv /\ RunAgain => ReplayInv'
<1> SUFFICES ASSUME ReplayInv, RunAgain PROVE ReplayInv'
  OBVIOUS
<1>1. /\ plan \in Plans /\ bars \in Seq(Bar) /\ records = Replayed(plan, bars)
      /\ Len(bars) > plan.warmup /\ phase = "ended" /\ readings = << >>
  BY DEF ReplayInv, BarsInv, RecordsInv, WindowsInv, RunAgain
<1>2. PICK bar \in Bar : bars' = Append(bars, bar)
  BY <1>1, PlanTypes DEF RunAgain
<1>3. bars' \in Seq(Bar) /\ Len(bars') = Len(bars) + 1 /\ Front(bars') = bars
  BY <1>1, <1>2 DEF Front
<1>4. plan.warmup \in Nat /\ Len(bars) \in Nat
  BY <1>1, PlanTypes
<1>5. Len(bars') > plan.warmup + 1 /\ Len(bars') > plan.warmup /\ 0 < Len(bars') - plan.warmup
  BY <1>1, <1>3, <1>4
<1>6. Proposals(plan, bars', 0) = << >>
  BY NoProposals
<1>7. BarsInv'
  BY <1>1, <1>3, <1>5 DEF BarsInv, RunAgain
<1>8. WindowsInv'
  BY <1>1, <1>5, <1>6 DEF WindowsInv, RunAgain
<1>9. RecordsInv'
  BY DEF RecordsInv, RunAgain
<1>10. EarlierInv'
  BY <1>1, <1>3, <1>5 DEF EarlierInv, RunAgain
<1> QED BY <1>7, <1>8, <1>9, <1>10 DEF ReplayInv

(* and a stutter.                                                          *)
LEMMA StillInv == ReplayInv /\ UNCHANGED vars => ReplayInv'
BY DEF ReplayInv, BarsInv, WindowsInv, RecordsInv, EarlierInv, Drilled, WithIdea, Current, vars

(* The windows, the trades and the report are functions of the bars.       *)
THEOREM ReplayIsDetermined == Spec => []ReplayInv
<1>1. Init => ReplayInv
  BY InitInv
<1>2. ReplayInv /\ [Next]_vars => ReplayInv'
  BY FetchInv, ShortInv, StartInv, ReadInv, WalkInv, CountInv, DrillInv, FillInv, MetricsInv, AgainInv, StillInv
     DEF Next
<1> QED BY <1>1, <1>2, PTL DEF Spec

(* What is proposed on a bar can be traded.                                *)
LEMMA ProposalsSound ==
  ASSUME NEW p \in Plans, NEW series \in Seq(Bar), NEW t \in 1..Len(series)
  PROVE  Proposal(p, series, t) = NoIdea \/ Tradeable(Proposal(p, series, t), p.floor)
<1>1. p.strategy \in Strategy /\ p.floor \in Int /\ series[t] \in Bar
  <2>1. p.strategy \in Strategy /\ p.floor \in 1..99
    BY PlanTypes
  <2>2. series[t] \in Bar
    OBVIOUS
  <2>3. \A x \in 1..99 : x \in Int
    OBVIOUS
  <2> QED BY <2>1, <2>2, <2>3
<1>2. Heard(Readings(series[t], MarketTrend(series[t])))
  BY <1>1, ReadingsSound
<1> QED BY <1>1, <1>2, FirstIsTradeable DEF Proposal

(* A window belongs to one bar of the history.                             *)
LEMMA WindowsSound ==
  ASSUME ReplayInv, NEW j \in DOMAIN windows
  PROVE  /\ j \in 1..(Len(bars) - plan.warmup) /\ plan.warmup + j \in 1..Len(bars)
         /\ windows[j] = Proposal(plan, bars, plan.warmup + j)
         /\ windows[j] = NoIdea \/ Tradeable(windows[j], plan.floor)
<1>1. plan \in Plans /\ bars \in Seq(Bar) /\ Len(bars) \in Nat /\ plan.warmup \in Nat
  BY PlanTypes DEF ReplayInv, BarsInv
<1> PICK n \in Nat : n = Len(windows)
  BY DEF ReplayInv, WindowsInv
<1>2. windows = Proposals(plan, bars, n) /\ (windows # << >> => n <= Len(bars) - plan.warmup)
  BY DEF ReplayInv, WindowsInv
<1>3. j \in 1..n /\ windows[j] = Proposal(plan, bars, plan.warmup + j)
  BY <1>2, ProposalsAre
<1>4. windows # << >>
  BY <1>3
<1>5. plan.warmup + j \in 1..Len(bars) /\ j \in 1..(Len(bars) - plan.warmup)
  BY <1>1, <1>2, <1>3, <1>4
<1> QED BY <1>1, <1>3, <1>5, ProposalsSound

(* Every idea a strategy lets out of finalize_ideas has its stop on the    *)
(* losing side and at least 2% away, ordered targets beyond the entry, the *)
(* third 5% away, increasing ratios of reward to risk and a conviction at  *)
(* least the floor, whatever the bars and however a tie is rounded.        *)
THEOREM IdeasTradeable == Spec => []IdeasAreTradeable
<1>1. ReplayInv => IdeasAreTradeable
  <2> SUFFICES ASSUME ReplayInv, NEW j \in WithIdea PROVE Tradeable(windows[j], plan.floor)
    BY DEF IdeasAreTradeable, Tradeable
  <2>1. j \in DOMAIN windows /\ windows[j] # NoIdea
    BY DEF WithIdea
  <2> QED BY <2>1, WindowsSound
<1> QED BY <1>1, ReplayIsDetermined, PTL

-----------------------------------------------------------------------------
(* Simulated trades *)

EntryIsInt(b, dir) == EntryPrice(dir, b.open) \in Int /\ Fee(EntryPrice(dir, b.open)) \in Int

(* The entry price is an integer.                                          *)
LEMMA EntryTypes == ASSUME NEW b \in Bar, NEW dir \in Side PROVE EntryIsInt(b, dir)
<1>1. b.open \in Int
  BY DEF Bar
<1> PICK s \in {1, -1} : s = Sign(dir)
  BY DEF Sign
<1>2. (b.open * SlippageBps) \div 10000 \in Int
  <2>1. b.open * SlippageBps \in Int
    BY <1>1, BacktestAssumption
  <2> QED BY <2>1
<1>3. EntryPrice(dir, b.open) \in Int
  BY <1>1, <1>2 DEF EntryPrice
<1>4. Fee(EntryPrice(dir, b.open)) \in Int
  <2>1. EntryPrice(dir, b.open) * FeeBps \in Int
    BY <1>3, BacktestAssumption
  <2> QED BY <2>1 DEF Fee
<1> QED BY <1>3, <1>4 DEF EntryIsInt

(* The bars that end a trade.                                              *)
Touched(idea, t, series) ==
  {i \in (t + 1)..Len(series) : StopHit(idea, series[i]) \/ TargetHit(idea, series[i])}

ExitPrice(r, series) ==
  IF ExitReason(r.idea, series[r.exitBar]) = "stop" THEN r.idea.stop ELSE r.idea.tp[1]

(* What a simulated trade is.                                              *)
Simulated(r, idea, t, series) ==
  LET entry == EntryPrice(idea.dir, series[t + 1].open)
      touched == Touched(idea, t, series)
  IN /\ r.bar = t /\ r.idea = idea /\ r.pnl \in Int
     /\ r.status = "filled" <=> touched # {}
     /\ r.status = "filled" =>
          /\ r.exitBar \in touched /\ \A i \in touched : r.exitBar <= i
          /\ r = Trade(t, idea, "filled", ExitReason(idea, series[r.exitBar]), r.exitBar, r.pnl)
          /\ r.pnl = Sign(idea.dir) * (ExitPrice(r, series) - entry) - Fee(entry)
     /\ r.status # "filled" => r.exitBar = NoBar /\ r.pnl = 0

(* The outcome of a trade, by the bars after its entry.                    *)
LEMMA SimulateIs ==
  ASSUME NEW idea, NEW floor, Tradeable(idea, floor), NEW series \in Seq(Bar), NEW t \in 1..Len(series),
         NEW r, r = Simulate(idea, t, series)
  PROVE  Simulated(r, idea, t, series)
<1> PICK touched : touched = Touched(idea, t, series)
  OBVIOUS
<1>1. CASE touched = {}
  BY <1>1 DEF Simulate, Touched, Trade, Simulated
<1>2. CASE touched # {}
  <2>1. touched \in SUBSET Nat /\ t \in Nat /\ Len(series) \in Nat
    BY DEF Touched
  <2> PICK out : out = Min(touched)
    OBVIOUS
  <2>2. out \in touched /\ \A i \in touched : out <= i
    BY <1>2, <2>1, MinIsIn
  <2>3. t # Len(series) /\ t + 1 \in 1..Len(series) /\ out \in 1..Len(series)
    BY <2>1, <2>2 DEF Touched
  <2>4. series[t + 1] \in Bar
    BY <2>3
  <2> PICK price : price = IF ExitReason(idea, series[out]) = "stop" THEN idea.stop ELSE idea.tp[1]
    OBVIOUS
  <2> PICK entry : entry = EntryPrice(idea.dir, series[t + 1].open)
    OBVIOUS
  <2>5. r = Trade(t, idea, "filled", ExitReason(idea, series[out]), out, Sign(idea.dir) * (price - entry) - Fee(entry))
    BY <1>2, <2>3 DEF Simulate, Touched
  <2>6. price \in Int /\ Sign(idea.dir) \in {1, -1} /\ idea.dir \in Side
    BY DEF Tradeable, Sign
  <2>7. entry \in Int /\ Fee(entry) \in Int
    BY <2>4, <2>6, EntryTypes DEF EntryIsInt
  <2>8. Sign(idea.dir) * (price - entry) - Fee(entry) \in Int
    BY <2>6, <2>7
  <2>9. r.exitBar = out /\ r.idea = idea /\ r.bar = t /\ r.status = "filled"
        /\ r.pnl = Sign(idea.dir) * (price - entry) - Fee(entry)
    BY <2>5 DEF Trade
  <2> QED BY <1>2, <2>2, <2>5, <2>8, <2>9 DEF ExitPrice, Simulated
<1> QED BY <1>1, <1>2

(* The simulated exit is the worse of the two paths through the exit bar.  *)
LEMMA SimulateIsConservative ==
  ASSUME NEW idea, NEW floor, Tradeable(idea, floor), bars \in Seq(Bar), NEW t \in 1..Len(bars),
         NEW r, r = Simulate(idea, t, bars), r.status = "filled",
         Sign(idea.dir) * (bars[r.exitBar].open - idea.stop) > 0, NEW first \in {"stop", "target"}
  PROVE  r.pnl <= RealPnl(r, first)
<1>1. /\ r.bar = t /\ r.idea = idea /\ r.exitBar \in Touched(idea, t, bars)
      /\ r.pnl = Sign(idea.dir) * (ExitPrice(r, bars) - EntryPrice(idea.dir, bars[t + 1].open))
                   - Fee(EntryPrice(idea.dir, bars[t + 1].open))
  BY SimulateIs DEF Simulated
<1> PICK bar : bar = bars[r.exitBar]
  OBVIOUS
<1>2. /\ t + 1 \in 1..Len(bars) /\ r.exitBar \in 1..Len(bars)
      /\ StopHit(idea, bar) \/ TargetHit(idea, bar)
  BY <1>1 DEF Touched
<1>3. bar \in Bar /\ bars[t + 1] \in Bar
  BY <1>2
<1> PICK s \in {1, -1} : s = Sign(idea.dir)
  BY DEF Sign
<1> PICK entry \in Int, fee \in Int :
      entry = EntryPrice(idea.dir, bars[t + 1].open) /\ fee = Fee(EntryPrice(idea.dir, bars[t + 1].open))
  BY <1>3, EntryTypes DEF EntryIsInt, Tradeable
<1> PICK open \in Int : open = bar.open
  BY <1>3 DEF Bar
<1> PICK stop \in Int, tp1 \in Int : stop = idea.stop /\ tp1 = idea.tp[1]
  <2>1. idea.stop \in Int /\ idea.tp \in [1..3 -> Int]
    BY DEF Tradeable
  <2> QED BY ONLY <2>1
<1>4. s * stop < s * tp1 /\ s * (open - stop) > 0
  <2>1. idea.entry \in Int
    BY DEF Tradeable
  <2>2. s * stop < s * idea.entry /\ s * idea.entry < s * tp1
    BY DEF Tradeable
  <2> QED BY <2>1, <2>2
<1> PICK price \in Int : price = ExitPrice(r, bars)
  BY <1>1 DEF ExitPrice
<1> PICK stopFirst \in BOOLEAN : stopFirst = (StopHit(idea, bar) /\ (first = "stop" \/ ~TargetHit(idea, bar)))
  OBVIOUS
<1> PICK real \in Int :
      real = IF s * open <= s * stop \/ s * open >= s * tp1 THEN open ELSE IF stopFirst THEN stop ELSE tp1
  OBVIOUS
<1>5. s * price <= s * real
  <2>1. CASE StopHit(idea, bar)
    <3>1. price = stop
      BY <1>1, <2>1 DEF ExitPrice, ExitReason
    <3> QED BY ONLY <3>1, <1>4, s \in {1, -1}, stop \in Int, tp1 \in Int, open \in Int, real \in {open, stop, tp1}
  <2>2. CASE ~StopHit(idea, bar)
    <3>1. price = tp1 /\ ~stopFirst
      BY <1>1, <2>2 DEF ExitPrice, ExitReason
    <3>2. real = IF s * open <= s * stop \/ s * open >= s * tp1 THEN open ELSE tp1
      BY <3>1
    <3> QED BY ONLY <3>1, <3>2, <1>4, s \in {1, -1}, stop \in Int, tp1 \in Int, open \in Int
  <2> QED BY <2>1, <2>2
<1>6. r.pnl = s * (price - entry) - fee
  BY <1>1
<1>7. RealPnl(r, first) = s * (real - entry) - fee
  BY <1>1 DEF RealPnl
<1> QED BY ONLY <1>5, <1>6, <1>7, s \in {1, -1}, price \in Int, real \in Int, entry \in Int, fee \in Int

-----------------------------------------------------------------------------
(* The trades of a replay *)

(* The bars of the windows with an idea, in order.                         *)
FiredAt(ws) == FlattenSeq([j \in DOMAIN ws |-> IF ws[j] = NoIdea THEN <<>> ELSE <<j>>])

(* The windows that have an idea, in their order.                          *)
LEMMA FiredAtIs ==
  ASSUME NEW ws, NEW n \in Nat, DOMAIN ws = 1..n
  PROVE  FiredAt(ws) \in Seq({j \in 1..n : ws[j] # NoIdea})
<1> DEFINE V == {j \in 1..n : ws[j] # NoIdea}
           parts == [j \in DOMAIN ws |-> IF ws[j] = NoIdea THEN << >> ELSE <<j>>]
<1>1. \A j \in 1..n : parts[j] \in Seq(V)
  <2> TAKE j \in 1..n
  <2>1. CASE ws[j] = NoIdea
    BY <2>1
  <2>2. CASE ws[j] # NoIdea
    <3>1. j \in V
      BY <2>2
    <3> HIDE DEF V
    <3> QED BY <2>2, <3>1
  <2> QED BY <2>1, <2>2
<1>2. parts \in [1..n -> Seq(V)]
  BY <1>1
<1>3. parts \in Seq(Seq(V))
  <2> HIDE DEF parts, V
  <2> QED BY <1>2
<1>4. FlattenSeq(parts) \in Seq(V)
  <2> HIDE DEF parts, V
  <2> QED BY <1>3, FlattenElems
<1> QED BY <1>4 DEF FiredAt

(* One trade for each of them,                                             *)
LEMMA FillsAre ==
  ASSUME NEW ws, NEW n \in Nat, DOMAIN ws = 1..n, NEW p, NEW series
  PROVE  /\ FiredAt(ws) \in Seq(1..n) /\ FiredAt(ws) \in Seq(Nat)
         /\ Len(Fills(ws, p, series)) = Len(FiredAt(ws)) /\ DOMAIN Fills(ws, p, series) = 1..Len(FiredAt(ws))
         /\ \A i \in 1..Len(FiredAt(ws)) :
              /\ FiredAt(ws)[i] \in 1..n /\ ws[FiredAt(ws)[i]] # NoIdea
              /\ Fills(ws, p, series)[i] = Simulate(ws[FiredAt(ws)[i]], p.warmup + FiredAt(ws)[i], series)
<1> PICK fired : fired = FiredAt(ws)
  OBVIOUS
<1> PICK V : V = {j \in 1..n : ws[j] # NoIdea}
  OBVIOUS
<1>1. fired \in Seq(V)
  BY FiredAtIs
<1>2. DOMAIN fired = 1..Len(fired) /\ Len(fired) \in Nat /\ \A i \in 1..Len(fired) : fired[i] \in V
  BY <1>1
<1>3. fired \in [1..Len(fired) -> 1..n] /\ fired \in [1..Len(fired) -> Nat]
  BY <1>1, <1>2
<1> PICK trades : trades = [i \in DOMAIN fired |-> Simulate(ws[fired[i]], p.warmup + fired[i], series)]
  OBVIOUS
<1>4. Fills(ws, p, series) = trades
  BY DEF Fills, FiredAt
<1>5. trades \in [1..Len(fired) -> {Simulate(ws[j], p.warmup + j, series) : j \in 1..n}]
  BY <1>2
<1>6. trades \in Seq({Simulate(ws[j], p.warmup + j, series) : j \in 1..n}) /\ Len(trades) = Len(fired)
  BY <1>2, <1>5
<1>7. \A k \in Nat : \A W : \A f \in [1..k -> W] : f \in Seq(W)
  OBVIOUS
<1>8. fired \in Seq(1..n) /\ fired \in Seq(Nat)
  BY <1>2, <1>3, <1>7
<1> QED BY <1>2, <1>3, <1>4, <1>6, <1>8

(* simulated from its own bar on.                                          *)
LEMMA FillAt ==
  ASSUME NEW ws, NEW n \in Nat, DOMAIN ws = 1..n, NEW p, NEW series, NEW i \in 1..Len(FiredAt(ws))
  PROVE  /\ FiredAt(ws)[i] \in 1..n /\ ws[FiredAt(ws)[i]] # NoIdea
         /\ Fills(ws, p, series)[i] = Simulate(ws[FiredAt(ws)[i]], p.warmup + FiredAt(ws)[i], series)
BY FillsAre

(* A trade of a record list comes from a window with an idea.              *)
LEMMA RecordsSimulated ==
  ASSUME ReplayInv, NEW k \in DOMAIN records
  PROVE  \E j \in DOMAIN windows :
           /\ windows[j] # NoIdea /\ plan.warmup + j \in 1..Len(bars)
           /\ Tradeable(windows[j], plan.floor)
           /\ records[k] = Simulate(windows[j], plan.warmup + j, bars)
<1>1. records # << >>
  OBVIOUS
<1> PICK n \in Nat : n = Len(windows)
  BY DEF ReplayInv, WindowsInv
<1>2. windows = Proposals(plan, bars, n) /\ DOMAIN windows = 1..n /\ n = Len(bars) - plan.warmup
  BY <1>1, ProposalsAre DEF ReplayInv, WindowsInv
<1>3. \E j \in DOMAIN windows : windows[j] # NoIdea /\ records[k] = Simulate(windows[j], plan.warmup + j, bars)
  <2>1. CASE records = Replayed(plan, bars)
    <3>1. records = Fills(windows, plan, bars)
      BY <1>2, <2>1 DEF Replayed
    <3> PICK ws : ws = windows
      OBVIOUS
    <3> PICK p : p = plan
      OBVIOUS
    <3>2. /\ DOMAIN Fills(ws, p, bars) = 1..Len(FiredAt(ws))
          /\ \A i \in 1..Len(FiredAt(ws)) :
               /\ FiredAt(ws)[i] \in 1..n /\ ws[FiredAt(ws)[i]] # NoIdea
               /\ Fills(ws, p, bars)[i] = Simulate(ws[FiredAt(ws)[i]], p.warmup + FiredAt(ws)[i], bars)
      <4>1. DOMAIN ws = 1..n
        BY <1>2
      <4>2. DOMAIN Fills(ws, p, bars) = 1..Len(FiredAt(ws))
        BY <4>1, FillsAre
      <4> QED BY <4>1, <4>2, FillAt
    <3>3. k \in DOMAIN Fills(ws, p, bars) /\ records = Fills(ws, p, bars)
      BY <3>1
    <3>4. PICK j \in 1..n : ws[j] # NoIdea /\ records[k] = Simulate(ws[j], p.warmup + j, bars)
      BY <3>2, <3>3
    <3> QED BY <1>2, <3>4
  <2>2. CASE Drilled
    <3>1. PICK j \in WithIdea : records = <<Simulate(windows[j], plan.warmup + j, bars)>>
      BY <2>2 DEF Drilled
    <3> QED BY <3>1 DEF WithIdea
  <2> QED BY <1>1, <2>1, <2>2 DEF ReplayInv, RecordsInv
<1> QED BY <1>3, WindowsSound

(* A closed trade never reports more than a real bracket would have made   *)
(* on either path through the exit bar, unless that bar opened beyond the  *)
(* stop, whatever the fee and the slippage.                                *)
THEOREM FillsAreConservative == Spec => []ConservativeUnlessGap
<1>1. ReplayInv => ConservativeUnlessGap
  <2> SUFFICES ASSUME ReplayInv, NEW k \in DOMAIN records, NEW r, r = records[k], r.status = "filled",
                      ~(Sign(r.idea.dir) * (bars[r.exitBar].open - r.idea.stop) <= 0),
                      NEW first \in {"stop", "target"}
               PROVE  r.pnl <= RealPnl(r, first)
    BY DEF ConservativeUnlessGap
  <2>1. PICK j \in DOMAIN windows, t \in 1..Len(bars) :
          t = plan.warmup + j /\ Tradeable(windows[j], plan.floor) /\ r = Simulate(windows[j], t, bars)
    BY RecordsSimulated
  <2>2. bars \in Seq(Bar)
    BY DEF ReplayInv, BarsInv
  <2>3. r.idea = windows[j] /\ r.exitBar \in 1..Len(bars)
    <3>1. r.idea = windows[j] /\ r.exitBar \in Touched(windows[j], t, bars)
      BY <2>1, <2>2, SimulateIs DEF Simulated
    <3> QED BY <2>2, <3>1 DEF Touched
  <2>4. bars[r.exitBar].open \in Int /\ r.idea.stop \in Int /\ Sign(r.idea.dir) \in {1, -1}
    <3>1. bars[r.exitBar] \in Bar
      BY <2>2, <2>3
    <3> QED BY <2>1, <2>3, <3>1 DEF Tradeable, Sign, Bar
  <2>5. Sign(r.idea.dir) * (bars[r.exitBar].open - r.idea.stop) > 0
    BY <2>4
  <2> QED BY <2>1, <2>2, <2>3, <2>5, SimulateIsConservative
<1> QED BY <1>1, ReplayIsDetermined, PTL

-----------------------------------------------------------------------------
(* One bar more *)

(* What was proposed before the new bar is proposed again.                 *)
LEMMA ProposalStays ==
  ASSUME NEW p, NEW old \in Seq(Bar), NEW bar \in Bar, NEW t \in 1..Len(old)
  PROVE  Proposal(p, Append(old, bar), t) = Proposal(p, old, t)
<1> PICK new : new = Append(old, bar)
  OBVIOUS
<1>1. \A i \in 1..t : new[i] = old[i]
  OBVIOUS
<1>2. {new[i].close : i \in 1..t} = {old[i].close : i \in 1..t}
  BY <1>1
<1>3. LowestClose(p, new, t) = LowestClose(p, old, t)
  BY <1>2 DEF LowestClose
<1>4. new[t] = old[t]
  BY <1>1
<1> QED BY <1>3, <1>4 DEF Proposal

Repeats(was, is, n) ==
  /\ was.bar = is.bar /\ was.idea = is.idea
  /\ IF was.status = "filled" THEN is = was ELSE is.exitBar \in {NoBar, n}

(* A trade that had left the market left the same way, and one that had    *)
(* not leaves on the new bar or not at all.                                *)
LEMMA SimulateLater ==
  ASSUME NEW idea, NEW floor, Tradeable(idea, floor), NEW old \in Seq(Bar), NEW bar \in Bar, NEW t \in 1..Len(old)
  PROVE  Repeats(Simulate(idea, t, old), Simulate(idea, t, Append(old, bar)), Len(old) + 1)
<1> PICK n \in Nat : n = Len(old)
  OBVIOUS
<1> PICK new : new = Append(old, bar)
  OBVIOUS
<1>1. new \in Seq(Bar) /\ Len(new) = n + 1 /\ t \in 1..Len(new) /\ \A i \in 1..n : new[i] = old[i]
  OBVIOUS
<1> PICK was : was = Simulate(idea, t, old)
  OBVIOUS
<1> PICK is : is = Simulate(idea, t, new)
  OBVIOUS
<1> PICK before : before = Touched(idea, t, old)
  OBVIOUS
<1> PICK after : after = Touched(idea, t, new)
  OBVIOUS
<1>2. before = after \cap (1..n)
  BY <1>1 DEF Touched
<1>3. after \subseteq (t + 1)..(n + 1)
  BY <1>1 DEF Touched
<1>4. Simulated(was, idea, t, old)
  BY SimulateIs
<1>5. Simulated(is, idea, t, new)
  BY <1>1, SimulateIs
<1>6. CASE before = {}
  <2>1. after \subseteq {n + 1}
    BY <1>2, <1>3, <1>6
  <2>2. is.exitBar \in {NoBar, n + 1}
    BY <1>5, <2>1 DEF Simulated
  <2> QED BY <1>4, <1>5, <1>6, <2>2 DEF Repeats, Simulated
<1>7. CASE before # {}
  <2>1. was.status = "filled" /\ is.status = "filled"
    BY <1>2, <1>4, <1>5, <1>7 DEF Simulated
  <2>2. was.exitBar = is.exitBar /\ was.exitBar \in 1..n /\ t + 1 \in 1..n
    <3>1. was.exitBar \in after /\ was.exitBar \in 1..n /\ is.exitBar \in after
      BY <1>2, <1>4, <1>5, <2>1 DEF Simulated
    <3>2. is.exitBar <= was.exitBar /\ is.exitBar \in (t + 1)..(n + 1) /\ was.exitBar \in (t + 1)..(n + 1)
      BY <1>3, <1>5, <2>1, <3>1 DEF Simulated
    <3>3. is.exitBar \in before
      BY <1>2, <3>1, <3>2
    <3>4. was.exitBar <= is.exitBar
      BY <1>4, <2>1, <3>3 DEF Simulated
    <3> QED BY <3>1, <3>2, <3>4
  <2>3. new[was.exitBar] = old[was.exitBar] /\ new[t + 1] = old[t + 1]
    BY <1>1, <2>2
  <2>4. ExitPrice(is, new) = ExitPrice(was, old)
    BY <1>4, <1>5, <2>2, <2>3 DEF ExitPrice, Simulated
  <2>5. is.pnl = was.pnl
    BY <1>4, <1>5, <2>1, <2>3, <2>4 DEF Simulated
  <2>6. was = is
    BY <1>4, <1>5, <2>1, <2>2, <2>3, <2>5 DEF Simulated
  <2> QED BY <2>1, <2>6 DEF Repeats
<1> QED BY <1>6, <1>7

(* One window more leaves the earlier ones where they were.                *)
LEMMA FiredAtGrows ==
  ASSUME NEW ws, NEW n \in Nat, DOMAIN ws = 1..n, NEW more, DOMAIN more = 1..(n + 1),
         \A j \in 1..n : more[j] = ws[j]
  PROVE  \E e \in Seq(Nat) : FiredAt(more) = FiredAt(ws) \o e
<1> DEFINE parts == [j \in DOMAIN ws |-> IF ws[j] = NoIdea THEN <<>> ELSE <<j>>]
           longer == [j \in DOMAIN more |-> IF more[j] = NoIdea THEN <<>> ELSE <<j>>]
           last == IF more[n + 1] = NoIdea THEN <<>> ELSE <<n + 1>>
<1>1. \A j \in Nat : <<j>> \in Seq(Nat)
  OBVIOUS
<1>2. << >> \in Seq(Nat)
  OBVIOUS
<1>3. last \in Seq(Nat)
  BY <1>1, <1>2
<1>4. /\ \A j \in 1..n : parts[j] \in Seq(Nat) /\ longer[j] = parts[j]
      /\ longer[n + 1] = last
  BY <1>1, <1>2
<1>5. parts \in [1..n -> Seq(Nat)] /\ longer \in [1..(n + 1) -> Seq(Nat)]
  <2>1. DOMAIN parts = 1..n /\ DOMAIN longer = 1..(n + 1)
    OBVIOUS
  <2>2. \A j \in 1..(n + 1) : longer[j] \in Seq(Nat)
    BY <1>3, <1>4
  <2> QED BY <1>4, <2>1, <2>2
<1> HIDE DEF parts, longer, last
<1>6. parts \in Seq(Seq(Nat)) /\ Len(parts) = n /\ longer \in Seq(Seq(Nat)) /\ Len(longer) = n + 1
  <2> PICK m \in Nat : m = n + 1
    OBVIOUS
  <2>1. \A k \in Nat : \A f \in [1..k -> Seq(Nat)] : f \in Seq(Seq(Nat)) /\ Len(f) = k
    OBVIOUS
  <2> QED BY <1>5, <2>1
<1>7. longer = Append(parts, last)
  <2> PICK app : app = Append(parts, last)
    OBVIOUS
  <2>1. app \in Seq(Seq(Nat)) /\ Len(app) = n + 1 /\ \A j \in 1..(n + 1) : app[j] = IF j <= n THEN parts[j] ELSE last
    BY <1>3, <1>6
  <2>2. \A j \in 1..(n + 1) : longer[j] = app[j]
    BY <1>4, <2>1
  <2> QED BY <1>6, <2>1, <2>2, SeqEqual
<1>8. FlattenSeq(longer) = FlattenSeq(parts) \o last
  BY <1>3, <1>6, <1>7, FlattenAppend
<1> QED BY <1>3, <1>8 DEF FiredAt, parts, longer

(* A trade is the same in a replay of one bar more.                        *)
LEMMA ReplayRepeats ==
  ASSUME NEW p \in Plans, NEW old \in Seq(Bar), Len(old) > p.warmup, NEW bar \in Bar,
         NEW was, was = Replayed(p, old), NEW is, is = Replayed(p, Append(old, bar)), NEW k \in DOMAIN was
  PROVE  k \in DOMAIN is /\ Repeats(was[k], is[k], Len(old) + 1)
<1> PICK w \in Nat : w = p.warmup
  BY PlanTypes
<1> PICK n \in Nat : n = Len(old)
  OBVIOUS
<1> PICK m \in Nat : m = n - w
  OBVIOUS
<1> PICK new : new = Append(old, bar)
  OBVIOUS
<1> PICK ws : ws = Proposals(p, old, m)
  OBVIOUS
<1> PICK more : more = Proposals(p, new, m + 1)
  OBVIOUS
<1>1. was = Fills(ws, p, old)
  BY DEF Replayed
<1>2. is = Fills(more, p, new)
  <2>1. Len(new) - p.warmup = m + 1
    OBVIOUS
  <2> QED BY <2>1 DEF Replayed
<1>3. DOMAIN ws = 1..m /\ \A j \in 1..m : ws[j] = Proposal(p, old, w + j)
  BY ONLY ws = Proposals(p, old, m), m \in Nat, w = p.warmup, ProposalsAre
<1>4. DOMAIN more = 1..(m + 1) /\ \A j \in 1..(m + 1) : more[j] = Proposal(p, new, w + j)
  <2>1. m + 1 \in Nat
    OBVIOUS
  <2> QED BY ONLY <2>1, more = Proposals(p, new, m + 1), w = p.warmup, ProposalsAre
<1>5. \A j \in 1..m : more[j] = ws[j]
  <2> TAKE j \in 1..m
  <2>1. w + j \in 1..Len(old) /\ j \in 1..(m + 1)
    OBVIOUS
  <2>2. Proposal(p, new, w + j) = Proposal(p, old, w + j)
    BY <2>1, ProposalStays
  <2> QED BY ONLY <2>1, <2>2, <1>3, <1>4, j \in 1..m
<1>6. PICK e \in Seq(Nat) : FiredAt(more) = FiredAt(ws) \o e
  <2>1. DOMAIN ws = 1..m /\ DOMAIN more = 1..(m + 1)
    BY <1>3, <1>4
  <2> QED BY ONLY <2>1, <1>5, m \in Nat, FiredAtGrows
<1> PICK fired : fired = FiredAt(ws)
  OBVIOUS
<1> PICK later : later = FiredAt(more)
  OBVIOUS
<1>7. fired \in Seq(Nat) /\ DOMAIN was = 1..Len(fired) /\ k \in 1..Len(fired)
  BY <1>1, <1>3, FillsAre
<1>8. later \in Seq(1..(m + 1)) /\ DOMAIN is = 1..Len(later)
  <2>1. m + 1 \in Nat
    OBVIOUS
  <2> QED BY <2>1, <1>2, <1>4, FillsAre
<1>9. k \in 1..Len(later) /\ later[k] = fired[k]
  <2>1. fired \in Seq(Nat) /\ k \in 1..Len(fired) /\ later = fired \o e
    BY <1>6, <1>7
  <2> QED BY ONLY <2>1, e \in Seq(Nat), ConcatProperties
<1> PICK j : j = fired[k]
  OBVIOUS
<1>10. j \in 1..m /\ ws[j] # NoIdea /\ was[k] = Simulate(ws[j], w + j, old)
  <2>1. DOMAIN ws = 1..m /\ k \in 1..Len(FiredAt(ws))
    BY <1>3, <1>7
  <2> QED BY <1>1, <2>1, FillAt
<1>11. is[k] = Simulate(more[j], w + j, new)
  <2> PICK m1 \in Nat : m1 = m + 1
    OBVIOUS
  <2>1. DOMAIN more = 1..m1 /\ k \in 1..Len(FiredAt(more)) /\ FiredAt(more)[k] = j
    BY <1>4, <1>9
  <2>2. Fills(more, p, new)[k] = Simulate(more[FiredAt(more)[k]], p.warmup + FiredAt(more)[k], new)
    BY ONLY <2>1, m1 \in Nat, FillAt
  <2> QED BY <1>2, <2>1, <2>2
<1>12. w + j \in 1..Len(old)
  BY <1>10
<1>13. Tradeable(ws[j], p.floor)
  BY <1>3, <1>10, <1>12, ProposalsSound
<1>14. Repeats(was[k], is[k], Len(old) + 1)
  BY <1>5, <1>10, <1>11, <1>12, <1>13, SimulateLater
<1> QED BY <1>8, <1>9, <1>14

(* The same command run again one bar later repeats every trade of the run *)
(* before, with the same idea; a trade that had left the market left the   *)
(* same way, and one that had not leaves on the new bar or not at all.     *)
THEOREM ReplayDoesNotLookAhead == Spec => []NoLookahead
<1>1. ReplayInv => NoLookahead
  <2> SUFFICES ASSUME ReplayInv, phase = "filled", NEW k \in DOMAIN earlier
               PROVE  /\ k \in DOMAIN records
                      /\ earlier[k].bar = records[k].bar /\ earlier[k].idea = records[k].idea
                      /\ IF earlier[k].status = "filled" THEN records[k] = earlier[k]
                         ELSE records[k].exitBar \in {NoBar, Len(bars)}
    BY DEF NoLookahead
  <2>1. /\ plan \in Plans /\ bars \in Seq(Bar) /\ records = Replayed(plan, bars)
        /\ Len(bars) > plan.warmup + 1 /\ earlier = Replayed(plan, Front(bars))
    BY DEF ReplayInv, BarsInv, RecordsInv, EarlierInv
  <2> PICK w \in Nat : w = plan.warmup
    BY <2>1, PlanTypes
  <2> PICK old : old = Front(bars)
    OBVIOUS
  <2> PICK n \in Nat : n = Len(bars)
    BY <2>1
  <2> PICK bar : bar = bars[n]
    OBVIOUS
  <2>2. old \in Seq(Bar) /\ Len(old) = n - 1 /\ bar \in Bar /\ \A i \in 1..(n - 1) : old[i] = bars[i]
    BY <2>1 DEF Front
  <2>3. bars = Append(old, bar)
    <3> PICK app : app = Append(old, bar)
      OBVIOUS
    <3>1. app \in Seq(Bar) /\ Len(app) = n /\ \A i \in 1..n : app[i] = IF i < n THEN old[i] ELSE bar
      BY <2>1, <2>2
    <3>2. \A i \in 1..n : app[i] = bars[i]
      BY <2>2, <3>1
    <3> QED BY <2>1, <3>1, <3>2, SeqEqual
  <2>4. Len(old) > plan.warmup /\ Len(old) + 1 = Len(bars)
    BY <2>1, <2>2
  <2>5. k \in DOMAIN records /\ Repeats(earlier[k], records[k], Len(bars))
    BY <2>1, <2>2, <2>3, <2>4, ReplayRepeats
  <2> QED BY <2>5 DEF Repeats
<1> QED BY <1>1, ReplayIsDetermined, PTL

-----------------------------------------------------------------------------
(* Drawdown *)

(* The floor of a quotient, and how quotients compare.                     *)
LEMMA DivBounds ==
  ASSUME NEW x \in Int, NEW d \in Nat, d > 0
  PROVE  x \div d \in Int /\ d * (x \div d) <= x /\ x < d * (x \div d) + d
OBVIOUS

LEMMA Below ==
  ASSUME NEW a \in Int, NEW b \in Int, NEW d \in Nat, d > 0, d * a < d * b + d
  PROVE  a <= b
<1> SUFFICES ASSUME a >= b + 1 PROVE FALSE
  OBVIOUS
<1>1. d * a >= d * (b + 1)
  OBVIOUS
<1>2. d * (b + 1) = d * b + d
  OBVIOUS
<1> QED BY <1>1, <1>2

(* The fall to b is no smaller a part of a higher peak.                    *)
LEMMA DeeperFromPeak ==
  ASSUME NEW a \in Nat, a > 0, NEW b \in Nat, NEW P \in Int, P >= a
  PROVE  ((a - b) * 100) \div a <= ((P - b) * 100) \div P
<1> PICK x \in Int : x = (a - b) * 100
  OBVIOUS
<1> PICK y \in Int : y = (P - b) * 100
  OBVIOUS
<1> PICK q \in Int : q = x \div a
  BY DivBounds
<1> PICK r \in Int : r = y \div P
  BY DivBounds
<1>1. a * q <= x
  BY DivBounds
<1>2. y < P * r + P
  BY DivBounds
<1>3. q <= 100
  <2>1. x <= a * 100
    OBVIOUS
  <2>2. a * q < a * 100 + a
    <3> PICK k \in Int : k = a * q
      OBVIOUS
    <3> QED BY ONLY <1>1, <2>1, k = a * q, k \in Int, x \in Int, a \in Nat, a > 0
  <2> QED BY <2>2, Below
<1> PICK d \in Nat : d = P - a
  OBVIOUS
<1>4. d * q <= d * 100
  BY ONLY <1>3, d \in Nat, q \in Int
<1>5. P * q = a * q + d * q
  <2>1. P = a + d
    OBVIOUS
  <2> QED BY ONLY <2>1, a \in Nat, d \in Nat, q \in Int
<1>6. P * q <= y
  <2> PICK k \in Int, l \in Int : k = a * q /\ l = d * q
    OBVIOUS
  <2>1. k + l <= y
    BY ONLY <1>1, <1>4, k = a * q, l = d * q, k \in Int, l \in Int, d = P - a, x = (a - b) * 100,
            y = (P - b) * 100, a \in Nat, b \in Nat, P \in Int
  <2> QED BY <1>5, <2>1
<1>7. P * q < P * r + P
  <2> PICK k \in Int, l \in Int : k = P * q /\ l = P * r
    OBVIOUS
  <2> QED BY ONLY <1>2, <1>6, k = P * q, l = P * r, k \in Int, l \in Int, y \in Int, P \in Int
<1> QED BY <1>7, Below

-----------------------------------------------------------------------------
(* The equity curve *)

(* The trades of a replay that starts after bar w and ends with bar n.     *)
Booked(trades, c, w, n) ==
  /\ DOMAIN trades = 1..c
  /\ \A i \in 1..c : trades[i].pnl \in Int
  /\ \A i \in 1..c : IF trades[i].status = "filled" THEN trades[i].exitBar \in (w + 2)..n
                     ELSE trades[i].exitBar = NoBar /\ trades[i].pnl = 0

Gained(trades, w, k) == SumFunction([t \in (w + 1)..(w + k) |-> PnlByBar(trades, t)])

(* The gains booked on a bar are an integer,                               *)
LEMMA PnlIsInt ==
  ASSUME NEW trades, NEW c \in Nat, NEW w, NEW n, Booked(trades, c, w, n), NEW t
  PROVE  PnlByBar(trades, t) \in Int
<1> PICK res : res = Results(trades)
  OBVIOUS
<1> PICK there : there = {i \in DOMAIN trades : trades[i].exitBar = t}
  OBVIOUS
<1>1. \A i \in 1..c : res[i] \in Int
  BY DEF Results, Booked
<1>2. IsFiniteSet(1..c)
  BY FS_Interval
<1>3. there \subseteq 1..c
  BY DEF Booked
<1>4. IsFiniteSet(there) /\ \A i \in there : res[i] \in Int
  BY <1>1, <1>2, <1>3, FS_Subset
<1> QED BY <1>4, SumIsInt DEF PnlByBar

(* Nothing is gained on the first bar of the curve.                        *)
LEMMA FirstPoint ==
  ASSUME NEW trades, NEW c \in Nat, NEW w \in Nat, NEW n \in Nat, Booked(trades, c, w, n)
  PROVE  Gained(trades, w, 1) = 0
<1> PICK f : f = [t \in (w + 1)..(w + 1) |-> PnlByBar(trades, t)]
  OBVIOUS
<1>1. DOMAIN f = {w + 1}
  <2>1. (w + 1)..(w + 1) = {w + 1}
    OBVIOUS
  <2> QED BY <2>1
<1>2. {i \in DOMAIN trades : trades[i].exitBar = w + 1} = {}
  BY DEF Booked, NoBar
<1>3. f[w + 1] = PnlByBar(trades, w + 1)
  OBVIOUS
<1>4. PnlByBar(trades, w + 1) = 0
  <2>1. PnlByBar(trades, w + 1) = SumFunctionOnSet(Results(trades), {})
    BY <1>2 DEF PnlByBar
  <2> QED BY <2>1, FS_EmptySet, SumUnfolds
<1>5. f[w + 1] = 0
  BY <1>3, <1>4
<1>6. SumFunctionOnSet(f, {w + 1}) = 0
  BY <1>5, SumOfOne
<1> QED BY <1>1, <1>6, SumOfAll DEF Gained

(* Everything is gained at its end.                                        *)
LEMMA LastPoint ==
  ASSUME NEW trades, NEW c \in Nat, NEW w \in Nat, NEW n \in Nat, n > w, Booked(trades, c, w, n)
  PROVE  Gained(trades, w, n - w) = TotalPnl(trades)
<1> PICK res : res = Results(trades)
  OBVIOUS
<1> PICK S : S = {i \in 1..c : trades[i].status = "filled"}
  OBVIOUS
<1> PICK K : K = (w + 1)..n
  OBVIOUS
<1> PICK key : key = [i \in 1..c |-> trades[i].exitBar]
  OBVIOUS
<1> PICK f : f = [t \in K |-> PnlByBar(trades, t)]
  OBVIOUS
<1>1. DOMAIN res = 1..c /\ \A i \in 1..c : res[i] \in Int /\ res[i] = trades[i].pnl
  BY DEF Results, Booked
<1>2. IsFiniteSet(1..c) /\ IsFiniteSet(K)
  <2>1. w + 1 \in Int /\ n \in Int /\ 1 \in Int /\ c \in Int
    OBVIOUS
  <2> QED BY <2>1, FS_Interval
<1>3. S \in SUBSET (1..c) /\ IsFiniteSet(S)
  BY <1>2, FS_Subset
<1>4. \A i \in S : key[i] \in K
  BY DEF Booked
<1>5. \A t \in K : {i \in DOMAIN trades : trades[i].exitBar = t} = {i \in S : key[i] = t}
  <2> TAKE t \in K
  <2>1. \A i \in 1..c : trades[i].exitBar = t => i \in S
    BY DEF Booked, NoBar
  <2> QED BY <2>1 DEF Booked
<1>6. Grouped(f, res, S, key, K)
  BY <1>5 DEF Grouped, PnlByBar
<1>7. SumFunctionOnSet(f, K) = SumFunctionOnSet(res, S)
  <2>1. \A i \in S : res[i] \in Int
    BY <1>1, <1>3
  <2>2. IsFiniteSet(S)
    BY <1>3
  <2>3. IsFiniteSet(K)
    BY <1>2
  <2> QED BY ONLY <1>4, <1>6, <2>1, <2>2, <2>3, SumGroups
<1>8. SumFunctionOnSet(res, 1..c) = SumFunctionOnSet(res, S)
  <2>1. \A i \in (1..c) \ S : res[i] = 0
    BY <1>1 DEF Booked
  <2>2. \A i \in S : res[i] \in Int
    BY <1>1, <1>3
  <2> QED BY <1>2, <1>3, <2>1, <2>2, SumVanishes
<1>9. TotalPnl(trades) = SumFunctionOnSet(res, 1..c)
  BY <1>1, SumOfAll DEF TotalPnl
<1>10. Gained(trades, w, n - w) = SumFunctionOnSet(f, K)
  <2>1. w + (n - w) = n
    OBVIOUS
  <2> QED BY <2>1, SumOfAll DEF Gained
<1> QED BY <1>7, <1>8, <1>9, <1>10

(* and so are those up to a bar.                                           *)
LEMMA PointIsInt ==
  ASSUME NEW trades, NEW c \in Nat, NEW w \in Nat, NEW n \in Nat, Booked(trades, c, w, n), NEW k \in Nat
  PROVE  Gained(trades, w, k) \in Int
<1> PICK K : K = (w + 1)..(w + k)
  OBVIOUS
<1> PICK f : f = [t \in K |-> PnlByBar(trades, t)]
  OBVIOUS
<1>1. IsFiniteSet(K)
  BY FS_Interval
<1>2. \A t \in K : f[t] \in Int
  BY PnlIsInt
<1> QED BY <1>1, <1>2, SumIsInt, SumOfAll DEF Gained

(* The fall from any point of a curve that starts above zero to a later    *)
(* one is covered by its drawdown.                                         *)
LEMMA DrawdownCovers ==
  ASSUME NEW m \in Nat, NEW curve \in [1..m -> Int], curve[1] > 0, NEW i \in 1..m, NEW j \in 1..m,
         i < j, curve[i] > 0, curve[j] >= 0
  PROVE  ((curve[i] - curve[j]) * 100) \div curve[i] <= Drawdown(curve)
<1>1. \A k \in 1..m : Peak(curve, k) \in Int /\ \A l \in 1..k : Peak(curve, k) >= curve[l]
  <2> TAKE k \in 1..m
  <2> PICK T : T = {curve[l] : l \in 1..k}
    OBVIOUS
  <2>1. T \in SUBSET Int /\ T # {}
    OBVIOUS
  <2>2. IsFiniteSet(T)
    <3>1. IsFiniteSet(1..k)
      BY FS_Interval
    <3> QED BY <3>1, ImageIsFinite
  <2>3. Max(T) \in T /\ \A y \in T : Max(T) >= y
    BY <2>1, <2>2, MaxOfFinite
  <2> QED BY <2>1, <2>3 DEF Peak
<1> DEFINE fall(k) == ((Peak(curve, k) - curve[k]) * 100) \div Peak(curve, k)
<1> PICK T : T = {fall(k) : k \in DOMAIN curve} \cup {0}
  OBVIOUS
<1>2. \A k \in 1..m : fall(k) \in Int
  <2> TAKE k \in 1..m
  <2>1. Peak(curve, k) \in Nat /\ Peak(curve, k) > 0
    BY <1>1
  <2>2. (Peak(curve, k) - curve[k]) * 100 \in Int
    BY <2>1
  <2> QED BY <2>1, <2>2, DivBounds
<1>3. T \in SUBSET Int /\ T # {} /\ fall(j) \in T
  <2> HIDE DEF fall
  <2> QED BY <1>2
<1>4. IsFiniteSet(T)
  <2> HIDE DEF fall
  <2> PICK g : g = [k \in 1..m |-> fall(k)]
    OBVIOUS
  <2> PICK F : F = {g[k] : k \in 1..m}
    OBVIOUS
  <2>1. IsFiniteSet(1..m)
    BY FS_Interval
  <2>2. IsFiniteSet(F)
    BY <2>1, ImageIsFinite
  <2>3. T = F \cup {0}
    OBVIOUS
  <2>4. IsFiniteSet(F \cup {0})
    BY ONLY <2>2, FS_AddElement
  <2> QED BY ONLY <2>3, <2>4
<1>5. fall(j) <= Max(T)
  <2> HIDE DEF fall
  <2> QED BY <1>3, <1>4, MaxOfFinite
<1>6. Drawdown(curve) = Max(T)
  BY DEF Drawdown
<1>7. ((curve[i] - curve[j]) * 100) \div curve[i] <= fall(j)
  <2> PICK a \in Nat : a = curve[i]
    OBVIOUS
  <2> PICK b \in Nat : b = curve[j]
    OBVIOUS
  <2> PICK P \in Int : P = Peak(curve, j)
    BY <1>1
  <2>1. P >= a /\ a > 0
    BY <1>1
  <2> QED BY <2>1, DeeperFromPeak
<1>8. ((curve[i] - curve[j]) * 100) \div curve[i] \in Int
  <2>1. curve[i] \in Nat /\ (curve[i] - curve[j]) * 100 \in Int
    OBVIOUS
  <2> QED BY <2>1, DivBounds
<1>9. fall(j) \in Int /\ Max(T) \in Int
  <2> HIDE DEF fall
  <2> QED BY <1>2, <1>3, <1>4, MaxOfFinite
<1> HIDE DEF fall
<1> QED BY <1>5, <1>6, <1>7, <1>8, <1>9

AnyClosed(trades) == \E i \in DOMAIN trades : trades[i].status = "filled"

(* The curve starts at the capital and ends with everything gained.        *)
LEMMA CurveIs ==
  ASSUME NEW p, NEW w \in Nat, w = p.warmup, NEW n \in Nat, n > w, NEW trades, NEW c \in Nat, Booked(trades, c, w, n),
         NEW curve, curve = Curve(trades, p, n)
  PROVE  \E m \in Nat : /\ m > 0 /\ m = (IF AnyClosed(trades) THEN n - w ELSE 1)
                        /\ curve \in [1..m -> Int] /\ Len(curve) = m
                        /\ curve[1] = BaseCapital /\ curve[m] - curve[1] = TotalPnl(trades)
<1>0. BaseCapital \in Nat
  BY BacktestAssumption
<1>1. CASE ~AnyClosed(trades)
  <2>1. curve = <<BaseCapital>>
    BY <1>1 DEF Curve, AnyClosed
  <2>2. TotalPnl(trades) = 0
    <3> PICK res : res = Results(trades)
      OBVIOUS
    <3>1. DOMAIN res = 1..c /\ \A i \in 1..c : res[i] = 0
      BY <1>1 DEF Results, Booked, AnyClosed
    <3>2. IsFiniteSet(1..c)
      BY FS_Interval
    <3> QED BY <3>1, <3>2, SumOfZeros, SumOfAll DEF TotalPnl
  <2>3. curve \in [1..1 -> Int] /\ Len(curve) = 1 /\ curve[1] = BaseCapital
    BY <1>0, <2>1
  <2> QED BY <1>0, <1>1, <2>2, <2>3
<1>2. CASE AnyClosed(trades)
  <2> PICK m \in Nat : m = n - w
    OBVIOUS
  <2>1. m > 0
    OBVIOUS
  <2>2. curve = [k \in 1..m |-> BaseCapital + Gained(trades, w, k)]
    BY <1>2 DEF Curve, AnyClosed, Gained
  <2>3. \A k \in 1..m : Gained(trades, w, k) \in Int
    BY PointIsInt
  <2>4. curve \in [1..m -> Int]
    BY <1>0, <2>2, <2>3
  <2>5. Len(curve) = m
    BY <2>4
  <2>6. curve[1] = BaseCapital
    <3>1. curve[1] = BaseCapital + Gained(trades, w, 1)
      BY <2>1, <2>2
    <3> QED BY <1>0, <3>1, FirstPoint
  <2>7. curve[m] - curve[1] = TotalPnl(trades)
    <3>1. curve[m] = BaseCapital + Gained(trades, w, m)
      BY <2>1, <2>2
    <3>2. Gained(trades, w, m) = TotalPnl(trades) /\ Gained(trades, w, m) \in Int
      BY LastPoint, PointIsInt
    <3> QED BY <1>0, <2>6, <3>1, <3>2
  <2> QED BY <1>2, <2>1, <2>4, <2>5, <2>6, <2>7
<1> QED BY <1>1, <1>2

(* The trades of a reported replay.                                        *)
LEMMA ReplayBooked ==
  ASSUME ReplayInv, report # <<>>
  PROVE  \E c \in Nat : Booked(records, c, plan.warmup, Len(bars))
<1>1. /\ plan \in Plans /\ bars \in Seq(Bar) /\ records = Replayed(plan, bars) /\ Len(bars) > plan.warmup
  BY DEF ReplayInv, BarsInv, RecordsInv
<1> PICK w \in Nat : w = plan.warmup
  BY <1>1, PlanTypes
<1> PICK n \in Nat : n = Len(bars)
  BY <1>1
<1> PICK ws : ws = Proposals(plan, bars, n - w)
  OBVIOUS
<1>2. n - w \in Nat /\ DOMAIN ws = 1..(n - w) /\ records = Fills(ws, plan, bars)
  <2>1. n - w \in Nat
    BY <1>1
  <2> QED BY <1>1, <2>1, ProposalsAre DEF Replayed
<1> PICK c : c = Len(FiredAt(ws))
  OBVIOUS
<1>3. c \in Nat /\ DOMAIN records = 1..c
  <2> PICK l \in Nat : l = n - w
    BY <1>2
  <2>1. DOMAIN ws = 1..l
    BY <1>2
  <2>2. FiredAt(ws) \in Seq(Nat) /\ DOMAIN Fills(ws, plan, bars) = 1..Len(FiredAt(ws))
    BY ONLY <2>1, l \in Nat, FillsAre
  <2> QED BY <1>2, <2>2
<1>4. ASSUME NEW k \in 1..c
      PROVE  /\ records[k].pnl \in Int
             /\ IF records[k].status = "filled" THEN records[k].exitBar \in (w + 2)..n
                ELSE records[k].exitBar = NoBar /\ records[k].pnl = 0
  <2>1. PICK j \in DOMAIN windows : /\ plan.warmup + j \in 1..Len(bars) /\ Tradeable(windows[j], plan.floor)
                                    /\ records[k] = Simulate(windows[j], plan.warmup + j, bars)
    BY <1>3, RecordsSimulated
  <2>2. j \in 1..(n - w)
    BY WindowsSound
  <2> PICK t \in 1..Len(bars) : t = w + j
    BY <2>1
  <2>3. Simulated(records[k], windows[j], t, bars)
    BY <1>1, <2>1, SimulateIs
  <2>4. t + 1 >= w + 2
    BY ONLY <2>2, t = w + j, w \in Nat, n \in Nat
  <2>5. Touched(windows[j], t, bars) \subseteq (w + 2)..n
    BY <2>4 DEF Touched
  <2> QED BY <2>3, <2>5 DEF Simulated
<1> QED BY <1>3, <1>4 DEF Booked

(* The benchmark has a point for each bar walked, and one to start from.   *)
LEMMA BenchmarkLength ==
  ASSUME NEW p, NEW w \in Nat, w = p.warmup, NEW series \in Seq(Bar), Len(series) > w + 1
  PROVE  Len(Benchmark(p, series)) = Len(series) - w
<1> PICK n \in Nat : n = Len(series)
  OBVIOUS
<1> PICK m \in Nat : m = n - w - 1
  OBVIOUS
<1> PICK entry : entry = EntryPrice("long", series[w + 2].open) + Fee(EntryPrice("long", series[w + 2].open))
  OBVIOUS
<1> PICK closes : closes = [k \in 1..m |-> series[w + 1 + k].close]
  OBVIOUS
<1> PICK V : V = {entry} \cup {series[w + 1 + k].close : k \in 1..m}
  OBVIOUS
<1>1. closes \in Seq(V) /\ Len(closes) = m /\ <<entry>> \in Seq(V) /\ Len(<<entry>>) = 1
  <2>1. closes \in [1..m -> V]
    OBVIOUS
  <2>2. \A k \in Nat : \A f \in [1..k -> V] : f \in Seq(V) /\ Len(f) = k
    OBVIOUS
  <2>3. <<entry>> \in Seq(V)
    <3>1. entry \in V
      OBVIOUS
    <3> QED BY ONLY <3>1
  <2> QED BY <2>1, <2>2, <2>3
<1>2. Benchmark(p, series) = <<entry>> \o closes
  <2>1. ~(Len(series) <= w + 1)
    OBVIOUS
  <2> QED BY <2>1 DEF Benchmark
<1>3. Len(<<entry>> \o closes) = 1 + m
  BY <1>1, ConcatProperties
<1> QED BY <1>2, <1>3

(* The answers of a metrics run agree: the curve ends at the total the     *)
(* fill summary reports, is as long as the benchmark once a trade was      *)
(* closed, and its drawdown covers the fall from any bar to any later one, *)
(* as long as the curve is not negative.                                   *)
THEOREM ReportedMetricsAgree == Spec => []MetricsAgree
<1>1. ReplayInv => MetricsAgree
  <2> SUFFICES ASSUME ReplayInv, NEW k \in DOMAIN report, NEW m, m = report[k].strategy,
                      NEW curve, curve = report[k].curve
               PROVE  /\ m.gain = TotalPnl(records)
                      /\ Len(curve) \in {1, Len(report[k].benchmark)}
                      /\ \A i, j \in DOMAIN curve :
                           i < j /\ curve[i] > 0 /\ curve[j] >= 0
                             => ((curve[i] - curve[j]) * 100) \div curve[i] <= m.drawdown
    BY DEF MetricsAgree
  <2>1. report # << >>
    OBVIOUS
  <2>2. /\ plan \in Plans /\ bars \in Seq(Bar) /\ Len(bars) > plan.warmup
        /\ report = <<Reported(plan, bars, records)>>
    BY <2>1 DEF ReplayInv, BarsInv, RecordsInv
  <2> PICK w \in Nat : w = plan.warmup
    BY <2>2, PlanTypes
  <2> PICK n \in Nat : n = Len(bars)
    BY <2>2
  <2> PICK trades : trades = records
    OBVIOUS
  <2>3. PICK c \in Nat : Booked(trades, c, w, n)
    BY <2>1, ReplayBooked
  <2>4. /\ report[k].strategy = Compute(trades, curve) /\ curve = Curve(trades, plan, n)
        /\ report[k].benchmark = Benchmark(plan, bars)
    BY <2>2 DEF Reported
  <2>5. PICK l \in Nat : /\ l > 0 /\ l = (IF AnyClosed(trades) THEN n - w ELSE 1)
                         /\ curve \in [1..l -> Int] /\ Len(curve) = l
                         /\ curve[1] = BaseCapital /\ curve[l] - curve[1] = TotalPnl(trades)
    <3>1. n > w /\ curve = Curve(trades, plan, n)
      BY <2>2, <2>4
    <3> QED BY ONLY <3>1, <2>3, w \in Nat, w = plan.warmup, n \in Nat, c \in Nat, CurveIs
  <2>6. m.gain = TotalPnl(records) /\ m.drawdown = Drawdown(curve)
    BY <2>4, <2>5 DEF Compute
  <2>7. Len(curve) \in {1, Len(report[k].benchmark)}
    <3>1. CASE AnyClosed(trades)
      <4>1. PICK i \in 1..c : trades[i].exitBar \in (w + 2)..n
        BY <2>3, <3>1 DEF AnyClosed, Booked
      <4>2. n > w + 1
        BY <4>1
      <4>3. Len(Benchmark(plan, bars)) = n - w
        BY <2>2, <4>2, BenchmarkLength
      <4> QED BY <2>4, <2>5, <3>1, <4>3
    <3>2. CASE ~AnyClosed(trades)
      BY <2>5, <3>2
    <3> QED BY <3>1, <3>2
  <2>8. ASSUME NEW i \in DOMAIN curve, NEW j \in DOMAIN curve, i < j, curve[i] > 0, curve[j] >= 0
        PROVE  ((curve[i] - curve[j]) * 100) \div curve[i] <= m.drawdown
    <3>1. curve \in [1..l -> Int] /\ curve[1] = BaseCapital
      BY <2>5
    <3>2. DOMAIN curve = 1..l
      BY <3>1
    <3>3. curve[1] > 0
      BY <3>1, BacktestAssumption
    <3>4. i \in 1..l /\ j \in 1..l
      BY <3>2
    <3>5. ((curve[i] - curve[j]) * 100) \div curve[i] <= Drawdown(curve)
      BY ONLY <2>8, <3>1, <3>3, <3>4, l \in Nat, DrawdownCovers
    <3> QED BY <2>6, <3>5
  <2> QED BY <2>6, <2>7, <2>8
<1> QED BY <1>1, ReplayIsDetermined, PTL

-----------------------------------------------------------------------------
(* Files, clerks and listings are what they should be: enough of a type to *)
(* compute with.  Notes are not typed.                                     *)
NotesType ==
  /\ inodes \in Seq(Range(inodes))
  /\ tmp \in 0..Len(inodes) /\ live \in 0..Len(inodes)
  /\ version \in Nat
  /\ clerk = [p \in Clerks |-> clerk[p]]
  /\ listing = [p \in Clerks |-> listing[p]]
  /\ removal = [p \in Clerks |-> removal[p]]
  /\ \A p \in Clerks :
       clerk[p] = [stage |-> clerk[p].stage, inode |-> clerk[p].inode,
                   book |-> clerk[p].book, exact |-> clerk[p].exact]
  /\ \A p \in Clerks : clerk[p].stage = "write" => clerk[p].inode \in 1..Len(inodes)

(* A listing is of the file as it is, or the file was replaced or written  *)
(* since; then the version tells.                                          *)
ListInv ==
  \A p \in Clerks :
    /\ listing[p].at \in Int /\ listing[p].at <= version
    /\ listing[p].at = version =>
         \A pair \in Pairs : \A line \in listing[p].lines[pair] :
           line.index \in Int /\ line.note = OnDisk[pair][line.index + 1]

(* Until two commands overlap, one clerk at most is at work, the temporary *)
(* name stands for its inode, never for the published one, and holds what  *)
(* the clerk has written of its book so far; a killed clerk leaves a       *)
(* temporary file behind, which the next one truncates.                    *)
Quiet == ~overlapped =>
  /\ tmp # 0 => tmp # live
  /\ OnDisk = ideal /\ IsBook(ideal)
  /\ \A p \in Clerks : clerk[p] # Idle =>
       /\ clerk[p].book = clerk[p].exact /\ IsBook(clerk[p].exact)
       /\ clerk[p].stage \in {"open", "write", "rename"}
       /\ clerk[p].stage # "open" =>
            tmp # 0 /\ clerk[p].inode = tmp
       /\ clerk[p].stage = "write" => inodes[tmp] = Blank
       /\ clerk[p].stage = "rename" => inodes[tmp] = clerk[p].book
       /\ \A q \in Clerks : clerk[q] # Idle => q = p

(* What every step of the notebook keeps.                                  *)
NotebookInv == NotesType /\ ListInv /\ Quiet /\ ListedNoteIsRemoved

(* A run that found the notebook readable, unless commands overlapped.     *)
Legible(result, mixed) == "unread" \in DOMAIN result /\ (~mixed => ~result.unread)

(* Processes that run a batch, and what they print.                        *)
RunnerInv ==
  /\ runner = [r \in Runners |-> runner[r]]
  /\ printout = [r \in Runners |-> printout[r]]
  /\ \A r \in Runners :
       /\ runner[r] = [stage |-> runner[r].stage, result |-> runner[r].result, loaded |-> runner[r].loaded]
       /\ runner[r].stage # "idle" => Legible(runner[r].result, overlapped)
       /\ printout[r] = NoReport \/ Legible(printout[r], overlapped)

(* No book is mistaken for an empty file or for one that does not parse.   *)
DamageIsNoBook == \A book : IsBook(book) => book \notin {Blank, Garbled}

-----------------------------------------------------------------------------
(* The invariants hold at first.                                           *)
LEMMA InitHolds == ScanInit => NotebookInv /\ RunnerInv
<1> SUFFICES ASSUME ScanInit PROVE NotebookInv /\ RunnerInv
  OBVIOUS
<1>1. PICK s \in Sessions :
        /\ runner = [r \in Runners |-> Resting] /\ printout = [r \in Runners |-> NoReport]
        /\ NotesInit(s.book, s.errands)
  BY DEF ScanInit
<1>2. IsBook(s.book)
  BY SessionsAssumption
<1> PICK book : book = s.book
  OBVIOUS
<1>3. /\ inodes = (IF book = EmptyBook THEN <<>> ELSE <<book>>)
      /\ tmp = 0 /\ live = (IF book = EmptyBook THEN 0 ELSE 1)
      /\ clerk = [p \in Clerks |-> Idle] /\ listing = [p \in Clerks |-> NoListing]
      /\ removal = [p \in Clerks |-> NoRemoval]
      /\ version = 0 /\ ideal = book /\ overlapped = FALSE
  BY <1>1 DEF NotesInit
<1>4. inodes \in Seq(Range(inodes)) /\ live \in 0..Len(inodes) /\ tmp \in 0..Len(inodes)
  <2>1. CASE book = EmptyBook
    BY <1>3, <2>1
  <2>2. CASE book # EmptyBook
    <3>1. inodes = <<book>> /\ book \in Range(inodes)
      BY <1>3, <2>2 DEF Range
    <3> QED BY <3>1, <1>3, <2>2
  <2> QED BY <2>1, <2>2
<1>5. OnDisk = ideal
  BY <1>3 DEF OnDisk
<1>6. NotesType
  BY <1>3, <1>4 DEF NotesType, Idle
<1>7. ListInv
  BY <1>3 DEF ListInv, NoListing
<1>8. Quiet
  BY <1>3, <1>2, <1>5 DEF Quiet
<1>9. RunnerInv
  BY <1>1, <1>3 DEF RunnerInv, Resting
<1>10. ListedNoteIsRemoved
  BY <1>3 DEF ListedNoteIsRemoved, NoRemoval
<1> QED BY <1>6, <1>7, <1>8, <1>9, <1>10 DEF NotebookInv

(* A new inode leaves the others as they are.                              *)
LEMMA Appending ==
  ASSUME NEW s, s \in Seq(Range(s)), NEW x
  PROVE  /\ Append(s, x) \in Seq(Range(Append(s, x)))
         /\ Len(Append(s, x)) = Len(s) + 1 /\ Len(s) \in Nat
         /\ \A i \in 1..Len(s) : Append(s, x)[i] = s[i]
         /\ Append(s, x)[Len(s) + 1] = x
<1> DEFINE t == Append(s, x)
<1>1. /\ t \in Seq(Range(s) \cup {x}) /\ Len(t) = Len(s) + 1 /\ Len(s) \in Nat
      /\ \A i \in 1..Len(s) : t[i] = s[i]
      /\ t[Len(s) + 1] = x
  OBVIOUS
<1> HIDE DEF t
<1>2. \A i \in 1..Len(t) : t[i] \in Range(t)
  BY <1>1 DEF Range
<1>3. t \in Seq(Range(t))
  BY <1>1, <1>2
<1> QED BY <1>1, <1>3 DEF t

(* So does rewriting one.                                                  *)
LEMMA Rewriting ==
  ASSUME NEW s, s \in Seq(Range(s)), NEW i \in 1..Len(s), NEW x
  PROVE  /\ [s EXCEPT ![i] = x] \in Seq(Range([s EXCEPT ![i] = x]))
         /\ Len([s EXCEPT ![i] = x]) = Len(s)
         /\ \A j \in 1..Len(s) : [s EXCEPT ![i] = x][j] = IF j = i THEN x ELSE s[j]
<1> DEFINE t == [s EXCEPT ![i] = x]
<1>1. /\ t \in Seq(Range(s) \cup {x}) /\ Len(t) = Len(s)
      /\ \A j \in 1..Len(s) : t[j] = IF j = i THEN x ELSE s[j]
  OBVIOUS
<1> HIDE DEF t
<1>2. \A j \in 1..Len(t) : t[j] \in Range(t)
  BY <1>1 DEF Range
<1>3. t \in Seq(Range(t))
  BY <1>1, <1>2
<1> QED BY <1>1, <1>3 DEF t

(* A save is under way.                                                    *)
Saved(p) == \E book, exact : Saving(p, book, exact)

(* A command reads, or starts to save if its process does nothing else.    *)
LEMMA Commands ==
  ASSUME NEW p \in Clerks, Add(p) \/ RemoveNote(p) \/ Prune(p) \/ Migrate(p) \/ List(p)
  PROVE  clerk[p] = Idle /\ (ReadOnly \/ (Saved(p) /\ UNCHANGED listing))
<1>1. CASE Add(p)
  BY <1>1 DEF Add, Starts, Saved
<1>2. CASE RemoveNote(p)
  BY <1>2 DEF RemoveNote, Starts, Saved
<1>3. CASE Prune(p)
  BY <1>3 DEF Prune, Starts, Saved
<1>4. CASE Migrate(p)
  BY <1>4 DEF Migrate, Starts, Saved
<1>5. CASE List(p)
  BY <1>5 DEF List, Starts
<1> QED BY <1>1, <1>2, <1>3, <1>4, <1>5

(* Commands keep the types.                                                *)
LEMMA CommandKeepsType ==
  ASSUME NotesType, NEW p \in Clerks, Add(p) \/ RemoveNote(p) \/ Prune(p) \/ Migrate(p) \/ List(p)
  PROVE  NotesType'
<1>1. clerk' = [q \in Clerks |-> clerk'[q]]
  <2>1. CASE ReadOnly
    BY <2>1 DEF ReadOnly, NotesType
  <2>2. CASE Saved(p)
    BY <2>2 DEF Saved, Saving, NotesType
  <2> QED BY <2>1, <2>2, Commands
<1>2. \A q \in Clerks :
        clerk'[q] = [stage |-> clerk'[q].stage, inode |-> clerk'[q].inode,
                     book |-> clerk'[q].book, exact |-> clerk'[q].exact]
  <2>1. CASE ReadOnly
    BY <2>1 DEF ReadOnly, NotesType
  <2>2. CASE Saved(p)
    BY <2>2 DEF Saved, Saving, NotesType
  <2> QED BY <2>1, <2>2, Commands
<1>3. UNCHANGED <<inodes, tmp, live, version>>
  BY Commands DEF ReadOnly, Saved, Saving
<1>6. \A q \in Clerks : clerk'[q].stage = "write" => clerk'[q].inode \in 1..Len(inodes)
  <2>1. CASE ReadOnly
    BY <2>1 DEF ReadOnly, NotesType
  <2>2. CASE Saved(p)
    BY <2>2 DEF Saved, Saving, NotesType
  <2> QED BY <2>1, <2>2, Commands
<1>4. listing' = [q \in Clerks |-> listing'[q]]
  BY DEF NotesType, Add, RemoveNote, Prune, Migrate, List
<1>5. removal' = [q \in Clerks |-> removal'[q]]
  <2>1. CASE RemoveNote(p)
    <3>1. removal' = removal \/ \E x : removal' = [removal EXCEPT ![p] = x]
      BY <2>1 DEF RemoveNote
    <3> QED BY <3>1 DEF NotesType
  <2>2. CASE ~RemoveNote(p)
    BY <2>2 DEF NotesType, Add, Prune, Migrate, List
  <2> QED BY <2>1, <2>2
<1> QED BY <1>1, <1>2, <1>3, <1>4, <1>5, <1>6 DEF NotesType

(* So does opening the temporary file,                                     *)
LEMMA OpenKeepsType ==
  ASSUME NotesType, NEW p \in Clerks, OpenTmp(p) PROVE NotesType'
<1> PICK i : i = IF tmp = 0 THEN Len(inodes) + 1 ELSE tmp
  OBVIOUS
<1>1. /\ inodes' = IF tmp = 0 THEN Append(inodes, Blank) ELSE [inodes EXCEPT ![tmp] = Blank]
      /\ tmp' = i /\ live' = live /\ listing' = listing /\ removal' = removal
      /\ clerk' = [clerk EXCEPT ![p].stage = "write", ![p].inode = i]
      /\ version' = version + (IF i = live THEN 1 ELSE 0)
  BY DEF OpenTmp
<1>2. inodes' \in Seq(Range(inodes')) /\ Len(inodes') >= Len(inodes) /\ i \in 1..Len(inodes')
  <2>1. CASE tmp = 0
    BY <1>1, <2>1, Appending DEF NotesType
  <2>2. CASE tmp # 0
    <3>1. tmp \in 1..Len(inodes)
      BY <2>2 DEF NotesType
    <3>2. inodes' = [inodes EXCEPT ![tmp] = Blank]
      BY <1>1, <2>2
    <3>3. inodes' \in Seq(Range(inodes')) /\ Len(inodes') = Len(inodes)
      <4> PICK s : s = inodes
        OBVIOUS
      <4> PICK k : k = tmp
        OBVIOUS
      <4>1. s \in Seq(Range(s)) /\ k \in 1..Len(s)
        BY <3>1 DEF NotesType
      <4>2. /\ [s EXCEPT ![k] = Blank] \in Seq(Range([s EXCEPT ![k] = Blank]))
            /\ Len([s EXCEPT ![k] = Blank]) = Len(s)
        BY <4>1, Rewriting
      <4> QED BY <3>2, <4>2
    <3> QED BY <3>1, <3>3, <2>2
  <2> QED BY <2>1, <2>2
<1>3. version' \in Nat
  BY <1>1 DEF NotesType
<1>4. clerk' = [q \in Clerks |-> clerk'[q]] /\
      \A q \in Clerks :
        clerk'[q] = [stage |-> clerk'[q].stage, inode |-> clerk'[q].inode,
                     book |-> clerk'[q].book, exact |-> clerk'[q].exact]
  BY <1>1 DEF NotesType
<1>9. \A q \in Clerks : clerk'[q].stage = "write" => clerk'[q].inode \in 1..Len(inodes')
  BY <1>1, <1>2 DEF NotesType
<1> QED BY <1>1, <1>2, <1>3, <1>4, <1>9 DEF NotesType

(* writing it,                                                             *)
LEMMA WriteKeepsType ==
  ASSUME NotesType, NEW p \in Clerks, WriteTmp(p) PROVE NotesType'
<1> PICK i \in 1..Len(inodes) : i = clerk[p].inode
  BY DEF NotesType, WriteTmp
<1>1. PICK content : inodes' = [inodes EXCEPT ![i] = content]
  BY DEF WriteTmp
<1>2. /\ tmp' = tmp /\ live' = live /\ listing' = listing /\ removal' = removal
      /\ clerk' = [clerk EXCEPT ![p].stage = "rename"]
      /\ version' = version + (IF i = live THEN 1 ELSE 0)
  BY DEF WriteTmp
<1>3. inodes' \in Seq(Range(inodes')) /\ Len(inodes') = Len(inodes)
  <2> PICK s : s = inodes
    OBVIOUS
  <2>1. s \in Seq(Range(s)) /\ i \in 1..Len(s)
    BY DEF NotesType
  <2>2. /\ [s EXCEPT ![i] = content] \in Seq(Range([s EXCEPT ![i] = content]))
        /\ Len([s EXCEPT ![i] = content]) = Len(s)
    BY <2>1, Rewriting, SMTT(20)
  <2>3. inodes' = [s EXCEPT ![i] = content]
    BY <1>1
  <2> QED BY <2>2, <2>3
<1>4. clerk' = [q \in Clerks |-> clerk'[q]] /\
      \A q \in Clerks :
        clerk'[q] = [stage |-> clerk'[q].stage, inode |-> clerk'[q].inode,
                     book |-> clerk'[q].book, exact |-> clerk'[q].exact]
  BY <1>2 DEF NotesType
<1>5. version' \in Nat
  BY <1>2 DEF NotesType
<1>9. \A q \in Clerks : clerk'[q].stage = "write" => clerk'[q].inode \in 1..Len(inodes')
  BY <1>2, <1>3 DEF NotesType
<1> QED BY <1>2, <1>3, <1>4, <1>5, <1>9 DEF NotesType

(* and renaming it, or a kill.                                             *)
LEMMA EndKeepsType ==
  ASSUME NotesType, NEW p \in Clerks, RenameTmp(p) \/ KillClerk(p) PROVE NotesType'
<1>1. /\ inodes' = inodes /\ listing' = listing /\ removal' = removal
      /\ clerk' = [clerk EXCEPT ![p] = Idle]
      /\ version' \in Nat /\ tmp' \in 0..Len(inodes) /\ live' \in 0..Len(inodes)
  BY DEF RenameTmp, KillClerk, NotesType
<1>4. clerk' = [q \in Clerks |-> clerk'[q]] /\
      \A q \in Clerks :
        clerk'[q] = [stage |-> clerk'[q].stage, inode |-> clerk'[q].inode,
                     book |-> clerk'[q].book, exact |-> clerk'[q].exact]
  BY <1>1 DEF NotesType, Idle
<1>9. \A q \in Clerks : clerk'[q].stage = "write" => clerk'[q].inode \in 1..Len(inodes')
  BY <1>1 DEF NotesType, Idle
<1> QED BY <1>1, <1>4, <1>9 DEF NotesType

(* The version changes whenever the published notes do: opening,           *)
LEMMA OpenIsDated ==
  ASSUME NotesType, NEW p \in Clerks, OpenTmp(p)
  PROVE  version' >= version /\ (version' = version => OnDisk' = OnDisk)
<1> PICK i : i = IF tmp = 0 THEN Len(inodes) + 1 ELSE tmp
  OBVIOUS
<1>1. /\ inodes' = IF tmp = 0 THEN Append(inodes, Blank) ELSE [inodes EXCEPT ![tmp] = Blank]
      /\ live' = live /\ version' = version + (IF i = live THEN 1 ELSE 0)
  BY DEF OpenTmp
<1>2. version' >= version
  BY <1>1 DEF NotesType
<1>3. ASSUME version' = version PROVE OnDisk' = OnDisk
  <2>1. i # live
    BY <1>1, <1>3 DEF NotesType
  <2>2. CASE live = 0
    BY <1>1, <2>2 DEF OnDisk
  <2>3. CASE live # 0
    <3>1. live \in 1..Len(inodes)
      BY <2>3 DEF NotesType
    <3>2. inodes'[live] = inodes[live]
      <4>1. CASE tmp = 0
        BY <1>1, <3>1, <4>1, Appending DEF NotesType
      <4>2. CASE tmp # 0
        BY <1>1, <2>1, <4>2
      <4> QED BY <4>1, <4>2
    <3> QED BY <1>1, <2>3, <3>2 DEF OnDisk
  <2> QED BY <2>2, <2>3
<1> QED BY <1>2, <1>3

(* writing                                                                 *)
LEMMA WriteIsDated ==
  ASSUME NotesType, NEW p \in Clerks, WriteTmp(p)
  PROVE  version' >= version /\ (version' = version => OnDisk' = OnDisk)
<1> PICK i : i = clerk[p].inode
  OBVIOUS
<1>1. PICK content : inodes' = [inodes EXCEPT ![i] = content]
  BY DEF WriteTmp
<1>2. live' = live /\ version' = version + (IF i = live THEN 1 ELSE 0)
  BY DEF WriteTmp
<1>3. version' >= version
  BY <1>2 DEF NotesType
<1>4. ASSUME version' = version PROVE OnDisk' = OnDisk
  <2>1. i # live
    BY <1>2, <1>4 DEF NotesType
  <2>2. inodes'[live] = inodes[live]
    BY <1>1, <2>1
  <2> QED BY <1>2, <2>2 DEF OnDisk
<1> QED BY <1>3, <1>4

(* and renaming.                                                           *)
LEMMA RenameIsDated ==
  ASSUME NotesType, NEW p \in Clerks, RenameTmp(p)
  PROVE  version' >= version /\ (version' = version => OnDisk' = OnDisk)
<1>1. inodes' = inodes
  BY DEF RenameTmp
<1>2. CASE tmp = 0
  BY <1>1, <1>2 DEF RenameTmp, OnDisk, NotesType
<1>3. CASE tmp # 0
  <2>1. version' = version + 1
    BY <1>3 DEF RenameTmp
  <2> QED BY <2>1 DEF NotesType
<1> QED BY <1>2, <1>3

(* A listing taken earlier stays dated.                                    *)
LEMMA ListingsStay ==
  ASSUME NotesType, ListInv, UNCHANGED listing, version' \in Nat,
         version' >= version, version' = version => OnDisk' = OnDisk
  PROVE  ListInv'
<1> SUFFICES ASSUME NEW q \in Clerks
    PROVE  /\ listing[q].at \in Int /\ listing[q].at <= version'
           /\ listing[q].at = version' =>
                \A pair \in Pairs : \A line \in listing[q].lines[pair] :
                  line.index \in Int /\ line.note = OnDisk'[pair][line.index + 1]
  BY DEF ListInv
<1>1. listing[q].at \in Int /\ listing[q].at <= version
  BY DEF ListInv
<1>2. listing[q].at = version' => version' = version
  BY <1>1 DEF NotesType
<1> QED BY <1>1, <1>2 DEF ListInv, NotesType

(* A listed line names the position of its note.                           *)
LEMMA PrintedLines ==
  ASSUME NEW book, NEW all, NEW pair \in Pairs, NEW line \in Lines(book, all)[pair]
  PROVE  line.index \in Int /\ line.note = book[pair][line.index + 1]
<1>1. PICK i \in 1..Len(book[pair]) : line = [index |-> i - 1, note |-> book[pair][i]]
  BY DEF Lines
<1> QED BY <1>1

(* A new listing is of the file as it is.                                  *)
LEMMA ListKeepsList ==
  ASSUME NotesType, ListInv, NEW p \in Clerks, List(p) PROVE ListInv'
<1>1. PICK all : listing' = [listing EXCEPT ![p] = [at |-> version, lines |-> Lines(OnDisk, all)]]
  BY DEF List
<1>2. UNCHANGED <<inodes, live, version>>
  BY DEF List, ReadOnly
<1>3. OnDisk' = OnDisk
  BY <1>2 DEF OnDisk
<1> SUFFICES ASSUME NEW q \in Clerks
    PROVE  /\ listing'[q].at \in Int /\ listing'[q].at <= version
           /\ listing'[q].at = version =>
                \A pair \in Pairs : \A line \in listing'[q].lines[pair] :
                  line.index \in Int /\ line.note = OnDisk[pair][line.index + 1]
  BY <1>2, <1>3 DEF ListInv
<1>4. CASE q = p
  <2>1. listing'[q].at = version /\ listing'[q].lines = Lines(OnDisk, all)
    BY <1>1, <1>4 DEF NotesType
  <2> QED BY <2>1, PrintedLines DEF NotesType
<1>5. CASE q # p
  <2>1. listing'[q] = listing[q]
    BY <1>1, <1>5 DEF NotesType
  <2> QED BY <2>1 DEF ListInv
<1> QED BY <1>4, <1>5

(* Removing by a listed position takes the listed note, if the file is the *)
(* one that was listed.                                                    *)
LEMMA RemovalIsListed ==
  ASSUME NotesType, ListInv, ListedNoteIsRemoved, NEW p \in Clerks, RemoveNote(p)
  PROVE  ListedNoteIsRemoved'
<1>1. PICK pair \in Pairs : \E line \in listing[p].lines[pair] :
        \/ UNCHANGED removal
        \/ removal' = [removal EXCEPT ![p] = IF version = listing[p].at
                                             THEN [wanted |-> line.note, took |-> OnDisk[pair][line.index + 1]]
                                             ELSE NoRemoval]
  BY DEF RemoveNote
<1>5. PICK line \in listing[p].lines[pair] :
        \/ UNCHANGED removal
        \/ removal' = [removal EXCEPT ![p] = IF version = listing[p].at
                                             THEN [wanted |-> line.note, took |-> OnDisk[pair][line.index + 1]]
                                             ELSE NoRemoval]
  BY <1>1
<1>2. CASE UNCHANGED removal
  BY <1>2 DEF ListedNoteIsRemoved
<1>3. CASE version = listing[p].at /\ removal' = [removal EXCEPT ![p] =
             [wanted |-> line.note, took |-> OnDisk[pair][line.index + 1]]]
  <2>1. line.note = OnDisk[pair][line.index + 1]
    BY <1>3 DEF ListInv
  <2> QED BY <1>3, <2>1 DEF ListedNoteIsRemoved, NotesType
<1>4. CASE removal' = [removal EXCEPT ![p] = NoRemoval]
  BY <1>4 DEF ListedNoteIsRemoved, NotesType, NoRemoval
<1> QED BY <1>5, <1>2, <1>3, <1>4

(* Every command makes a book of a book.                                   *)
LEMMA BooksStayBooks ==
  ASSUME NEW book, IsBook(book)
  PROVE  /\ \A pair \in Pairs : \A entry : IsBook(Added(book, pair, entry))
         /\ \A pair \in Pairs : \A index : IsBook(Removed(book, pair, index))
         /\ IsBook(Pruned(book)) /\ IsBook(Migrated(book))
<1>1. \A pair \in Pairs : \A entry : IsBook(Added(book, pair, entry))
  BY DEF IsBook, Added
<1>2. \A pair \in Pairs : \A index : IsBook(Removed(book, pair, index))
  BY DEF IsBook, Removed
<1>3. IsBook(Pruned(book))
  BY DEF IsBook, Pruned
<1>4. IsBook(Migrated(book))
  BY DEF IsBook, Migrated
<1> QED BY <1>1, <1>2, <1>3, <1>4

(* Until commands overlap, what is saved is what was asked for.            *)
SavesAsAsked(p) == \E book, exact : Saving(p, book, exact) /\ (~overlapped => book = exact /\ IsBook(exact))

(* Until commands overlap, what one saves is what it was asked for.        *)
LEMMA CommandsSaveAsAsked ==
  ASSUME Quiet, NEW p \in Clerks, Add(p) \/ RemoveNote(p) \/ Prune(p) \/ Migrate(p) \/ List(p)
  PROVE  ReadOnly \/ SavesAsAsked(p)
<1>0. ~overlapped => OnDisk = ideal /\ IsBook(ideal)
  BY DEF Quiet
<1>1. CASE Add(p)
  <2>1. PICK pair \in Pairs, draft \in Drafts :
          ReadOnly \/ Saving(p, Added(OnDisk, pair, MakeEntry(draft)), Added(ideal, pair, MakeEntry(draft)))
    BY <1>1 DEF Add
  <2>2. ~overlapped => Added(OnDisk, pair, MakeEntry(draft)) = Added(ideal, pair, MakeEntry(draft))
                       /\ IsBook(Added(ideal, pair, MakeEntry(draft)))
    BY <1>0, BooksStayBooks
  <2> QED BY <2>1, <2>2 DEF SavesAsAsked
<1>2. CASE RemoveNote(p)
  <2>1. PICK pair \in Pairs : \E line \in listing[p].lines[pair] :
          ReadOnly \/ Saving(p, Removed(OnDisk, pair, line.index), Removed(ideal, pair, line.index))
    BY <1>2 DEF RemoveNote
  <2>2. PICK line \in listing[p].lines[pair] :
          ReadOnly \/ Saving(p, Removed(OnDisk, pair, line.index), Removed(ideal, pair, line.index))
    BY <2>1
  <2>3. ~overlapped => Removed(OnDisk, pair, line.index) = Removed(ideal, pair, line.index)
                       /\ IsBook(Removed(ideal, pair, line.index))
    BY <1>0, BooksStayBooks
  <2> QED BY <2>2, <2>3 DEF SavesAsAsked
<1>3. CASE Prune(p)
  <2>1. ReadOnly \/ Saving(p, Pruned(OnDisk), Pruned(ideal))
    BY <1>3 DEF Prune
  <2>2. ~overlapped => Pruned(OnDisk) = Pruned(ideal) /\ IsBook(Pruned(ideal))
    BY <1>0, BooksStayBooks
  <2> QED BY <2>1, <2>2 DEF SavesAsAsked
<1>4. CASE Migrate(p)
  <2>1. ReadOnly \/ Saving(p, Migrated(OnDisk), Migrated(ideal))
    BY <1>4 DEF Migrate
  <2>2. ~overlapped => Migrated(OnDisk) = Migrated(ideal) /\ IsBook(Migrated(ideal))
    BY <1>0, BooksStayBooks
  <2> QED BY <2>1, <2>2 DEF SavesAsAsked
<1>5. CASE List(p)
  BY <1>5 DEF List
<1> QED BY <1>1, <1>2, <1>3, <1>4, <1>5

(* A command keeps the work in order, or overlaps another.                 *)
LEMMA QuietCommand ==
  ASSUME NotesType, Quiet, NEW p \in Clerks,
         Add(p) \/ RemoveNote(p) \/ Prune(p) \/ Migrate(p) \/ List(p)
  PROVE  Quiet'
<1>1. CASE ReadOnly
  <2>1. OnDisk' = OnDisk
    BY <1>1 DEF ReadOnly, OnDisk
  <2> QED BY <1>1, <2>1 DEF ReadOnly, Quiet
<1>2. CASE SavesAsAsked(p)
  <2>1. PICK book, exact : Saving(p, book, exact) /\ (~overlapped => book = exact /\ IsBook(exact))
    BY <1>2 DEF SavesAsAsked
  <2>2. /\ clerk' = [clerk EXCEPT ![p] = [stage |-> "open", inode |-> 0, book |-> book, exact |-> exact]]
        /\ overlapped' = (overlapped \/ \E q \in Clerks : clerk[q] # Idle)
        /\ UNCHANGED <<inodes, tmp, live, ideal>>
    BY <2>1 DEF Saving
  <2>3. OnDisk' = OnDisk
    BY <2>2 DEF OnDisk
  <2> SUFFICES ASSUME ~overlapped' PROVE Quiet'
    BY DEF Quiet
  <2>4. ~overlapped /\ \A q \in Clerks : clerk[q] = Idle
    BY <2>2
  <2>5. /\ clerk'[p] = [stage |-> "open", inode |-> 0, book |-> book, exact |-> exact]
        /\ \A q \in Clerks : q # p => clerk'[q] = Idle
    BY <2>2, <2>4 DEF NotesType
  <2>6. (tmp' # 0 => tmp' # live') /\ OnDisk' = ideal' /\ IsBook(ideal')
    BY <2>2, <2>3, <2>4 DEF Quiet
  <2>7. book = exact /\ IsBook(exact)
    BY <2>1, <2>4
  <2> QED BY <2>5, <2>6, <2>7 DEF Quiet
<1> QED BY <1>1, <1>2, CommandsSaveAsAsked

(* So does opening: the file it truncates is not the published one.        *)
LEMMA QuietOpen ==
  ASSUME NotesType, Quiet, NEW p \in Clerks, OpenTmp(p) PROVE Quiet'
<1> SUFFICES ASSUME ~overlapped' PROVE Quiet'
  BY DEF Quiet
<1> PICK i : i = IF tmp = 0 THEN Len(inodes) + 1 ELSE tmp
  OBVIOUS
<1>1. /\ inodes' = IF tmp = 0 THEN Append(inodes, Blank) ELSE [inodes EXCEPT ![tmp] = Blank]
      /\ tmp' = i /\ live' = live /\ ideal' = ideal /\ overlapped' = overlapped
      /\ clerk' = [clerk EXCEPT ![p].stage = "write", ![p].inode = i]
      /\ clerk[p].stage = "open"
      /\ version' = version + (IF i = live THEN 1 ELSE 0)
  BY DEF OpenTmp
<1>2. /\ tmp # 0 => tmp # live
      /\ OnDisk = ideal /\ IsBook(ideal)
      /\ clerk[p] # Idle
  BY <1>1 DEF Quiet, Idle
<1>3. /\ clerk[p].book = clerk[p].exact /\ IsBook(clerk[p].exact)
      /\ \A q \in Clerks : clerk[q] # Idle => q = p
  BY <1>1, <1>2 DEF Quiet
<1>4. i # live /\ i # 0 /\ inodes'[i] = Blank
  <2>1. CASE tmp = 0
    BY <2>1, <1>1, Appending DEF NotesType
  <2>2. CASE tmp # 0
    <3>1. tmp \in 1..Len(inodes)
      BY <2>2 DEF NotesType
    <3> QED BY <2>2, <3>1, <1>1, <1>2, Rewriting DEF NotesType
  <2> QED BY <2>1, <2>2
<1>5. OnDisk' = OnDisk
  BY <1>1, <1>4, OpenIsDated DEF NotesType
<1>6. /\ clerk'[p].stage = "write" /\ clerk'[p].inode = i
      /\ clerk'[p].book = clerk[p].book /\ clerk'[p].exact = clerk[p].exact
  <2>1. clerk' = [clerk EXCEPT ![p].stage = "write", ![p].inode = i]
    BY <1>1
  <2> DEFINE begun == [clerk EXCEPT ![p].stage = "write"]
  <2>2. /\ begun = [q \in Clerks |-> begun[q]] /\ begun[p].stage = "write"
        /\ begun[p].book = clerk[p].book /\ begun[p].exact = clerk[p].exact
        /\ DOMAIN begun[p] = {"stage", "inode", "book", "exact"}
    BY DEF NotesType
  <2>3. clerk' = [begun EXCEPT ![p].inode = i]
    BY <2>1
  <2> HIDE DEF begun
  <2> QED BY <2>2, <2>3
<1>7. \A q \in Clerks : q # p => clerk'[q] = Idle
  BY <1>1, <1>3 DEF NotesType
<1>8. /\ tmp' # 0 => tmp' # live'
      /\ OnDisk' = ideal' /\ IsBook(ideal')
  BY <1>1, <1>2, <1>4, <1>5
<1>9. tmp' = i
  BY <1>1
<1> QED BY <1>3, <1>4, <1>6, <1>7, <1>8, <1>9 DEF Quiet

(* Writing finds its own truncated file.                                   *)
LEMMA QuietWrite ==
  ASSUME NotesType, Quiet, NEW p \in Clerks, WriteTmp(p) PROVE Quiet'
<1> SUFFICES ASSUME ~overlapped' PROVE Quiet'
  BY DEF Quiet
<1>1. /\ tmp' = tmp /\ live' = live /\ ideal' = ideal /\ overlapped' = overlapped
      /\ clerk' = [clerk EXCEPT ![p].stage = "rename"]
      /\ clerk[p].stage = "write"
      /\ version' = version + (IF clerk[p].inode = live THEN 1 ELSE 0)
  BY DEF WriteTmp
<1>2. /\ tmp # 0 => tmp # live
      /\ OnDisk = ideal /\ IsBook(ideal)
      /\ clerk[p] # Idle
  BY <1>1 DEF Quiet, Idle
<1>3. /\ clerk[p].book = clerk[p].exact /\ IsBook(clerk[p].exact)
      /\ tmp # 0 /\ clerk[p].inode = tmp /\ inodes[tmp] = Blank
      /\ \A q \in Clerks : clerk[q] # Idle => q = p
  BY <1>1, <1>2 DEF Quiet
<1>4. inodes' = [inodes EXCEPT ![tmp] = clerk[p].book]
  BY <1>3 DEF WriteTmp
<1>5. inodes'[tmp] = clerk[p].book
  <2>1. tmp \in 1..Len(inodes)
    BY <1>3 DEF NotesType
  <2> QED BY <1>4, <2>1, Rewriting DEF NotesType
<1>6. OnDisk' = OnDisk
  BY <1>1, <1>2, <1>3, WriteIsDated DEF NotesType
<1>7. clerk'[p] = [stage |-> "rename", inode |-> clerk[p].inode, book |-> clerk[p].book, exact |-> clerk[p].exact]
  BY <1>1 DEF NotesType
<1>8. \A q \in Clerks : q # p => clerk'[q] = Idle
  BY <1>1, <1>3 DEF NotesType
<1>9. /\ tmp' # 0 => tmp' # live'
      /\ OnDisk' = ideal' /\ IsBook(ideal')
  BY <1>1, <1>2, <1>6
<1> QED BY <1>1, <1>3, <1>5, <1>7, <1>8, <1>9 DEF Quiet

(* Renaming publishes what the clerk has written.                          *)
LEMMA QuietRename ==
  ASSUME NotesType, Quiet, NEW p \in Clerks, RenameTmp(p) PROVE Quiet'
<1> SUFFICES ASSUME ~overlapped' PROVE Quiet'
  BY DEF Quiet
<1>1. /\ inodes' = inodes /\ overlapped' = overlapped
      /\ clerk' = [clerk EXCEPT ![p] = Idle]
      /\ clerk[p].stage = "rename"
  BY DEF RenameTmp
<1>2. clerk[p] # Idle
  BY <1>1 DEF Idle
<1>3. /\ clerk[p].book = clerk[p].exact /\ IsBook(clerk[p].exact)
      /\ tmp # 0 /\ inodes[tmp] = clerk[p].book
      /\ \A q \in Clerks : clerk[q] # Idle => q = p
  BY <1>1, <1>2 DEF Quiet
<1>4. live' = tmp /\ tmp' = 0 /\ ideal' = clerk[p].exact
  BY <1>3 DEF RenameTmp
<1>5. OnDisk' = ideal'
  BY <1>1, <1>3, <1>4 DEF OnDisk
<1>6. \A q \in Clerks : clerk'[q] = Idle
  BY <1>1, <1>3 DEF NotesType
<1> QED BY <1>3, <1>4, <1>5, <1>6 DEF Quiet

(* A kill publishes nothing.                                               *)
LEMMA QuietKill ==
  ASSUME NotesType, Quiet, NEW p \in Clerks, KillClerk(p) PROVE Quiet'
<1>1. /\ UNCHANGED <<inodes, tmp, live, ideal, overlapped>>
      /\ clerk' = [clerk EXCEPT ![p] = Idle]
  BY DEF KillClerk
<1>2. OnDisk' = OnDisk
  BY <1>1 DEF OnDisk
<1>3. \A q \in Clerks : clerk'[q] = Idle \/ clerk'[q] = clerk[q]
  BY <1>1 DEF NotesType
<1> QED BY <1>1, <1>2, <1>3 DEF Quiet

(* A run finds notes unreadable only when they are.                        *)
LEMMA OutcomesOfRuns ==
  ASSUME NEW line, NEW market, NEW reg, NEW found
  PROVE  /\ "unread" \in DOMAIN Run(line, market, reg, found)
         /\ Readable => Run(line, market, reg, found).unread = FALSE
<1>1. "unread" \in DOMAIN Run(line, market, reg, found)
  BY DEF Run, BugScan, RunWatchlist, ConvictionScan, Ask, RunAll, Outcome, Home
<1>2. ASSUME Readable PROVE Run(line, market, reg, found).unread = FALSE
  BY <1>2 DEF Run, BugScan, RunWatchlist, ConvictionScan, Ask, RunAll, Outcome, Home
<1> QED BY <1>1, <1>2

(* What a step of a runner makes of its own state: the result it carries   *)
(* is that of a run, and keeps all it says but the chop score.             *)
Shaped ==
  /\ runner = [r \in Runners |-> runner[r]]
  /\ printout = [r \in Runners |-> printout[r]]
  /\ \A r \in Runners :
       runner[r] = [stage |-> runner[r].stage, result |-> runner[r].result, loaded |-> runner[r].loaded]
Moved(r) ==
  /\ printout' = printout
  /\ runner' = [q \in Runners |-> runner'[q]]
  /\ \A q \in Runners : q # r => runner'[q] = runner[q]
  /\ runner'[r] = [stage |-> runner'[r].stage, result |-> runner'[r].result, loaded |-> runner'[r].loaded]
Rescored(x, y) == \E chop, recent : x = [[y EXCEPT !.chop = chop] EXCEPT !.recent = recent]
Ran(x) ==
  \E line \in session.lines, market \in Markets(session.feed), reg \in session.registries :
    x = Run(line, market, reg, Scanned(line, market, reg))
Proceeds(r) ==
  /\ Moved(r)
  /\ \/ runner'[r].stage = "idle"
     \/ /\ runner[r].stage # "idle"
        /\ runner'[r].result = runner[r].result \/ Rescored(runner'[r].result, runner[r].result)
     \/ Ran(runner'[r].result)

(* Most steps only change the stage.                                       *)
LEMMA NextStage ==
  ASSUME Shaped, NEW r \in Runners, NEW stage,
         runner[r].stage # "idle", printout' = printout, runner' = [runner EXCEPT ![r].stage = stage]
  PROVE  Proceeds(r)
<1>1. /\ runner' = [q \in Runners |-> runner'[q]]
      /\ \A q \in Runners : q # r => runner'[q] = runner[q]
      /\ runner'[r] = [stage |-> stage, result |-> runner[r].result, loaded |-> runner[r].loaded]
  BY DEF Shaped
<1> QED BY <1>1 DEF Proceeds, Moved

(* And every step of a runner but the printing does one of the three.      *)
LEMMA RunnersProceed ==
  ASSUME Shaped, NEW r \in Runners,
         \/ Launch(r) \/ LoadHistory(r) \/ OpenHistory(r) \/ WriteHistory(r) \/ ReadHistory(r)
         \/ OpenView(r) \/ CopyView(r) \/ KillRunner(r)
  PROVE  Proceeds(r)
<1>1. CASE Launch(r)
  <2>1. PICK line \in session.lines, market \in Markets(session.feed), reg \in session.registries :
          \E result \in {Run(line, market, reg, Scanned(line, market, reg))} :
            runner' = [runner EXCEPT ![r] = [stage |-> FirstStage(result), result |-> result, loaded |-> <<>>]]
    BY <1>1 DEF Launch
  <2> PICK result : result = Run(line, market, reg, Scanned(line, market, reg))
    OBVIOUS
  <2>2. runner' = [runner EXCEPT ![r] = [stage |-> FirstStage(result), result |-> result, loaded |-> <<>>]]
    BY <2>1
  <2>3. printout' = printout
    BY <1>1 DEF Launch
  <2>4. Moved(r) /\ runner'[r].result = result
    BY <2>2, <2>3 DEF Moved, Shaped
  <2>5. Ran(result)
    BY DEF Ran
  <2> QED BY <2>4, <2>5 DEF Proceeds
<1>2. CASE LoadHistory(r)
  <2>1. /\ printout' = printout /\ runner[r].stage # "idle"
        /\ runner' = [runner EXCEPT ![r].stage = "open", ![r].loaded = Parsed]
    BY <1>2 DEF LoadHistory
  <2> DEFINE begun == [runner EXCEPT ![r].stage = "open"]
  <2>2. /\ begun = [q \in Runners |-> begun[q]]
        /\ \A q \in Runners : q # r => begun[q] = runner[q]
        /\ begun[r] = [stage |-> "open", result |-> runner[r].result, loaded |-> runner[r].loaded]
    BY DEF Shaped
  <2>3. runner' = [begun EXCEPT ![r].loaded = Parsed]
    BY <2>1
  <2> HIDE DEF begun
  <2>4. /\ runner' = [q \in Runners |-> runner'[q]]
        /\ \A q \in Runners : q # r => runner'[q] = runner[q]
        /\ runner'[r] = [stage |-> "open", result |-> runner[r].result, loaded |-> Parsed]
    BY <2>2, <2>3
  <2>5. Moved(r)
    BY <2>1, <2>4 DEF Moved
  <2>6. runner'[r].result = runner[r].result
    BY <2>4
  <2> QED BY <2>1, <2>5, <2>6, Zenon DEF Proceeds
<1>3. CASE OpenHistory(r)
  BY <1>3, NextStage DEF OpenHistory
<1>4. CASE WriteHistory(r)
  BY <1>4, NextStage DEF WriteHistory
<1>5. CASE ReadHistory(r)
  <2>1. PICK stage, chop, recent :
        /\ printout' = printout /\ runner[r].stage # "idle"
        /\ runner' = [runner EXCEPT ![r].stage = stage, ![r].result.chop = chop, ![r].result.recent = recent]
    BY <1>5 DEF ReadHistory
  <2> DEFINE staged == [runner EXCEPT ![r].stage = stage]
             scored == [staged EXCEPT ![r].result.chop = chop]
  <2>2. /\ staged = [q \in Runners |-> staged[q]]
        /\ \A q \in Runners : q # r => staged[q] = runner[q]
        /\ staged[r] = [stage |-> stage, result |-> runner[r].result, loaded |-> runner[r].loaded]
    BY DEF Shaped
  <2>3. runner' = [scored EXCEPT ![r].result.recent = recent]
    BY <2>1
  <2> HIDE DEF staged
  <2>4. /\ scored = [q \in Runners |-> scored[q]]
        /\ \A q \in Runners : q # r => scored[q] = runner[q]
        /\ scored[r] = [stage |-> stage, result |-> [runner[r].result EXCEPT !.chop = chop], loaded |-> runner[r].loaded]
    BY <2>2
  <2> HIDE DEF scored
  <2>5. PICK result : result = [scored[r].result EXCEPT !.recent = recent]
    OBVIOUS
  <2>6. /\ runner' = [q \in Runners |-> runner'[q]]
        /\ \A q \in Runners : q # r => runner'[q] = runner[q]
        /\ runner'[r] = [stage |-> stage, result |-> result, loaded |-> runner[r].loaded]
    <3>1. runner' = [scored EXCEPT ![r] = [scored[r] EXCEPT !.result = result]]
      BY <2>3, <2>5
    <3>2. runner'[r] = [scored[r] EXCEPT !.result = result]
      BY <3>1, <2>4
    <3> QED BY <3>1, <3>2, <2>4
  <2> PICK old : old = runner[r].result
    OBVIOUS
  <2>7. Rescored(result, old)
    <3>1. scored[r].result = [old EXCEPT !.chop = chop]
      BY <2>4
    <3>2. result = [[old EXCEPT !.chop = chop] EXCEPT !.recent = recent]
      BY <2>5, <3>1
    <3> QED BY <3>2 DEF Rescored
  <2>8. Moved(r)
    BY <2>1, <2>6 DEF Moved
  <2>9. runner'[r].result = result
    BY <2>6
  <2>10. Rescored(runner'[r].result, runner[r].result)
    BY <2>7, <2>9, Zenon
  <2> QED BY <2>1, <2>8, <2>10, Zenon DEF Proceeds
<1>6. CASE OpenView(r)
  BY <1>6, NextStage DEF OpenView
<1>7. CASE CopyView(r)
  BY <1>7, NextStage DEF CopyView
<1>8. CASE KillRunner(r)
  BY <1>8 DEF KillRunner, Resting, Moved, Proceeds, Shaped
<1> QED BY <1>1, <1>2, <1>3, <1>4, <1>5, <1>6, <1>7, <1>8

(* A result stays sound while its run proceeds.                            *)
Stepped(r) == Moved(r) /\ (runner'[r].stage # "idle" => Legible(runner'[r].result, overlapped))

LEMMA RunnersStep ==
  ASSUME DamageIsNoBook, Quiet, RunnerInv, NEW r \in Runners,
         \/ Launch(r) \/ LoadHistory(r) \/ OpenHistory(r) \/ WriteHistory(r) \/ ReadHistory(r)
         \/ OpenView(r) \/ CopyView(r) \/ KillRunner(r)
  PROVE  Stepped(r)
<1>1. Proceeds(r)
  BY RunnersProceed DEF RunnerInv, Shaped
<1> PICK old, new : old = runner[r].result /\ new = runner'[r].result
  OBVIOUS
<1>2. ASSUME runner[r].stage # "idle", new = old \/ Rescored(new, old) PROVE Legible(new, overlapped)
  <2>1. "unread" \in DOMAIN old /\ (~overlapped => ~old.unread)
    BY <1>2 DEF RunnerInv, Legible
  <2>2. "unread" \in DOMAIN new /\ new.unread = old.unread
    <3>1. CASE new = old
      BY <2>1, <3>1
    <3>2. CASE Rescored(new, old)
      <4>1. PICK chop, recent : new = [[old EXCEPT !.chop = chop] EXCEPT !.recent = recent]
        BY <3>2 DEF Rescored
      <4> QED BY <2>1, <4>1
    <3> QED BY <1>2, <3>1, <3>2
  <2> QED BY <2>1, <2>2 DEF Legible
<1>3. ASSUME Ran(new) PROVE Legible(new, overlapped)
  <2>1. PICK line, market, reg, found : new = Run(line, market, reg, found)
    BY <1>3 DEF Ran
  <2>2. ~overlapped => Readable
    BY DEF Quiet, DamageIsNoBook, Readable
  <2> QED BY <2>1, <2>2, OutcomesOfRuns DEF Legible
<1> QED BY <1>1, <1>2, <1>3 DEF Proceeds, Stepped

(* Runners keep their invariant, printing what they have found.            *)
LEMMA RunnersKeepInv ==
  ASSUME RunnerInv, NEW r \in Runners, Stepped(r) \/ PrintReport(r), UNCHANGED overlapped
  PROVE  RunnerInv'
<1>1. CASE Stepped(r)
  <2>1. \A q \in Runners :
          /\ runner'[q] = [stage |-> runner'[q].stage, result |-> runner'[q].result, loaded |-> runner'[q].loaded]
          /\ runner'[q].stage # "idle" => Legible(runner'[q].result, overlapped)
    BY <1>1 DEF Stepped, Moved, RunnerInv
  <2>2. \A q \in Runners : printout'[q] = NoReport \/ Legible(printout'[q], overlapped)
    BY <1>1 DEF Stepped, Moved, RunnerInv
  <2> QED BY <1>1, <2>1, <2>2 DEF Stepped, Moved, RunnerInv
<1>2. CASE PrintReport(r)
  <2>1. /\ runner[r].stage # "idle"
        /\ printout' = [printout EXCEPT ![r] = runner[r].result]
        /\ runner' = [runner EXCEPT ![r] = Resting]
    BY <1>2 DEF PrintReport
  <2>2. \A q \in Runners :
          /\ runner'[q] = [stage |-> runner'[q].stage, result |-> runner'[q].result, loaded |-> runner'[q].loaded]
          /\ runner'[q].stage # "idle" => Legible(runner'[q].result, overlapped)
    BY <2>1 DEF Resting, RunnerInv
  <2>3. \A q \in Runners : printout'[q] = NoReport \/ Legible(printout'[q], overlapped)
    BY <2>1 DEF RunnerInv
  <2>4. runner' = [q \in Runners |-> runner'[q]] /\ printout' = [q \in Runners |-> printout'[q]]
    BY <2>1 DEF RunnerInv
  <2> QED BY <2>2, <2>3, <2>4 DEF RunnerInv
<1> QED BY <1>1, <1>2

(* It does not depend on the notebook but for the overlap.                 *)
LEMMA RunnersRest ==
  ASSUME RunnerInv, UNCHANGED <<runner, printout>>, overlapped => overlapped' PROVE RunnerInv'
<1>1. \A result : Legible(result, overlapped) => Legible(result, overlapped')
  BY DEF Legible
<1> QED BY <1>1 DEF RunnerInv

(* Steps that touch no file of the notebook keep its invariant,            *)
LEMMA NotebookRests ==
  ASSUME NotesType, ListInv, Quiet, ListedNoteIsRemoved,
         UNCHANGED <<inodes, tmp, live, clerk, listing, removal, version, ideal, overlapped>>
  PROVE  NotesType' /\ ListInv' /\ Quiet' /\ ListedNoteIsRemoved'
<1>1. OnDisk' = OnDisk
  BY DEF OnDisk
<1>2. NotesType'
  BY DEF NotesType
<1>3. ListInv'
  BY <1>1 DEF ListInv
<1>4. Quiet'
  BY <1>1 DEF Quiet
<1>5. ListedNoteIsRemoved'
  BY DEF ListedNoteIsRemoved
<1> QED BY <1>2, <1>3, <1>4, <1>5

(* so do commands,                                                         *)
LEMMA CommandKeepsNotebook ==
  ASSUME NotebookInv, NEW p \in Clerks,
         Add(p) \/ RemoveNote(p) \/ Prune(p) \/ Migrate(p) \/ List(p)
  PROVE  NotebookInv'
<1>1. NotesType'
  BY CommandKeepsType DEF NotebookInv
<1>2. Quiet'
  BY QuietCommand DEF NotebookInv
<1>3. UNCHANGED <<inodes, live, version>>
  BY Commands DEF ReadOnly, Saved, Saving
<1>4. OnDisk' = OnDisk
  BY <1>3 DEF OnDisk
<1>5. ListInv'
  <2>1. CASE List(p)
    BY <2>1, ListKeepsList DEF NotebookInv
  <2>2. CASE ~List(p)
    <3>1. UNCHANGED listing
      BY <2>2 DEF Add, RemoveNote, Prune, Migrate
    <3>2. version' \in Nat /\ version' >= version
      BY <1>3 DEF NotebookInv, NotesType
    <3> QED BY <3>1, <3>2, <1>4, ListingsStay DEF NotebookInv
  <2> QED BY <2>1, <2>2
<1>6. ListedNoteIsRemoved'
  <2>1. CASE RemoveNote(p)
    BY <2>1, RemovalIsListed DEF NotebookInv
  <2>2. CASE ~RemoveNote(p)
    <3>1. UNCHANGED removal
      BY <2>2 DEF Add, Prune, Migrate, List
    <3> QED BY <3>1 DEF NotebookInv, ListedNoteIsRemoved
  <2> QED BY <2>1, <2>2
<1> QED BY <1>1, <1>2, <1>5, <1>6 DEF NotebookInv

(* and saves.                                                              *)
LEMMA SavingKeepsNotebook ==
  ASSUME NotebookInv, NEW p \in Clerks, OpenTmp(p) \/ WriteTmp(p) \/ RenameTmp(p) \/ KillClerk(p)
  PROVE  NotebookInv'
<1>1. NotesType'
  BY OpenKeepsType, WriteKeepsType, EndKeepsType DEF NotebookInv
<1>2. Quiet'
  BY QuietOpen, QuietWrite, QuietRename, QuietKill DEF NotebookInv
<1>3. UNCHANGED <<listing, removal, overlapped>>
  BY DEF OpenTmp, WriteTmp, RenameTmp, KillClerk
<1>4. version' >= version /\ (version' = version => OnDisk' = OnDisk)
  <2>1. CASE KillClerk(p)
    BY <2>1 DEF KillClerk, OnDisk, NotebookInv, NotesType
  <2>2. CASE ~KillClerk(p)
    BY <2>2, OpenIsDated, WriteIsDated, RenameIsDated DEF NotebookInv
  <2> QED BY <2>1, <2>2
<1>5. version' \in Nat
  BY <1>1 DEF NotesType
<1>6. ListInv'
  BY <1>3, <1>4, <1>5, ListingsStay DEF NotebookInv
<1>7. ListedNoteIsRemoved'
  BY <1>3 DEF NotebookInv, ListedNoteIsRemoved
<1> QED BY <1>1, <1>2, <1>6, <1>7 DEF NotebookInv

(* One step of a runner.                                                   *)
RunnerSteps(r) ==
  \/ Launch(r) \/ LoadHistory(r) \/ OpenHistory(r) \/ WriteHistory(r) \/ ReadHistory(r)
  \/ OpenView(r) \/ CopyView(r) \/ PrintReport(r) \/ KillRunner(r)

(* Runners only read the notebook.                                         *)
LEMMA RunnersKeepNotes ==
  ASSUME NEW r \in Runners, RunnerSteps(r) PROVE UNCHANGED notesVars
  BY DEF RunnerSteps, Launch, LoadHistory, OpenHistory, WriteHistory, ReadHistory, OpenView, CopyView,
         PrintReport, KillRunner, KeepsNotes

(* Every step keeps the invariant of the notebook.                         *)
LEMMA NotebookIsKept ==
  ASSUME NotebookInv, [ScanNext]_batchVars PROVE NotebookInv'
<1>1. CASE UNCHANGED notesVars \/ PassDay
  <2>1. UNCHANGED <<inodes, tmp, live, clerk, listing, removal, version, ideal, overlapped>>
    BY <1>1 DEF notesVars, PassDay
  <2> QED BY <2>1, NotebookRests DEF NotebookInv
<1>2. CASE \E p \in Clerks : Add(p) \/ RemoveNote(p) \/ Prune(p) \/ Migrate(p) \/ List(p)
  BY <1>2, CommandKeepsNotebook
<1>3. CASE \E p \in Clerks : OpenTmp(p) \/ WriteTmp(p) \/ RenameTmp(p) \/ KillClerk(p)
  BY <1>3, SavingKeepsNotebook
<1>4. CASE UNCHANGED batchVars
  BY <1>1, <1>4 DEF batchVars
<1>5. CASE \E r \in Runners : RunnerSteps(r)
  BY <1>1, <1>5, RunnersKeepNotes
<1> QED BY <1>1, <1>2, <1>3, <1>4, <1>5 DEF ScanNext, NotesNext, RunnerSteps

(* An overlap is not forgotten.                                            *)
LEMMA ClerksKeepMixed ==
  ASSUME NotesNext PROVE overlapped => overlapped'
<1>1. ASSUME NEW p \in Clerks, Add(p) \/ RemoveNote(p) \/ Prune(p) \/ Migrate(p) \/ List(p)
      PROVE  overlapped => overlapped'
  BY <1>1, Commands DEF ReadOnly, Saved, Saving
<1>2. ASSUME NEW p \in Clerks, OpenTmp(p) \/ WriteTmp(p) \/ RenameTmp(p) \/ KillClerk(p)
      PROVE  overlapped => overlapped'
  BY <1>2 DEF OpenTmp, WriteTmp, RenameTmp, KillClerk
<1>3. ASSUME PassDay PROVE overlapped => overlapped'
  BY <1>3 DEF PassDay
<1> QED BY <1>1, <1>2, <1>3 DEF NotesNext

(* Every step keeps the invariant of the runners.                          *)
LEMMA RunnersAreKept ==
  ASSUME DamageIsNoBook, NotebookInv, RunnerInv, [ScanNext]_batchVars PROVE RunnerInv'
<1>1. CASE \E r \in Runners : RunnerSteps(r)
  <2>1. PICK r \in Runners : RunnerSteps(r)
    BY <1>1
  <2>2. UNCHANGED overlapped
    BY <2>1, RunnersKeepNotes DEF notesVars
  <2>3. Stepped(r) \/ PrintReport(r)
    BY <2>1, RunnersStep DEF NotebookInv, RunnerSteps
  <2> QED BY <2>2, <2>3, RunnersKeepInv
<1>2. CASE NotesNext /\ UNCHANGED scanVars
  BY <1>2, ClerksKeepMixed, RunnersRest DEF scanVars
<1>3. CASE UNCHANGED batchVars
  BY <1>3, RunnersRest DEF batchVars, notesVars, scanVars
<1> QED BY <1>1, <1>2, <1>3 DEF ScanNext, RunnerSteps

(* The invariant of the notebook holds throughout.                         *)
LEMMA NotebookHolds == ScanSpec => []NotebookInv
<1>1. ScanInit => NotebookInv
  BY InitHolds
<1>2. NotebookInv /\ [ScanNext]_batchVars => NotebookInv'
  BY NotebookIsKept
<1> QED BY <1>1, <1>2, PTL DEF ScanSpec

(* The index that list shows beside a note removes that note, as long as   *)
(* the file has not changed in between (run.py:198-205, notes.py:127-137), *)
(* however commands overlap and wherever they are killed.                  *)
THEOREM RemovedAsListed == ScanSpec => []ListedNoteIsRemoved
<1>1. NotebookInv => ListedNoteIsRemoved
  BY DEF NotebookInv
<1> QED BY <1>1, NotebookHolds, PTL

(* Commands that do not overlap leave exactly the notes they were asked    *)
(* for, wherever one is killed, and no scan meets a notebook it cannot     *)
(* read (notes.py:70-77).                                                  *)
THEOREM NotebookStaysExact == ASSUME DamageIsNoBook PROVE ScanSpec => []NotebookIsExact
<1>1. ScanInit => RunnerInv
  BY InitHolds
<1>2. NotebookInv /\ RunnerInv /\ [ScanNext]_batchVars => RunnerInv'
  BY RunnersAreKept
<1>3. NotebookInv /\ RunnerInv => NotebookIsExact
  <2> SUFFICES ASSUME NotebookInv, RunnerInv, ~overlapped
      PROVE OnDisk = ideal /\ \A r \in Printed : ~printout[r].unread
    BY DEF NotebookIsExact
  <2>1. OnDisk = ideal
    BY DEF NotebookInv, Quiet
  <2>2. \A r \in Printed : ~printout[r].unread
    BY DEF RunnerInv, Printed, Legible
  <2> QED BY <2>1, <2>2
<1> QED BY <1>1, <1>2, <1>3, NotebookHolds, PTL DEF ScanSpec

-----------------------------------------------------------------------------
(* What a run reports is what its command line makes of its candles *)

(* A function on the first numbers is a sequence.                          *)
LEMMA ListsAreSequences ==
  ASSUME NEW S PROVE \A k \in Nat : \A f \in [1..k -> S] : f \in Seq(S)
  OBVIOUS

(* Whatever is listed from 1 to n is a sequence of its elements.           *)
LEMMA Listed ==
  ASSUME NEW n \in Nat, NEW f, f = [i \in 1..n |-> f[i]]
  PROVE  f \in Seq(Range(f)) /\ Len(f) = n
<1>1. f \in [1..n -> Range(f)]
  BY DEF Range
<1>2. \A k \in Nat : \A V : \A g \in [1..k -> V] : g \in Seq(V) /\ Len(g) = k
  OBVIOUS
<1> QED BY <1>1, <1>2

(* The elements of a sequence that are in a set.                           *)
LEMMA AmongIs ==
  ASSUME NEW V, NEW s \in Seq(V), NEW S
  PROVE  Among(s, S) \in Seq(V) /\ ToSet(Among(s, S)) = ToSet(s) \cap S
<1> DEFINE parts == [i \in DOMAIN s |-> IF s[i] \in S THEN <<s[i]>> ELSE <<>>]
<1>1. DOMAIN s = 1..Len(s) /\ Len(s) \in Nat /\ \A i \in 1..Len(s) : s[i] \in V
  OBVIOUS
<1>2. \A i \in 1..Len(s) : parts[i] = IF s[i] \in S THEN <<s[i]>> ELSE <<>>
  BY <1>1
<1>3. parts \in [1..Len(s) -> Seq(V)]
  <2>1. \A i \in 1..Len(s) : parts[i] \in Seq(V)
    BY <1>1, <1>2
  <2> QED BY <1>1, <2>1
<1> HIDE DEF parts
<1>4. \A i \in 1..Len(s) : ToSet(parts[i]) = IF s[i] \in S THEN {s[i]} ELSE {}
  <2>1. \A x : ToSet(<<x>>) = {x} /\ ToSet(<< >>) = {}
    BY DEF ToSet
  <2> QED BY <1>2, <2>1
<1>5. parts \in Seq(Seq(V)) /\ Len(parts) = Len(s)
  BY <1>1, <1>3
<1>6. /\ FlattenSeq(parts) \in Seq(V)
      /\ ToSet(FlattenSeq(parts)) = UNION {ToSet(parts[i]) : i \in 1..Len(s)}
  BY <1>5, FlattenElems
<1>7. UNION {ToSet(parts[i]) : i \in 1..Len(s)} = ToSet(s) \cap S
  <2>1. \A x : x \in ToSet(s) <=> \E i \in 1..Len(s) : x = s[i]
    BY <1>1 DEF ToSet
  <2> PICK elems : elems = [i \in 1..Len(s) |-> ToSet(parts[i])]
    OBVIOUS
  <2>2. \A i \in 1..Len(s) : elems[i] = ToSet(parts[i]) /\ elems[i] = IF s[i] \in S THEN {s[i]} ELSE {}
    BY <1>4
  <2>3. UNION {ToSet(parts[i]) : i \in 1..Len(s)} = UNION {elems[i] : i \in 1..Len(s)}
    BY <2>2
  <2>4. \A x : x \in UNION {elems[i] : i \in 1..Len(s)} <=> \E i \in 1..Len(s) : s[i] \in S /\ x = s[i]
    BY ONLY <2>2
  <2> PICK all, some : all = UNION {elems[i] : i \in 1..Len(s)} /\ some = ToSet(s) \cap S
    OBVIOUS
  <2>5. \A x : x \in all <=> \E i \in 1..Len(s) : s[i] \in S /\ x = s[i]
    BY ONLY <2>4, all = UNION {elems[i] : i \in 1..Len(s)}
  <2>6. \A x : x \in some <=> x \in ToSet(s) /\ x \in S
    OBVIOUS
  <2>7. all = some
    BY ONLY <2>1, <2>5, <2>6
  <2> QED BY <2>3, <2>7
<1>8. Among(s, S) = FlattenSeq(parts)
  BY DEF Among, parts
<1> QED BY <1>6, <1>7, <1>8

(* Of an argument list, what is not taken out of it, and its words.        *)
LEMMA StrippedIs ==
  ASSUME NEW V, NEW argv \in Seq(V) PROVE AxiStripped(argv) \in Seq(V)
<1> PICK n \in Nat : n = Len(argv)
  OBVIOUS
<1>1. DOMAIN argv = 1..n /\ \A i \in 1..n : argv[i] \in V
  OBVIOUS
<1>2. \A x \in V : <<x>> \in Seq(V) /\ << >> \in Seq(V)
  OBVIOUS
<1>3. PICK parts : parts = [i \in 1..n |-> parts[i]] /\ AxiStripped(argv) = FlattenSeq(parts) /\
        \A i \in 1..n : parts[i] = << >> \/ parts[i] = <<argv[i]>>
  <2> PICK taken : taken = [i \in DOMAIN argv |->
         \/ argv[i].flag \in {"--from-state", "--from-state="}
         \/ i > 1 /\ argv[i].flag = "" /\ argv[i - 1].flag = "--from-state"]
    OBVIOUS
  <2> PICK parts : parts = [i \in DOMAIN argv |-> IF taken[i] THEN <<>> ELSE <<argv[i]>>]
    OBVIOUS
  <2>1. AxiStripped(argv) = FlattenSeq(parts)
    BY DEF AxiStripped
  <2>2. parts = [i \in 1..n |-> parts[i]] /\ \A i \in 1..n : parts[i] = << >> \/ parts[i] = <<argv[i]>>
    BY <1>1, Zenon
  <2> QED BY <2>1, <2>2
<1>4. \A i \in 1..n : parts[i] \in Seq(V)
  BY <1>1, <1>2, <1>3
<1>5. parts \in [1..n -> Seq(V)]
  BY <1>3, <1>4
<1>6. \A k \in Nat : \A f \in [1..k -> Seq(V)] : f \in Seq(Seq(V))
  OBVIOUS
<1>7. parts \in Seq(Seq(V))
  BY ONLY <1>5, <1>6
<1> QED BY <1>3, <1>7, FlattenElems

(* The words of an argument list are a sequence.                           *)
LEMMA PositionalIs ==
  ASSUME NEW V, NEW argv \in Seq(V) PROVE Positional(argv) \in Seq(Range(Positional(argv)))
<1> PICK words : words = Flagged(argv, {""})
  OBVIOUS
<1>1. words \in Seq(V)
  BY AmongIs DEF Flagged
<1>2. DOMAIN words = 1..Len(words) /\ Len(words) \in Nat
  BY ONLY <1>1
<1>3. Positional(argv) = [i \in 1..Len(words) |-> Positional(argv)[i]]
  BY <1>2 DEF Positional
<1> QED BY <1>2, <1>3, Listed

(* The cells of a scan: one for every ticker and timeframe.                *)
LEMMA CellsAre ==
  ASSUME NEW tickers, tickers \in Seq(Range(tickers)), NEW frames, frames \in Seq(Range(frames)),
         NEW market, NEW class, NEW l2, NEW strategies, NEW cells,
         cells = Cells(market, tickers, frames, class, l2, strategies)
  PROVE  /\ cells \in Seq(ToSet(cells))
         /\ \A c \in ToSet(cells) : \E i \in DOMAIN tickers : \E j \in DOMAIN frames :
              c = Cell(market, tickers[i], frames[j], class[tickers[i]], l2, strategies)
         /\ \A i \in DOMAIN tickers : \A j \in DOMAIN frames :
              Cell(market, tickers[i], frames[j], class[tickers[i]], l2, strategies) \in ToSet(cells)
<1> DEFINE Row1(i) == [j \in DOMAIN frames |-> Cell(market, tickers[i], frames[j], class[tickers[i]], l2, strategies)]
           rows == [i \in DOMAIN tickers |-> Row1(i)]
           V == UNION {Range(rows[i]) : i \in DOMAIN tickers}
<1>1. /\ DOMAIN tickers = 1..Len(tickers) /\ Len(tickers) \in Nat
      /\ DOMAIN frames = 1..Len(frames) /\ Len(frames) \in Nat
  OBVIOUS
<1>2. cells = FlattenSeq(rows)
  BY DEF Cells
<1>3. \A i \in 1..Len(tickers) : rows[i] = Row1(i)
  BY <1>1
<1>4. \A i \in 1..Len(tickers) : rows[i] \in Seq(V) /\ ToSet(rows[i]) = Range(rows[i])
  <2> SUFFICES ASSUME NEW i \in 1..Len(tickers)
               PROVE  rows[i] \in Seq(V) /\ ToSet(rows[i]) = Range(rows[i])
    OBVIOUS
  <2> PICK row : row = rows[i]
    OBVIOUS
  <2>1. DOMAIN row = 1..Len(frames) /\ row = [j \in 1..Len(frames) |-> row[j]]
    BY <1>1, <1>3
  <2>2. Range(row) \subseteq V
    BY <1>1
  <2> HIDE DEF rows, V, Row1
  <2>3. row \in Seq(Range(row)) /\ Len(row) = Len(frames)
    BY <1>1, <2>1, Listed
  <2>4. row \in Seq(V)
    BY <2>2, <2>3
  <2>5. ToSet(row) = Range(row)
    BY <2>1, <2>3 DEF ToSet, Range
  <2> QED BY <2>4, <2>5
<1>5. rows \in Seq(Seq(V)) /\ Len(rows) = Len(tickers)
  <2>1. rows \in [1..Len(tickers) -> Seq(V)]
    <3>1. rows = [i \in 1..Len(tickers) |-> rows[i]]
      BY <1>1
    <3> HIDE DEF rows, V
    <3> QED BY <1>4, <3>1
  <2> HIDE DEF rows, V
  <2> QED BY <1>1, <2>1
<1>6. FlattenSeq(rows) \in Seq(V) /\ ToSet(FlattenSeq(rows)) = UNION {ToSet(rows[i]) : i \in 1..Len(tickers)}
  <2> HIDE DEF rows, V
  <2> QED BY <1>5, FlattenElems
<1>7. ToSet(cells) = V
  BY <1>1, <1>2, <1>4, <1>6
<1>8. \A i \in DOMAIN tickers : \A j \in DOMAIN frames : rows[i][j] \in V
  BY <1>1, <1>3 DEF Range
<1>9. \A c \in V : \E i \in DOMAIN tickers : \E j \in DOMAIN frames : c = rows[i][j]
  BY <1>1, <1>3 DEF Range
<1>10. cells \in Seq(ToSet(cells))
  BY <1>2, <1>6, <1>7
<1>11. \A i \in DOMAIN tickers : \A j \in DOMAIN frames :
         rows[i][j] = Cell(market, tickers[i], frames[j], class[tickers[i]], l2, strategies)
  BY <1>1, <1>3
<1> HIDE DEF rows, V, Row1
<1>12. \A i \in DOMAIN tickers : \A j \in DOMAIN frames :
         Cell(market, tickers[i], frames[j], class[tickers[i]], l2, strategies) \in ToSet(cells)
  BY ONLY <1>7, <1>8, <1>11, Zenon
<1>13. \A c \in ToSet(cells) : \E i \in DOMAIN tickers : \E j \in DOMAIN frames :
         c = Cell(market, tickers[i], frames[j], class[tickers[i]], l2, strategies)
  <2> SUFFICES ASSUME NEW c \in ToSet(cells)
               PROVE  \E i \in DOMAIN tickers : \E j \in DOMAIN frames :
                        c = Cell(market, tickers[i], frames[j], class[tickers[i]], l2, strategies)
    OBVIOUS
  <2>1. PICK i \in DOMAIN tickers, j \in DOMAIN frames : c = rows[i][j]
    BY ONLY <1>7, <1>9, c \in ToSet(cells), Zenon
  <2>2. c = Cell(market, tickers[i], frames[j], class[tickers[i]], l2, strategies)
    BY ONLY <1>11, <2>1, Zenon
  <2> QED BY <2>2
<1> QED BY ONLY <1>10, <1>12, <1>13, Zenon

-----------------------------------------------------------------------------
(* The detectors of a fresh scan *)

(* Sums over four names, and over five.                                    *)
LEMMA SumOfFour ==
  ASSUME NEW f, NEW S, NEW w, NEW x, NEW y, NEW z, S = {w, x, y, z}, w # x, w # y, w # z, x # y, x # z, y # z,
         f[w] \in Int, f[x] \in Int, f[y] \in Int, f[z] \in Int
  PROVE  SumFunctionOnSet(f, S) = f[w] + f[x] + f[y] + f[z]
<1>1. IsFiniteSet({w, x, y, z}) /\ IsFiniteSet({x, y, z}) /\ IsFiniteSet({y, z})
  <2>1. IsFiniteSet({w, x, y, z, z}) /\ IsFiniteSet({x, y, z, z, z}) /\ IsFiniteSet({y, z, z, z, z})
    BY FiveAreFinite
  <2> QED BY <2>1
<1>2. {w, x, y, z} \ {w} = {x, y, z} /\ {x, y, z} \ {x} = {y, z} /\ {y, z} \ {y} = {z}
  OBVIOUS
<1>3. SumFunctionOnSet(f, {w, x, y, z}) = f[w] + SumFunctionOnSet(f, {w, x, y, z} \ {w})
  BY <1>1, SumSplits
<1>4. SumFunctionOnSet(f, {x, y, z}) = f[x] + SumFunctionOnSet(f, {x, y, z} \ {x})
  BY <1>1, SumSplits
<1>5. SumFunctionOnSet(f, {y, z}) = f[y] + SumFunctionOnSet(f, {y, z} \ {y})
  BY <1>1, SumSplits
<1>6. SumFunctionOnSet(f, {z}) = f[z]
  BY SumOfOne
<1>7. SumFunctionOnSet(f, {x, y, z}) = f[x] + (f[y] + f[z])
  BY ONLY <1>2, <1>4, <1>5, <1>6
<1>8. SumFunctionOnSet(f, {w, x, y, z}) = f[w] + (f[x] + (f[y] + f[z]))
  BY ONLY <1>2, <1>3, <1>7
<1>9. f[w] + (f[x] + (f[y] + f[z])) = f[w] + f[x] + f[y] + f[z]
  OBVIOUS
<1> QED BY ONLY <1>8, <1>9, S = {w, x, y, z}

(* And over five.                                                          *)
LEMMA SumOfFive ==
  ASSUME NEW f, NEW S, NEW v, NEW w, NEW x, NEW y, NEW z, S = {v, w, x, y, z}, v # w, v # x, v # y, v # z,
         w # x, w # y, w # z, x # y, x # z, y # z,
         f[v] \in Int, f[w] \in Int, f[x] \in Int, f[y] \in Int, f[z] \in Int
  PROVE  SumFunctionOnSet(f, S) = f[v] + f[w] + f[x] + f[y] + f[z]
<1>1. IsFiniteSet({v, w, x, y, z}) /\ {v, w, x, y, z} \ {v} = {w, x, y, z}
  BY FiveAreFinite
<1>2. \A u \in {v, w, x, y, z} : f[u] \in Int
  OBVIOUS
<1>3. SumFunctionOnSet(f, {v, w, x, y, z}) = f[v] + SumFunctionOnSet(f, {v, w, x, y, z} \ {v})
  BY <1>1, <1>2, SumSplits
<1>4. SumFunctionOnSet(f, {w, x, y, z}) = f[w] + f[x] + f[y] + f[z]
  BY SumOfFour
<1>5. SumFunctionOnSet(f, {v, w, x, y, z}) = f[v] + (f[w] + f[x] + f[y] + f[z])
  BY ONLY <1>1, <1>3, <1>4
<1>6. f[v] + (f[w] + f[x] + f[y] + f[z]) = f[v] + f[w] + f[x] + f[y] + f[z]
  OBVIOUS
<1> QED BY ONLY <1>5, <1>6, S = {v, w, x, y, z}

(* The weights of every detector add up to one.                            *)
LEMMA WeightsAddUp ==
  /\ SumFunction(AccumulationWeights) = 10000 /\ SumFunction(BreakoutWeights) = 10000
  /\ SumFunction(ExhaustionWeights) = 10000 /\ SumFunction(SweepWeights) = 10000
  /\ SumFunction(QualityWeights) = 10000
<1>1. SumFunction(AccumulationWeights) = 10000
  <2> PICK w : w = AccumulationWeights
    OBVIOUS
  <2>1. /\ DOMAIN w = {"spring", "absorption", "strength", "reaccum", "lowVol"}
        /\ w["spring"] = 3000 /\ w["absorption"] = 2000 /\ w["strength"] = 2000
        /\ w["reaccum"] = 1500 /\ w["lowVol"] = 1500
    BY DEF AccumulationWeights
  <2>2. SumFunctionOnSet(w, {"spring", "absorption", "strength", "reaccum", "lowVol"}) = 10000
    BY <2>1, SumOfFive
  <2> QED BY <2>1, <2>2, SumOfAll
<1>2. SumFunction(BreakoutWeights) = 10000
  <2> PICK w : w = BreakoutWeights
    OBVIOUS
  <2>1. /\ DOMAIN w = {"structure", "volume", "obv", "squeeze", "retest"}
        /\ w["structure"] = 3500 /\ w["volume"] = 2500 /\ w["obv"] = 1500
        /\ w["squeeze"] = 1500 /\ w["retest"] = 1000
    BY DEF BreakoutWeights
  <2>2. SumFunctionOnSet(w, {"structure", "volume", "obv", "squeeze", "retest"}) = 10000
    BY <2>1, SumOfFive
  <2> QED BY <2>1, <2>2, SumOfAll
<1>3. SumFunction(ExhaustionWeights) = 10000
  <2> PICK w : w = ExhaustionWeights
    OBVIOUS
  <2>1. /\ DOMAIN w = {"climax", "extreme", "narrow", "divergence"}
        /\ w["climax"] = 3333 /\ w["extreme"] = 2778 /\ w["narrow"] = 2222 /\ w["divergence"] = 1667
    BY DEF ExhaustionWeights
  <2>2. SumFunctionOnSet(w, {"climax", "extreme", "narrow", "divergence"}) = 10000
    BY <2>1, SumOfFour
  <2> QED BY <2>1, <2>2, SumOfAll
<1>4. SumFunction(SweepWeights) = 10000
  <2> PICK w : w = SweepWeights
    OBVIOUS
  <2>1. /\ DOMAIN w = {"wick", "reclaim", "swing", "volume"}
        /\ w["wick"] = 3500 /\ w["reclaim"] = 3000 /\ w["swing"] = 2000 /\ w["volume"] = 1500
    BY DEF SweepWeights
  <2>2. SumFunctionOnSet(w, {"wick", "reclaim", "swing", "volume"}) = 10000
    BY <2>1, SumOfFour
  <2> QED BY <2>1, <2>2, SumOfAll
<1>5. SumFunction(QualityWeights) = 10000
  <2> PICK w : w = QualityWeights
    OBVIOUS
  <2>1. /\ DOMAIN w = {"ema", "swings", "pullback", "impulse", "volume"}
        /\ w["ema"] = 2500 /\ w["swings"] = 2500 /\ w["pullback"] = 2000
        /\ w["impulse"] = 1500 /\ w["volume"] = 1500
    BY DEF QualityWeights
  <2>2. SumFunctionOnSet(w, {"ema", "swings", "pullback", "impulse", "volume"}) = 10000
    BY <2>1, SumOfFive
  <2> QED BY <2>1, <2>2, SumOfAll
<1> QED BY <1>1, <1>2, <1>3, <1>4, <1>5

(* A detector that names a class whenever two votes of enough weight are   *)
(* on shows no anomaly.                                                    *)
LEMMA RowIsClean ==
  ASSUME NEW class, NEW vote, NEW weights, SumFunction(weights) = 10000,
         class = "none" => ~Corroborated(vote, weights)
  PROVE  Shapes(Row(class, vote, weights)) = {}
<1> PICK row : row = Row(class, vote, weights)
  OBVIOUS
<1>1. /\ row.present = (class # "none") /\ row.class = class /\ row.total = 10000
      /\ row.on = Cardinality(On(vote)) /\ row.weight = Weight(vote, weights)
  BY DEF Row
<1>2. ~(Magnitude(row.total - 10000) > 500)
  BY <1>1 DEF Magnitude
<1>3. row.present <=> row.class # "none"
  <2> PICK present : present = row.present
    OBVIOUS
  <2>1. present = (class # "none") /\ row.class = class
    BY ONLY <1>1, present = row.present
  <2>2. present <=> row.class # "none"
    BY ONLY <2>1, Zenon
  <2> QED BY ONLY <2>2, present = row.present, Zenon
<1>4. ~(~Fired(row) /\ row.on >= 2 /\ row.weight > 3000)
  <2>1. ~Fired(row) => class = "none"
    BY ONLY <1>1, <1>3 DEF Fired
  <2>2. Corroborated(vote, weights) <=> (row.on >= 2 /\ row.weight > 3000)
    BY <1>1 DEF Corroborated
  <2> QED BY <2>1, <2>2
<1>5. ~(row.present /\ ~Fired(row)) /\ ~(~row.present /\ row.class # "none")
  BY ONLY <1>3 DEF Fired
<1> QED BY <1>2, <1>4, <1>5 DEF Shapes

(* Two votes that pull apart are the two that are on.                      *)
LEMMA OpposedAreOn ==
  ASSUME NEW b \in Bar, NEW m, m = MarketTrend(b), NEW vote, vote = QualityVote(b, m),
         Cardinality(On(vote)) = 2, QualityShares(b, m).ema * QualityShares(b, m).pullback < 0
  PROVE  On(vote) = {"ema", "pullback"}
<1> PICK ema, pullback : ema = QualityShares(b, m).ema /\ pullback = QualityShares(b, m).pullback
  OBVIOUS
<1>1. m.alignment \in Alignments /\ b.fib \in {"near", "mid", "far"}
  BY TrendTypes DEF Bar
<1>2. ema \in Int /\ pullback \in {2000, 0, -2000}
  BY <1>1 DEF QualityShares, Alignments
<1>3. ema # 0
  BY <1>2
<1>4. vote["ema"] /\ vote["pullback"] /\ DOMAIN vote = {"ema", "swings", "pullback", "impulse", "volume"}
  BY <1>3 DEF QualityVote, QualityWeights
<1>5. {"ema", "pullback"} \subseteq On(vote) /\ On(vote) \subseteq {"ema", "swings", "pullback", "impulse", "volume"}
  BY <1>4 DEF On
<1>6. IsFiniteSet(On(vote))
  BY <1>5, FiveAreFinite, FS_Subset
<1>7. Cardinality({"ema", "pullback"}) = 2
  <2>1. Cardinality({"ema"}) = 1 /\ IsFiniteSet({"ema"})
    BY FS_Singleton
  <2>2. "pullback" \notin {"ema"}
    OBVIOUS
  <2>3. Cardinality({"ema"} \cup {"pullback"}) = Cardinality({"ema"}) + 1
    BY ONLY <2>1, <2>2, FS_AddElement
  <2>4. Cardinality({"ema"} \cup {"pullback"}) = 2
    BY ONLY <2>1, <2>3
  <2>5. {"ema"} \cup {"pullback"} = {"ema", "pullback"}
    OBVIOUS
  <2> QED BY ONLY <2>4, <2>5
<1> QED BY <1>5, <1>6, <1>7, FS_Subset

(* The anomalies a detector shows on a bar: none but opposed votes.        *)
LEMMA RowsAreSound ==
  ASSUME NEW b \in Bar, NEW k \in L2Skill, NEW m, m = MarketTrend(b), NEW s \in Shapes(SkillRow(k, b, m))
  PROVE  s = "pattern_b_1" /\ k = "quality" /\ OpposedVotes(b)
<1>1. CASE k = "accumulation"
  <2>1. Accumulation(b, m).class = "none" => ~Corroborated(AccumulationVote(b, m), AccumulationWeights)
    BY DEF Accumulation, NoVerdict, Verdict
  <2> QED BY <1>1, <2>1, WeightsAddUp, RowIsClean DEF SkillRow
<1>2. CASE k = "breakout"
  <2>1. Breakout(b, m).class = "none" => ~Corroborated(BreakoutVote(b, m), BreakoutWeights)
    BY DEF Breakout, Verdict
  <2> QED BY <1>2, <2>1, WeightsAddUp, RowIsClean DEF SkillRow
<1>3. CASE k = "exhaustion"
  <2>1. Exhaustion(b).class = "none" => ~Corroborated(ExhaustionVote(b), ExhaustionWeights)
    BY DEF Exhaustion, NoVerdict, Verdict
  <2> QED BY <1>3, <2>1, WeightsAddUp, RowIsClean DEF SkillRow
<1>4. CASE k = "sweep"
  <2>1. Sweep(b).class = "none" => ~Corroborated(SweepVote(b), SweepWeights)
    BY DEF Sweep, NoVerdict, Verdict
  <2> QED BY <1>4, <2>1, WeightsAddUp, RowIsClean DEF SkillRow
<1>5. CASE k = "quality"
  <2> PICK vote : vote = QualityVote(b, m)
    OBVIOUS
  <2> PICK class : class = TrendQuality(b, m).class
    OBVIOUS
  <2>1. SkillRow(k, b, m) = Row(class, vote, QualityWeights)
    BY <1>5 DEF SkillRow
  <2>2. class = "none" /\ Corroborated(vote, QualityWeights)
    BY <2>1, WeightsAddUp, RowIsClean
  <2>3. ~EnoughVotes(b, m)
    BY <2>2 DEF TrendQuality, QualityClass, Verdict
  <2>4. Cardinality(On(vote)) \in Nat
    <3>1. On(vote) \subseteq {"ema", "swings", "pullback", "impulse", "volume"}
      BY DEF On, QualityVote, QualityWeights
    <3> QED BY <3>1, FiveAreFinite, FS_Subset, FS_CardinalityType
  <2>5. Cardinality(On(vote)) = 2 /\ QualityShares(b, m).ema * QualityShares(b, m).pullback < 0
    BY <2>2, <2>3, <2>4 DEF EnoughVotes, Corroborated
  <2>6. On(vote) = {"ema", "pullback"}
    BY <2>5, OpposedAreOn
  <2>7. OpposedVotes(b)
    BY <2>5, <2>6 DEF OpposedVotes
  <2>8. s = "pattern_b_1"
    <3> PICK row : row = Row(class, vote, QualityWeights)
      OBVIOUS
    <3>1. row.present = (class # "none") /\ row.class = class /\ row.total = SumFunction(QualityWeights)
      BY DEF Row
    <3>2. ~row.present /\ ~(row.class # "none")
      BY ONLY <2>2, <3>1
    <3>3. ~(Magnitude(row.total - 10000) > 500)
      BY <3>1, WeightsAddUp DEF Magnitude
    <3>4. s \in Shapes(row)
      BY <2>1
    <3> QED BY <3>2, <3>3, <3>4 DEF Shapes
  <2> QED BY <1>5, <2>7, <2>8
<1> QED BY <1>1, <1>2, <1>3, <1>4, <1>5 DEF L2Skill

(* What the market says of a ticker on a timeframe is a bar.               *)
LEMMA CandlesAre ==
  ASSUME NEW market, IsMarket(market), NEW line, line.frames \in Seq(Range(line.frames)),
         \A t \in DOMAIN market : Range(line.frames) \subseteq DOMAIN market[t],
         NEW t, NEW j \in DOMAIN line.frames, NEW quote, quote = Candles(market, t, line.frames[j]), quote # NoData
  PROVE  t \in DOMAIN market /\ quote = market[t][line.frames[j]] /\ quote.bar \in Bar /\ quote.lowest \in Int
<1>1. t \in DOMAIN market /\ quote = market[t][line.frames[j]]
  BY DEF Candles
<1>2. line.frames[j] \in DOMAIN market[t]
  BY <1>1 DEF Range
<1> QED BY <1>1, <1>2 DEF IsMarket

(* A fresh scan finds nothing wrong but with opposed votes.                *)
LEMMA FreshScansAreClean ==
  ASSUME NEW market, IsMarket(market), NEW line, line.frames \in Seq(Range(line.frames)),
         \A t \in DOMAIN market : Range(line.frames) \subseteq DOMAIN market[t],
         NEW tickers, tickers \in Seq(Range(tickers)), NEW class, NEW strategies, NEW cells,
         cells = Cells(market, tickers, line.frames, class, TRUE, strategies),
         NEW f \in Detect(ToSet(cells)), f.tag \in {"BUG", "DRIFT"}
  PROVE  /\ f.shape = "pattern_b_1" /\ f.skill = "quality"
         /\ \A frame \in f.frames : OpposedVotes(market[f.ticker][frame].bar)
<1>1. f \in ScanL2(ToSet(cells))
  <2>1. \A tag, shape, ticker, frames, skill : Finding(tag, shape, ticker, frames, skill).tag = tag
    BY DEF Finding
  <2> PICK found : found = ToSet(cells)
    OBVIOUS
  <2>2. \A g \in ScanL3(found) : g.tag = "INFO"
    <3> SUFFICES ASSUME NEW g \in ScanL3(found) PROVE g.tag = "INFO"
      OBVIOUS
    <3>1. \E c \in found : \E k : g = Finding("INFO", "l3_calibration_skew", c.ticker, {c.frame}, k)
      BY ONLY g \in ScanL3(found) DEF ScanL3
    <3> QED BY ONLY <2>1, <3>1
  <2>3. \A g \in CrossFrames(found) : g.tag = "INFO"
    <3> SUFFICES ASSUME NEW g \in CrossFrames(found) PROVE g.tag = "INFO"
      OBVIOUS
    <3> DEFINE F(p, k) == Finding("INFO", "cross_tf_contradiction", p[1].ticker, {p[1].frame, p[2].frame}, k)
               G(p, k) == Finding("INFO", "cross_tf_direction_conflict", p[1].ticker, {p[1].frame, p[2].frame}, k)
               I(p) == {j \in DOMAIN p[1].skills \cap DOMAIN p[2].skills :
                          Contradict(p[1].skills[j].class, p[2].skills[j].class)}
               J(p) == {j \in DOMAIN p[1].strategies \cap DOMAIN p[2].strategies :
                          {Dominant(p[1].strategies[j]), Dominant(p[2].strategies[j])} = {"long", "short"}}
               A == UNION {{F(p, k) : k \in I(p)} : p \in Siblings(found)}
               B == UNION {{G(p, k) : k \in J(p)} : p \in Siblings(found)}
    <3>0. \A p, k : F(p, k).tag = "INFO" /\ G(p, k).tag = "INFO"
      BY <2>1
    <3>10. CrossFrames(found) = A \cup B
      BY ONLY Zenon DEF CrossFrames
    <3>1. g \in A \cup B
      BY <3>10, Zenon
    <3> HIDE DEF F, G, I, J
    <3>2. CASE g \in A
      BY ONLY <3>0, <3>2
    <3>3. CASE g \in B
      BY ONLY <3>0, <3>3
    <3> QED BY <3>1, <3>2, <3>3
  <2>4. f \in ScanL2(found) \cup ScanL3(found) \cup CrossFrames(found)
    BY DEF Detect
  <2> QED BY <2>2, <2>3, <2>4
<1>2. PICK c \in ToSet(cells) : \E k \in DOMAIN c.skills : \E s \in Shapes(c.skills[k]) :
        f = Finding(TagOf(s), s, c.ticker, {c.frame}, k)
  <2> PICK found : found = ToSet(cells)
    OBVIOUS
  <2>1. \E c \in found : \E k \in DOMAIN c.skills : \E s \in Shapes(c.skills[k]) :
          f = Finding(TagOf(s), s, c.ticker, {c.frame}, k)
    BY ONLY <1>1, found = ToSet(cells) DEF ScanL2
  <2> QED BY <2>1
<1>3. PICK k \in DOMAIN c.skills : \E s \in Shapes(c.skills[k]) : f = Finding(TagOf(s), s, c.ticker, {c.frame}, k)
  BY <1>2
<1>4. PICK s \in Shapes(c.skills[k]) : f = Finding(TagOf(s), s, c.ticker, {c.frame}, k)
  BY <1>3
<1> PICK frames : frames = line.frames
  OBVIOUS
<1>5. PICK i \in DOMAIN tickers, j \in DOMAIN frames :
        c = Cell(market, tickers[i], frames[j], class[tickers[i]], TRUE, strategies)
  <2> PICK l2 : l2 = TRUE
    OBVIOUS
  <2>1. frames \in Seq(Range(frames)) /\ cells = Cells(market, tickers, frames, class, l2, strategies)
    OBVIOUS
  <2>2. tickers \in Seq(Range(tickers))
    OBVIOUS
  <2>3. \A d \in ToSet(cells) : \E i \in DOMAIN tickers : \E j \in DOMAIN frames :
          d = Cell(market, tickers[i], frames[j], class[tickers[i]], l2, strategies)
    BY ONLY <2>1, <2>2, CellsAre
  <2> QED BY ONLY <2>3, c \in ToSet(cells), l2 = TRUE
<1> PICK quote : quote = Candles(market, tickers[i], frames[j])
  OBVIOUS
<1>6. c.ticker = tickers[i] /\ c.frame = frames[j]
  BY <1>5 DEF Cell
<1>7. c.skills = IF quote = NoData THEN << >> ELSE L2Rows(quote.bar, MarketTrend(quote.bar))
  BY <1>5 DEF Cell
<1>8. quote # NoData
  BY <1>3, <1>7
<1>9. quote = market[tickers[i]][frames[j]] /\ quote.bar \in Bar
  <2>1. j \in DOMAIN line.frames /\ quote = Candles(market, tickers[i], line.frames[j])
    BY <1>5
  <2>2. tickers[i] \in DOMAIN market /\ quote = market[tickers[i]][line.frames[j]]
    BY <1>8, <2>1 DEF Candles
  <2>3. line.frames[j] \in DOMAIN market[tickers[i]]
    <3>1. line.frames[j] \in Range(line.frames)
      BY <2>1 DEF Range
    <3> QED BY <2>2, <3>1
  <2>4. quote.bar \in Bar
    BY <1>8, <2>2, <2>3 DEF IsMarket
  <2> QED BY <2>1, <2>2, <2>4
<1>10. k \in L2Skill /\ c.skills[k] = SkillRow(k, quote.bar, MarketTrend(quote.bar))
  BY <1>3, <1>7, <1>8 DEF L2Rows
<1>11. s = "pattern_b_1" /\ k = "quality" /\ OpposedVotes(quote.bar)
  BY <1>4, <1>9, <1>10, RowsAreSound
<1>12. f.shape = s /\ f.skill = k /\ f.ticker = c.ticker /\ f.frames = {c.frame}
  BY <1>4 DEF Finding
<1> QED BY <1>6, <1>9, <1>11, <1>12

(* Convictions are integers.                                               *)
LEMMA GoodIsInt == ASSUME NEW floor, NEW i \in Good(floor) PROVE i.conviction \in Int
  BY DEF Good, Brackets, IdeaType

-----------------------------------------------------------------------------
(* The ranking keeps the strongest *)

(* In an order each has a place of its own, as many as are before it: at   *)
(* most `top` have a place below top, and exactly `top` if one has not.    *)
LEMMA FirstsCount ==
  ASSUME NEW S, IsFiniteSet(S), NEW top \in Nat, NEW before,
         \A z \in S : before[z] \in SUBSET S /\ z \notin before[z],
         \A u \in S : \A z \in S : u \in before[z] => before[u] \subseteq before[z],
         \A u \in S : \A z \in S : u = z \/ u \in before[z] \/ z \in before[u],
         NEW K, K = {z \in S : Cardinality(before[z]) < top}
  PROVE  Cardinality(K) <= top /\ (K # S => Cardinality(K) = top)
<1> PICK n \in Nat : n = Cardinality(S)
  BY FS_CardinalityType
<1> PICK place : place = [z \in S |-> Cardinality(before[z])]
  OBVIOUS
<1>1. \A z \in S : IsFiniteSet(before[z]) /\ place[z] \in 0..(n - 1)
  <2> SUFFICES ASSUME NEW z \in S PROVE IsFiniteSet(before[z]) /\ place[z] \in 0..(n - 1)
    OBVIOUS
  <2>1. before[z] \subseteq S \ {z}
    OBVIOUS
  <2>2. IsFiniteSet(S \ {z}) /\ Cardinality(S \ {z}) = n - 1
    BY FS_RemoveElement
  <2>3. IsFiniteSet(before[z]) /\ Cardinality(before[z]) <= n - 1
    BY <2>1, <2>2, FS_Subset
  <2>4. Cardinality(before[z]) \in Nat
    BY <2>3, FS_CardinalityType
  <2> QED BY <2>3, <2>4
<1>2. \A z \in S : place[z] \in Int /\ 0 <= place[z] /\ place[z] <= n - 1
  <2>1. \A k \in 0..(n - 1) : k \in Int /\ 0 <= k /\ k <= n - 1
    OBVIOUS
  <2> QED BY ONLY <1>1, <2>1
<1>3. ASSUME NEW u \in S, NEW z \in S, u \in before[z] PROVE place[u] < place[z]
  <2>1. before[u] \subseteq before[z]
    BY <1>3
  <2>2. u \notin before[u]
    OBVIOUS
  <2>3. before[u] # before[z]
    BY <1>3, <2>2
  <2>4. IsFiniteSet(before[z])
    BY <1>1
  <2>5. Cardinality(before[u]) <= Cardinality(before[z]) /\ Cardinality(before[u]) # Cardinality(before[z])
    BY ONLY <2>1, <2>3, <2>4, FS_Subset
  <2>6. place[u] <= place[z] /\ place[u] # place[z]
    BY <2>5
  <2>7. place[u] \in Int /\ place[z] \in Int
    BY <1>2
  <2> QED BY ONLY <2>6, <2>7
<1>4. \A u \in S : \A z \in S : place[u] = place[z] => u = z
  <2> SUFFICES ASSUME NEW u \in S, NEW z \in S, place[u] = place[z] PROVE u = z
    OBVIOUS
  <2>1. place[u] \in Int /\ place[z] \in Int
    BY <1>2
  <2>2. ~(place[u] < place[z]) /\ ~(place[z] < place[u])
    BY ONLY <2>1, place[u] = place[z]
  <2> QED BY <1>3, <2>2
<1>5. \A k \in 0..(n - 1) : \E z \in S : place[z] = k
  <2> PICK places : places = 0..(n - 1)
    OBVIOUS
  <2>1. place \in [S -> places]
    BY <1>1
  <2>2. place \in Injection(S, 0..(n - 1))
    BY ONLY <1>4, <2>1, places = 0..(n - 1), Zenon DEF Injection, IsInjective
  <2>3. IsFiniteSet(0..(n - 1)) /\ Cardinality(0..(n - 1)) = n
    <3>1. 0 \in Int /\ n - 1 \in Int /\ (IF 0 > n - 1 THEN 0 ELSE (n - 1) - 0 + 1) = n
      OBVIOUS
    <3> QED BY ONLY <3>1, FS_Interval
  <2>4. place \in Surjection(S, 0..(n - 1))
    BY <2>2, <2>3, FS_Injection
  <2> QED BY <2>4 DEF Surjection
<1>6. K \subseteq S /\ \A z \in S : z \in K <=> place[z] < top
  OBVIOUS
<1> PICK low : low = 0..(top - 1)
  OBVIOUS
<1>7. IsFiniteSet(low) /\ Cardinality(low) = top
  <2>1. 0 \in Int /\ top - 1 \in Int /\ (IF 0 > top - 1 THEN 0 ELSE (top - 1) - 0 + 1) = top
    OBVIOUS
  <2> QED BY ONLY <2>1, low = 0..(top - 1), FS_Interval
<1> PICK own : own = [z \in K |-> place[z]]
  OBVIOUS
<1>8. own \in Injection(K, low)
  <2>1. \A z \in K : place[z] \in low
    <3> SUFFICES ASSUME NEW z \in K PROVE place[z] \in low
      OBVIOUS
    <3>1. place[z] \in Int /\ 0 <= place[z] /\ place[z] < top
      BY <1>2, <1>6
    <3> QED BY ONLY <3>1, top \in Nat, low = 0..(top - 1)
  <2>2. own \in [K -> low]
    BY <2>1
  <2>3. \A u \in K : \A z \in K : own[u] = own[z] => u = z
    BY <1>4, <1>6
  <2> QED BY ONLY <2>2, <2>3, Zenon DEF Injection, IsInjective
<1>9. Cardinality(K) <= top
  BY <1>7, <1>8, FS_Injection
<1>10. ASSUME K # S PROVE Cardinality(K) = top
  <2>1. PICK z \in S : z \notin K
    BY <1>6, <1>10
  <2>2. place[z] \in Int /\ place[z] <= n - 1 /\ ~(place[z] < top)
    BY <1>2, <1>6, <2>1
  <2>3. top <= n - 1
    BY ONLY <2>2, top \in Nat, n \in Nat
  <2>4. \A k \in low : \E u \in K : own[u] = k
    <3> SUFFICES ASSUME NEW k \in low PROVE \E u \in K : own[u] = k
      OBVIOUS
    <3>1. k \in 0..(n - 1) /\ k < top
      BY ONLY <2>3, k \in low, low = 0..(top - 1), top \in Nat, n \in Nat
    <3>2. PICK u \in S : place[u] = k
      BY <1>5, <3>1
    <3> QED BY <1>6, <3>1, <3>2
  <2>5. own \in Surjection(K, low)
    BY <1>8, <2>4 DEF Injection, Surjection
  <2> QED BY <1>7, <1>8, <2>5, FS_Injection
<1> QED BY <1>9, <1>10

(* A strategy's ideas in a cell are what it makes of the cell's candles.   *)
FoundIn(market, tickers, frames, class, strategies, c, k) ==
  /\ k \in strategies /\ c.strategies[k] \in Seq(Good(Floor))
  /\ \E i \in DOMAIN tickers, j \in DOMAIN frames :
       /\ c.ticker = tickers[i] /\ c.frame = frames[j] /\ HasData(market, c.ticker, c.frame)
       /\ \E quote : /\ quote = Candles(market, c.ticker, c.frame)
                     /\ c.strategies[k] = Analyze(k, quote.bar, Readings(quote.bar, MarketTrend(quote.bar)),
                                                  quote.lowest, class[c.ticker], Floor)

(* What a strategy makes of a bar.                                         *)
LEMMA CellsAreGood ==
  ASSUME NEW market, IsMarket(market), NEW line, line.frames \in Seq(Range(line.frames)),
         \A t \in DOMAIN market : Range(line.frames) \subseteq DOMAIN market[t],
         NEW tickers, tickers \in Seq(Range(tickers)), NEW class, NEW l2, NEW strategies \in SUBSET Strategy,
         Floor \in Nat, NEW cells, cells = Cells(market, tickers, line.frames, class, l2, strategies),
         NEW c \in ToSet(cells), NEW k \in DOMAIN c.strategies
  PROVE  FoundIn(market, tickers, line.frames, class, strategies, c, k)
<1>1. PICK i \in DOMAIN tickers, j \in DOMAIN line.frames :
        c = Cell(market, tickers[i], line.frames[j], class[tickers[i]], l2, strategies)
  BY CellsAre
<1> PICK quote : quote = Candles(market, tickers[i], line.frames[j])
  OBVIOUS
<1> PICK b : b = quote.bar
  OBVIOUS
<1> PICK all : all = StrategyIdeas(b, MarketTrend(b), quote.lowest, class[tickers[i]])
  OBVIOUS
<1>2. c.ticker = tickers[i] /\ c.frame = line.frames[j]
  BY <1>1 DEF Cell
<1>3. c.strategies = IF quote = NoData \/ strategies = {} THEN << >> ELSE Restrict(all, strategies)
  BY <1>1 DEF Cell
<1>4. quote # NoData /\ c.strategies = Restrict(all, strategies)
  BY <1>3
<1>5. k \in strategies /\ c.strategies[k] = all[k]
  BY <1>4 DEF Restrict
<1>6. all[k] = Analyze(k, b, Readings(b, MarketTrend(b)), quote.lowest, class[tickers[i]], Floor)
  BY <1>5 DEF StrategyIdeas
<1>7. b \in Bar
  BY <1>4, CandlesAre
<1>8. all[k] \in Seq(Good(Floor))
  <2>1. Heard(Readings(b, MarketTrend(b)))
    BY <1>7, ReadingsSound
  <2> QED BY <1>5, <1>6, <1>7, <2>1, AnalyzeIsGood
<1>9. HasData(market, c.ticker, c.frame)
  BY <1>2, <1>4 DEF HasData
<1> QED BY <1>2, <1>5, <1>6, <1>8, <1>9 DEF FoundIn

(* The rows of a scan are finite in number, their convictions integers.    *)
LEMMA RowsAre ==
  ASSUME NEW cells, cells \in Seq(ToSet(cells)),
         \A c \in ToSet(cells) : \A k \in DOMAIN c.strategies :
           k \in Strategy /\ c.strategies[k] \in Seq(Good(Floor))
  PROVE  IsFiniteSet(RowsOf(cells)) /\ \A x \in RowsOf(cells) : x.idea.conviction \in Int
<1> PICK n \in Nat : n = Len(cells)
  OBVIOUS
<1>1. DOMAIN cells = 1..n /\ \A i \in 1..n : cells[i] \in ToSet(cells)
  BY DEF ToSet
<1> PICK pairs : pairs = (1..n) \X Strategy
  OBVIOUS
<1> PICK row : row = [p \in pairs \X Nat |->
       [cell |-> p[1][1], strategy |-> p[1][2], index |-> p[2], ticker |-> cells[p[1][1]].ticker,
        idea |-> cells[p[1][1]].strategies[p[1][2]][p[2]]]]
  OBVIOUS
<1> PICK lens : lens = [p \in pairs |->
       IF p[2] \in DOMAIN cells[p[1]].strategies THEN Len(cells[p[1]].strategies[p[2]]) ELSE 0]
  OBVIOUS
<1>2. \A p \in pairs : lens[p] \in Nat
  BY <1>1
<1>3. \A i \in 1..n : \A k \in DOMAIN cells[i].strategies :
        /\ k \in Strategy /\ <<i, k>> \in pairs /\ cells[i].strategies[k] \in Seq(Good(Floor))
        /\ DOMAIN cells[i].strategies[k] = 1..lens[<<i, k>>]
  BY <1>1
<1>4. IsFiniteSet(Strategy)
  <2>1. IsFiniteSet({"trend_follow", "mean_reversion", "breakout_confirm", "accumulation_swing", "exhaustion_fade"})
    BY FiveAreFinite
  <2>2. IsFiniteSet({"funding_carry", "liquidity_sweep"})
    <3>1. IsFiniteSet({"funding_carry", "funding_carry", "funding_carry", "funding_carry", "liquidity_sweep"})
      BY FiveAreFinite
    <3> QED BY <3>1
  <2>3. Strategy = {"trend_follow", "mean_reversion", "breakout_confirm", "accumulation_swing", "exhaustion_fade"}
                     \cup {"funding_carry", "liquidity_sweep"}
    BY DEF Strategy
  <2> QED BY <2>1, <2>2, <2>3, FS_Union
<1>5. IsFiniteSet(pairs)
  <2>1. IsFiniteSet(1..n)
    BY FS_Interval
  <2> QED BY <1>4, <2>1, FS_Product
<1>6. PICK m \in Nat : \A p \in pairs : lens[p] <= m
  <2> PICK S : S = {lens[p] : p \in pairs}
    OBVIOUS
  <2>1. IsFiniteSet(S) /\ S \subseteq Int
    <3>1. IsFiniteSet({lens[p] : p \in pairs})
      BY ONLY <1>5, ImageIsFinite
    <3>2. S \subseteq Int
      BY <1>2
    <3> QED BY <3>1, <3>2
  <2>2. CASE S = {}
    <3>1. \A p \in pairs : lens[p] <= 0
      BY <2>2
    <3> QED BY <3>1
  <2>3. CASE S # {}
    <3>1. Max(S) \in S /\ \A y \in S : Max(S) >= y
      BY <2>1, <2>3, MaxOfFinite
    <3>2. Max(S) \in Nat
      BY <1>2, <3>1
    <3>3. \A p \in pairs : lens[p] <= Max(S)
      BY <1>2, <3>1, <3>2
    <3> QED BY <3>2, <3>3
  <2> QED BY <2>2, <2>3
<1> PICK keys : keys = pairs \X (1..m)
  OBVIOUS
<1>7. \A x \in RowsOf(cells) : \E i \in 1..n : \E k \in DOMAIN cells[i].strategies :
        \E j \in DOMAIN cells[i].strategies[k] :
          x = [cell |-> i, strategy |-> k, index |-> j, ticker |-> cells[i].ticker,
               idea |-> cells[i].strategies[k][j]]
  BY <1>1 DEF RowsOf
<1>8. \A x \in RowsOf(cells) : \E z \in keys : x = row[z]
  <2> SUFFICES ASSUME NEW x \in RowsOf(cells) PROVE \E z \in keys : x = row[z]
    OBVIOUS
  <2>1. PICK i \in 1..n : \E k \in DOMAIN cells[i].strategies : \E j \in DOMAIN cells[i].strategies[k] :
          x = [cell |-> i, strategy |-> k, index |-> j, ticker |-> cells[i].ticker,
               idea |-> cells[i].strategies[k][j]]
    BY <1>7
  <2>2. PICK k \in DOMAIN cells[i].strategies : \E j \in DOMAIN cells[i].strategies[k] :
          x = [cell |-> i, strategy |-> k, index |-> j, ticker |-> cells[i].ticker,
               idea |-> cells[i].strategies[k][j]]
    BY <2>1
  <2>3. PICK j \in DOMAIN cells[i].strategies[k] :
          x = [cell |-> i, strategy |-> k, index |-> j, ticker |-> cells[i].ticker,
               idea |-> cells[i].strategies[k][j]]
    BY <2>2
  <2>4. <<i, k>> \in pairs /\ j \in 1..lens[<<i, k>>]
    BY <1>3
  <2>5. j \in Nat /\ j \in 1..m
    BY <1>2, <1>6, <2>4
  <2>6. <<<<i, k>>, j>> \in keys /\ <<<<i, k>>, j>> \in pairs \X Nat
    BY <2>4, <2>5
  <2>7. row[<<<<i, k>>, j>>] = x
    BY <2>3, <2>6
  <2> QED BY <2>6, <2>7
<1>9. IsFiniteSet(RowsOf(cells))
  <2>1. IsFiniteSet(1..m)
    BY FS_Interval
  <2>2. IsFiniteSet(keys)
    BY <1>5, <2>1, FS_Product
  <2>3. IsFiniteSet({row[z] : z \in keys})
    BY ONLY <2>2, ImageIsFinite
  <2>4. RowsOf(cells) \in SUBSET {row[z] : z \in keys}
    BY <1>8
  <2> QED BY <2>3, <2>4, FS_Subset
<1>10. \A x \in RowsOf(cells) : x.idea.conviction \in Int
  <2> SUFFICES ASSUME NEW x \in RowsOf(cells) PROVE x.idea.conviction \in Int
    OBVIOUS
  <2>1. PICK i \in 1..n : \E k \in DOMAIN cells[i].strategies : \E j \in DOMAIN cells[i].strategies[k] :
          x.idea = cells[i].strategies[k][j]
    BY <1>7
  <2>2. PICK k \in DOMAIN cells[i].strategies : \E j \in DOMAIN cells[i].strategies[k] :
          x.idea = cells[i].strategies[k][j]
    BY <2>1
  <2>3. PICK j \in DOMAIN cells[i].strategies[k] : x.idea = cells[i].strategies[k][j]
    BY <2>2
  <2>4. x.idea \in Good(Floor)
    BY <1>3, <2>3
  <2> QED BY <2>4, GoodIsInt
<1> QED BY <1>9, <1>10

(* Two rows are ordered by the first of five integers in which they differ, *)
(* and differ in one.                                                      *)
Ordered(rows) ==
  /\ \A x \in rows : \A i \in 1..5 : Order(x)[i] \in Int
  /\ \A x \in rows : \A y \in rows : (\A i \in 1..5 : Order(x)[i] = Order(y)[i]) => x = y

LEMMA OutrankingOrders ==
  ASSUME NEW rows, Ordered(rows)
  PROVE  \A x \in rows : \A y \in rows :
           /\ ~Outranks(x, x)
           /\ x = y \/ Outranks(x, y) \/ Outranks(y, x)
           /\ \A z \in rows : Outranks(x, y) /\ Outranks(y, z) => Outranks(x, z)
<1> DEFINE Lesser(a, b) ==
             \/ a[1] < b[1]
             \/ a[1] = b[1] /\ a[2] < b[2]
             \/ a[1] = b[1] /\ a[2] = b[2] /\ a[3] < b[3]
             \/ a[1] = b[1] /\ a[2] = b[2] /\ a[3] = b[3] /\ a[4] < b[4]
             \/ a[1] = b[1] /\ a[2] = b[2] /\ a[3] = b[3] /\ a[4] = b[4] /\ a[5] < b[5]
<1>1. \A x \in rows : \A y \in rows : Outranks(x, y) <=> Lesser(Order(x), Order(y))
  <2> SUFFICES ASSUME NEW x \in rows, NEW y \in rows PROVE Outranks(x, y) <=> Lesser(Order(x), Order(y))
    OBVIOUS
  <2> PICK a, b : a = Order(x) /\ b = Order(y)
    OBVIOUS
  <2>1. Outranks(x, y) <=> \E i \in 1..5 : a[i] < b[i] /\ \A j \in 1..(i - 1) : a[j] = b[j]
    BY DEF Outranks
  <2>2. (\E i \in 1..5 : a[i] < b[i] /\ \A j \in 1..(i - 1) : a[j] = b[j]) <=> Lesser(a, b)
    <3>1. ASSUME NEW i \in 1..5, a[i] < b[i], \A j \in 1..(i - 1) : a[j] = b[j] PROVE Lesser(a, b)
      <4>1. i > 1 => a[1] = b[1]
        BY <3>1
      <4>2. i > 2 => a[2] = b[2]
        BY <3>1
      <4>3. i > 3 => a[3] = b[3]
        BY <3>1
      <4>4. i > 4 => a[4] = b[4]
        BY <3>1
      <4>5. i = 1 \/ i = 2 \/ i = 3 \/ i = 4 \/ i = 5
        OBVIOUS
      <4> QED BY <3>1, <4>1, <4>2, <4>3, <4>4, <4>5
    <3>2. ASSUME NEW i \in 1..5, a[i] < b[i], \A j \in 1..5 : j < i => a[j] = b[j]
          PROVE  \E k \in 1..5 : a[k] < b[k] /\ \A j \in 1..(k - 1) : a[j] = b[j]
      <4>1. \A j \in 1..(i - 1) : a[j] = b[j]
        BY <3>2
      <4> QED BY <3>2, <4>1
    <3>3. \A j \in 1..5 : j = 1 \/ j = 2 \/ j = 3 \/ j = 4 \/ j = 5
      OBVIOUS
    <3>4. ASSUME Lesser(a, b) PROVE \E i \in 1..5 : a[i] < b[i] /\ \A j \in 1..5 : j < i => a[j] = b[j]
      <4>1. CASE a[1] < b[1]
        <5>1. \A j \in 1..5 : j < 1 => a[j] = b[j]
          OBVIOUS
        <5> QED BY <4>1, <5>1
      <4>2. CASE a[1] = b[1] /\ a[2] < b[2]
        <5>1. \A j \in 1..5 : j < 2 => a[j] = b[j]
          BY <3>3, <4>2
        <5> QED BY <4>2, <5>1
      <4>3. CASE a[1] = b[1] /\ a[2] = b[2] /\ a[3] < b[3]
        <5>1. \A j \in 1..5 : j < 3 => a[j] = b[j]
          BY <3>3, <4>3
        <5> QED BY <4>3, <5>1
      <4>4. CASE a[1] = b[1] /\ a[2] = b[2] /\ a[3] = b[3] /\ a[4] < b[4]
        <5>1. \A j \in 1..5 : j < 4 => a[j] = b[j]
          BY <3>3, <4>4
        <5> QED BY <4>4, <5>1
      <4>5. CASE a[1] = b[1] /\ a[2] = b[2] /\ a[3] = b[3] /\ a[4] = b[4] /\ a[5] < b[5]
        <5>1. \A j \in 1..5 : j < 5 => a[j] = b[j]
          BY <3>3, <4>5
        <5> QED BY <4>5, <5>1
      <4> QED BY <3>4, <4>1, <4>2, <4>3, <4>4, <4>5
    <3> QED BY <3>1, <3>2, <3>4
  <2> QED BY <2>1, <2>2
<1>2. \A x \in rows : LET a == Order(x) IN a[1] \in Int /\ a[2] \in Int /\ a[3] \in Int /\ a[4] \in Int /\ a[5] \in Int
  BY DEF Ordered
<1> SUFFICES ASSUME NEW x \in rows, NEW y \in rows
             PROVE  /\ ~Outranks(x, x)
                    /\ x = y \/ Outranks(x, y) \/ Outranks(y, x)
                    /\ \A z \in rows : Outranks(x, y) /\ Outranks(y, z) => Outranks(x, z)
  OBVIOUS
<1> PICK a, b : a = Order(x) /\ b = Order(y)
  OBVIOUS
<1>3. /\ a[1] \in Int /\ a[2] \in Int /\ a[3] \in Int /\ a[4] \in Int /\ a[5] \in Int
      /\ b[1] \in Int /\ b[2] \in Int /\ b[3] \in Int /\ b[4] \in Int /\ b[5] \in Int
  BY <1>2
<1>4. ~Outranks(x, x)
  <2>1. ~Lesser(a, a)
    BY ONLY <1>3
  <2> QED BY <1>1, <2>1
<1>5. x = y \/ Outranks(x, y) \/ Outranks(y, x)
  <2>1. \/ a[1] = b[1] /\ a[2] = b[2] /\ a[3] = b[3] /\ a[4] = b[4] /\ a[5] = b[5]
        \/ Lesser(a, b) \/ Lesser(b, a)
    BY ONLY <1>3
  <2>2. ASSUME a[1] = b[1] /\ a[2] = b[2] /\ a[3] = b[3] /\ a[4] = b[4] /\ a[5] = b[5] PROVE x = y
    <3>1. \A i \in 1..5 : i = 1 \/ i = 2 \/ i = 3 \/ i = 4 \/ i = 5
      OBVIOUS
    <3>2. \A i \in 1..5 : a[i] = b[i]
      BY ONLY <2>2, <3>1
    <3> QED BY <3>2 DEF Ordered
  <2> QED BY <1>1, <2>1, <2>2
<1>6. ASSUME NEW z \in rows, Outranks(x, y), Outranks(y, z) PROVE Outranks(x, z)
  <2> PICK c : c = Order(z)
    OBVIOUS
  <2>1. c[1] \in Int /\ c[2] \in Int /\ c[3] \in Int /\ c[4] \in Int /\ c[5] \in Int
    BY <1>2
  <2>2. Lesser(a, b) /\ Lesser(b, c)
    BY <1>1, <1>6
  <2>3. Lesser(a, c)
    BY ONLY <1>3, <2>1, <2>2
  <2> QED BY <1>1, <2>3
<1> QED BY <1>4, <1>5, <1>6

(* The rows of a scan of registered tickers are so ordered.                *)
LEMMA RowsAreOrdered ==
  ASSUME NEW cells, cells \in Seq(ToSet(cells)),
         \A c \in ToSet(cells) : c.ticker \in Range(Alphabet),
         \A c \in ToSet(cells) : \A k \in DOMAIN c.strategies :
           k \in Strategy /\ c.strategies[k] \in Seq(Good(Floor))
  PROVE  Ordered(RowsOf(cells))
<1>1. \A n \in DOMAIN cells : n \in Int /\ cells[n] \in ToSet(cells)
  BY DEF ToSet
<1>2. \A x \in RowsOf(cells) : \E n \in DOMAIN cells : \E k \in DOMAIN cells[n].strategies :
        \E i \in DOMAIN cells[n].strategies[k] :
          x = [cell |-> n, strategy |-> k, index |-> i, ticker |-> cells[n].ticker, idea |-> cells[n].strategies[k][i]]
  BY DEF RowsOf
<1>3. \A x \in RowsOf(cells) :
        /\ x.cell \in DOMAIN cells /\ x.cell \in Int /\ x.strategy \in Strategy /\ x.index \in Int
        /\ x.ticker \in Range(Alphabet) /\ x.idea.conviction \in Int
        /\ x = [cell |-> x.cell, strategy |-> x.strategy, index |-> x.index, ticker |-> cells[x.cell].ticker,
                idea |-> cells[x.cell].strategies[x.strategy][x.index]]
  <2> TAKE x \in RowsOf(cells)
  <2>1. PICK n \in DOMAIN cells : \E k \in DOMAIN cells[n].strategies : \E i \in DOMAIN cells[n].strategies[k] :
          x = [cell |-> n, strategy |-> k, index |-> i, ticker |-> cells[n].ticker, idea |-> cells[n].strategies[k][i]]
    BY <1>2
  <2>2. PICK k \in DOMAIN cells[n].strategies : \E i \in DOMAIN cells[n].strategies[k] :
          x = [cell |-> n, strategy |-> k, index |-> i, ticker |-> cells[n].ticker, idea |-> cells[n].strategies[k][i]]
    BY <2>1
  <2>3. PICK i \in DOMAIN cells[n].strategies[k] :
          x = [cell |-> n, strategy |-> k, index |-> i, ticker |-> cells[n].ticker, idea |-> cells[n].strategies[k][i]]
    BY <2>2
  <2>4. k \in Strategy /\ cells[n].strategies[k] \in Seq(Good(Floor)) /\ cells[n].ticker \in Range(Alphabet)
    BY <1>1
  <2>5. i \in Int /\ cells[n].strategies[k][i] \in Good(Floor)
    BY <2>4
  <2>6. x.idea.conviction \in Int
    BY <2>3, <2>5, GoodIsInt
  <2> QED BY <1>1, <2>3, <2>4, <2>5, <2>6
<1>4. \A t \in Range(Alphabet) : Position(Alphabet, t) \in Int
  <2> SUFFICES ASSUME NEW t \in Range(Alphabet) PROVE Position(Alphabet, t) \in Int
    OBVIOUS
  <2>1. \E i \in DOMAIN Alphabet : Alphabet[i] = t
    BY DEF Range
  <2>2. Position(Alphabet, t) \in DOMAIN Alphabet
    BY <2>1 DEF Position
  <2>3. Alphabet \in Seq(Range(Alphabet))
    BY SessionsAssumption
  <2> QED BY <2>2, <2>3
<1>5. \A k \in Strategy : Position(Registered, k) \in Int /\ Registered[Position(Registered, k)] = k
  <2> SUFFICES ASSUME NEW k \in Strategy PROVE Position(Registered, k) \in Int /\ Registered[Position(Registered, k)] = k
    OBVIOUS
  <2>1. DOMAIN Registered = 1..7
    BY DEF Registered
  <2>2. \E i \in 1..7 : Registered[i] = k
    BY DEF Registered, Strategy
  <2>3. Position(Registered, k) \in 1..7 /\ Registered[Position(Registered, k)] = k
    BY ONLY <2>1, <2>2 DEF Position
  <2> QED BY <2>3
<1>6. \A x \in RowsOf(cells) :
        /\ Order(x)[1] = 0 - x.idea.conviction /\ Order(x)[2] = Position(Alphabet, x.ticker)
        /\ Order(x)[3] = x.cell /\ Order(x)[4] = Position(Registered, x.strategy) /\ Order(x)[5] = x.index
  BY DEF Order
<1>7. ASSUME NEW x \in RowsOf(cells), NEW i \in 1..5 PROVE Order(x)[i] \in Int
  <2>1. i = 1 \/ i = 2 \/ i = 3 \/ i = 4 \/ i = 5
    OBVIOUS
  <2>2. 0 - x.idea.conviction \in Int
    BY <1>3
  <2> QED BY <1>3, <1>4, <1>5, <1>6, <2>1, <2>2
<1>8. ASSUME NEW x \in RowsOf(cells), NEW y \in RowsOf(cells), \A i \in 1..5 : Order(x)[i] = Order(y)[i]
      PROVE  x = y
  <2>1. Order(x)[3] = Order(y)[3] /\ Order(x)[4] = Order(y)[4] /\ Order(x)[5] = Order(y)[5]
    BY <1>8
  <2>2. x.cell = y.cell /\ x.index = y.index /\ Position(Registered, x.strategy) = Position(Registered, y.strategy)
    BY <1>6, <2>1
  <2>3. x.strategy = y.strategy
    BY <1>3, <1>5, <2>2
  <2> QED BY <1>3, <2>2, <2>3
<1> QED BY <1>7, <1>8 DEF Ordered

(* Of ranked rows the first `top`: none that is left out is stronger.      *)
LEMMA RankKeeps ==
  ASSUME NEW rows, IsFiniteSet(rows), Ordered(rows), \A x \in rows : x.idea.conviction \in Int,
         NEW top \in Nat \cup {NoTop}, NoTop \notin Nat, NEW kept, kept = RankIdeas(rows, top)
  PROVE  /\ kept \subseteq rows
         /\ top # NoTop => Cardinality(kept) <= top
         /\ \A x \in rows \ kept :
              Cardinality(kept) = top /\ \A y \in kept : x.idea.conviction <= y.idea.conviction
<1>1. CASE top = NoTop
  <2>1. kept = rows
    BY <1>1 DEF RankIdeas
  <2> QED BY <1>1, <2>1
<1>2. CASE top # NoTop
  <2> PICK above : above = [z \in rows |-> {u \in rows : Outranks(u, z)}]
    OBVIOUS
  <2>1. kept = {z \in rows : Cardinality(above[z]) < top} /\ top \in Nat
    BY <1>2 DEF RankIdeas
  <2>2. \A z \in rows : above[z] \in SUBSET rows /\ z \notin above[z]
    BY OutrankingOrders
  <2>3. \A u \in rows : \A z \in rows : u \in above[z] => above[u] \subseteq above[z]
    BY OutrankingOrders
  <2>4. \A u \in rows : \A z \in rows : u = z \/ u \in above[z] \/ z \in above[u]
    BY OutrankingOrders
  <2>5. Cardinality(kept) <= top /\ (kept # rows => Cardinality(kept) = top)
    BY ONLY <2>1, <2>2, <2>3, <2>4, IsFiniteSet(rows), FirstsCount
  <2>6. ASSUME NEW x \in rows \ kept, NEW y \in kept, x.idea.conviction > y.idea.conviction PROVE FALSE
    <3>1. x \in rows /\ y \in rows
      BY <2>1
    <3>2. Order(x)[1] < Order(y)[1]
      <4>1. Order(x)[1] = 0 - x.idea.conviction /\ Order(y)[1] = 0 - y.idea.conviction
        BY DEF Order
      <4>2. x.idea.conviction \in Int /\ y.idea.conviction \in Int
        BY <3>1
      <4> QED BY ONLY <2>6, <4>1, <4>2
    <3>3. Outranks(x, y)
      BY <3>2 DEF Outranks
    <3>4. above[x] \subseteq above[y]
      BY <2>3, <3>1, <3>3
    <3>5. IsFiniteSet(above[y])
      BY <2>2, <3>1, FS_Subset
    <3>6. Cardinality(above[x]) <= Cardinality(above[y]) /\ IsFiniteSet(above[x])
      BY <3>4, <3>5, FS_Subset
    <3>7. Cardinality(above[x]) \in Nat /\ Cardinality(above[y]) \in Nat
      BY <3>5, <3>6, FS_CardinalityType
    <3>8. Cardinality(above[y]) < top /\ ~(Cardinality(above[x]) < top)
      BY <2>1, <3>1
    <3> QED BY ONLY <2>1, <3>6, <3>7, <3>8
  <2>7. kept \subseteq rows
    BY <2>1
  <2>8. \A x \in rows \ kept, y \in kept : x.idea.conviction <= y.idea.conviction
    BY <2>6, <2>7
  <2> QED BY <2>5, <2>7, <2>8
<1> QED BY <1>1, <1>2

-----------------------------------------------------------------------------
(* What the runs print *)

(* What a result says of the run it came from, but for what the history    *)
(* and the notebook have to do with it.                                    *)
Kept == {"line", "market", "registry", "scanned", "cells", "skipped", "rows", "findings", "chop", "recent"}
OfBugScan(x, found) == x.cells # <<>> => x.cells = found /\ x.findings = Detect(ToSet(found))
OfConvictionScan(x, found) ==
  /\ Usable(x.registry) /\ x.cells = found
  /\ x.rows = RankIdeas(RowsOf(found), x.line.top)
OfWatchlist(x, found) ==
  /\ Usable(x.registry) /\ x.cells = found
  /\ x.skipped = Skipped(x.registry, Scope(x.line, x.registry), x.line.skip)
Warranted(x, s) ==
  /\ Kept \subseteq DOMAIN x
  /\ x.line \in s.lines /\ x.market \in Markets(s.feed) /\ x.registry \in s.registries
  /\ x.line.skill = "bug-scan" => OfBugScan(x, Scanned(x.line, x.market, x.registry))
  /\ x.line.skill # "bug-scan" => x.findings = {}
  /\ x.scanned =>
       /\ x.line.skill = "l3-conviction-scan" => OfConvictionScan(x, Scanned(x.line, x.market, x.registry))
       /\ x.line.skill = "run-watchlist" => OfWatchlist(x, Scanned(x.line, x.market, x.registry))

BatchInv ==
  /\ session \in Sessions /\ Shaped
  /\ \A r \in Runners :
       /\ runner[r].stage # "idle" => Warranted(runner[r].result, session)
       /\ printout[r] = NoReport \/ Warranted(printout[r], session)

(* A run that scans nothing reports nothing.                               *)
Void(x, line, market, reg) ==
  /\ Kept \subseteq DOMAIN x /\ x.line = line /\ x.market = market /\ x.registry = reg
  /\ x.scanned = FALSE /\ x.cells = <<>> /\ x.findings = {}

(* The outcomes of refusals, and of the home view, are such.               *)
LEMMA OutcomesAreVoid ==
  ASSUME NEW line, NEW market, NEW reg, NEW code, NEW o, o = Outcome(line, market, reg, code)
  PROVE  /\ Void(o, line, market, reg) /\ "shown" \in DOMAIN o /\ "unread" \in DOMAIN o /\ "notes" \in DOMAIN o
         /\ \A shown : Void([o EXCEPT !.shown = shown], line, market, reg)
         /\ \A unread : Void([o EXCEPT !.unread = unread], line, market, reg)
         /\ \A rc : Void([o EXCEPT !.code = rc], line, market, reg)
<1>1. /\ DOMAIN o = {"line", "market", "registry", "code", "scanned", "cells", "skipped", "rows", "findings",
                     "notes", "unread", "chop", "recent", "shown"}
      /\ o.line = line /\ o.market = market /\ o.registry = reg
      /\ o.scanned = FALSE /\ o.cells = <<>> /\ o.findings = {}
  BY DEF Outcome
<1>2. Kept \subseteq DOMAIN o
  BY <1>1 DEF Kept
<1>3. \A y : /\ DOMAIN y = DOMAIN o /\ y.line = o.line /\ y.market = o.market /\ y.registry = o.registry
             /\ y.scanned = o.scanned /\ y.cells = o.cells /\ y.findings = o.findings
             => Void(y, line, market, reg)
  BY <1>1, <1>2 DEF Void
<1>4. Void(o, line, market, reg)
  BY <1>3
<1>5. ASSUME NEW shown PROVE Void([o EXCEPT !.shown = shown], line, market, reg)
  BY <1>1, <1>3
<1>6. ASSUME NEW unread PROVE Void([o EXCEPT !.unread = unread], line, market, reg)
  BY <1>1, <1>3
<1>7. ASSUME NEW rc PROVE Void([o EXCEPT !.code = rc], line, market, reg)
  BY <1>1, <1>3
<1> QED BY <1>1, <1>4, <1>5, <1>6, <1>7

(* The home view scans nothing,                                            *)
LEMMA HomeIsVoid ==
  ASSUME NEW line, NEW market, NEW reg PROVE Void(Home(line, market, reg), line, market, reg)
<1> PICK o : o = Outcome(line, market, reg, 0)
  OBVIOUS
<1>1. \A shown : Void([o EXCEPT !.shown = shown], line, market, reg)
  BY OutcomesAreVoid
<1>2. Home(line, market, reg) = [o EXCEPT !.shown = IF line.json THEN Blank ELSE views[line.skill]]
  BY DEF Home
<1> QED BY <1>1, <1>2

(* and what scans nothing claims nothing.                                  *)
LEMMA VoidIsWarranted ==
  ASSUME NEW line \in session.lines, NEW market \in Markets(session.feed), NEW reg \in session.registries,
         NEW x, Void(x, line, market, reg)
  PROVE  Warranted(x, session)
  BY DEF Void, Warranted, OfBugScan

(* Each runner reports what it scanned.                                    *)
LEMMA BugScanIsWarranted ==
  ASSUME NEW line \in session.lines, NEW market \in Markets(session.feed), NEW reg \in session.registries,
         NEW found, found = Scanned(line, market, reg), line.skill = "bug-scan",
         NEW x, x = BugScan(line, market, reg, found)
  PROVE  Warranted(x, session)
<1> PICK o : o = Outcome(line, market, reg, 0)
  OBVIOUS
<1>1. \/ x = Home(line, market, reg) \/ x = Outcome(line, market, reg, 1) \/ x = Outcome(line, market, reg, 2)
      \/ \E findings : x = [o EXCEPT !.scanned = TRUE, !.findings = findings]
      \/ x = [o EXCEPT !.scanned = TRUE, !.cells = found, !.findings = Detect(ToSet(found))]
  BY DEF BugScan
<1>2. Void(o, line, market, reg) /\ {"scanned", "cells", "findings"} \subseteq Kept
  BY OutcomesAreVoid DEF Kept
<1>3. CASE x = Home(line, market, reg) \/ x = Outcome(line, market, reg, 1) \/ x = Outcome(line, market, reg, 2)
  BY <1>3, HomeIsVoid, OutcomesAreVoid, VoidIsWarranted
<1>4. CASE \E findings : x = [o EXCEPT !.scanned = TRUE, !.findings = findings]
  <2>1. /\ DOMAIN x = DOMAIN o /\ x.line = line /\ x.market = market /\ x.registry = reg /\ x.cells = <<>>
    BY <1>2, <1>4 DEF Void, Kept
  <2> QED BY <1>2, <2>1 DEF Warranted, Void, OfBugScan
<1>5. CASE x = [o EXCEPT !.scanned = TRUE, !.cells = found, !.findings = Detect(ToSet(found))]
  <2>1. /\ DOMAIN x = DOMAIN o /\ x.line = line /\ x.market = market /\ x.registry = reg
        /\ x.cells = found /\ x.findings = Detect(ToSet(found))
    BY <1>2, <1>5 DEF Void, Kept
  <2> QED BY <1>2, <2>1 DEF Warranted, Void, OfBugScan
<1> QED BY <1>1, <1>3, <1>4, <1>5

(* run-all-l2, run-all-l3 and the strategies,                              *)
LEMMA RunAllIsWarranted ==
  ASSUME NEW line \in session.lines, NEW market \in Markets(session.feed), NEW reg \in session.registries,
         NEW found, found = Scanned(line, market, reg),
         line.skill \notin {"bug-scan", "run-watchlist", "l3-conviction-scan"},
         NEW x, x = RunAll(line, market, reg, found)
  PROVE  Warranted(x, session)
<1> PICK o : o = Outcome(line, market, reg, 0)
  OBVIOUS
<1>1. \/ x = Home(line, market, reg) \/ x = Outcome(line, market, reg, 1) \/ x = Outcome(line, market, reg, 2)
      \/ x = [Outcome(line, market, reg, 2) EXCEPT !.unread = TRUE]
      \/ \E cells, notes : x = [o EXCEPT !.scanned = TRUE, !.cells = cells, !.notes = notes]
  BY DEF RunAll
<1>2. Void(o, line, market, reg) /\ {"scanned", "cells", "findings"} \subseteq Kept
  BY OutcomesAreVoid DEF Kept
<1>3. CASE \/ x = Home(line, market, reg) \/ x = Outcome(line, market, reg, 1) \/ x = Outcome(line, market, reg, 2)
           \/ x = [Outcome(line, market, reg, 2) EXCEPT !.unread = TRUE]
  BY <1>3, HomeIsVoid, OutcomesAreVoid, VoidIsWarranted
<1>4. CASE \E cells, notes : x = [o EXCEPT !.scanned = TRUE, !.cells = cells, !.notes = notes]
  <2>1. DOMAIN x = DOMAIN o /\ x.line = line /\ x.market = market /\ x.registry = reg /\ x.findings = {}
    BY <1>2, <1>4 DEF Void, Kept
  <2>2. Kept \subseteq DOMAIN x
    BY <1>2, <2>1 DEF Void
  <2> QED BY <2>1, <2>2 DEF Warranted
<1> QED BY <1>1, <1>3, <1>4

(* l3-conviction-scan,                                                     *)
LEMMA ConvictionScanIsWarranted ==
  ASSUME NEW line \in session.lines, NEW market \in Markets(session.feed), NEW reg \in session.registries,
         NEW found, found = Scanned(line, market, reg), line.skill = "l3-conviction-scan",
         NEW x, x = ConvictionScan(line, market, reg, found)
  PROVE  Warranted(x, session)
<1> PICK o : o = Outcome(line, market, reg, 0)
  OBVIOUS
<1>1. \/ x = Home(line, market, reg) \/ x = Outcome(line, market, reg, 1) \/ x = Outcome(line, market, reg, 2)
      \/ /\ Usable(reg)
         /\ x = [o EXCEPT !.scanned = TRUE, !.cells = found, !.rows = RankIdeas(RowsOf(found), line.top)]
  BY DEF ConvictionScan
<1>2. Void(o, line, market, reg) /\ {"scanned", "cells", "rows", "findings"} \subseteq Kept
  BY OutcomesAreVoid DEF Kept
<1>3. CASE x = Home(line, market, reg) \/ x = Outcome(line, market, reg, 1) \/ x = Outcome(line, market, reg, 2)
  BY <1>3, HomeIsVoid, OutcomesAreVoid, VoidIsWarranted
<1>4. CASE /\ Usable(reg)
           /\ x = [o EXCEPT !.scanned = TRUE, !.cells = found, !.rows = RankIdeas(RowsOf(found), line.top)]
  <2>1. /\ DOMAIN x = DOMAIN o /\ x.line = line /\ x.market = market /\ x.registry = reg
        /\ x.cells = found /\ x.findings = {} /\ x.rows = RankIdeas(RowsOf(found), line.top)
    BY <1>2, <1>4 DEF Void, Kept
  <2>2. OfConvictionScan(x, found)
    BY <1>4, <2>1 DEF OfConvictionScan
  <2>3. Kept \subseteq DOMAIN x
    BY <1>2, <2>1 DEF Void
  <2> QED BY <2>1, <2>2, <2>3 DEF Warranted
<1> QED BY <1>1, <1>3, <1>4

(* run-watchlist,                                                          *)
LEMMA WatchlistIsWarranted ==
  ASSUME NEW line \in session.lines, NEW market \in Markets(session.feed), NEW reg \in session.registries,
         NEW found, found = Scanned(line, market, reg), line.skill = "run-watchlist",
         NEW x, x = RunWatchlist(line, market, reg, found)
  PROVE  Warranted(x, session)
<1> PICK o : o = Outcome(line, market, reg, 0)
  OBVIOUS
<1>1. \/ x = Home(line, market, reg) \/ x = Outcome(line, market, reg, 1) \/ x = Outcome(line, market, reg, 2)
      \/ /\ Usable(reg)
         /\ \E notes, unread :
              x = [o EXCEPT !.scanned = TRUE, !.cells = found, !.skipped = Skipped(reg, Scope(line, reg), line.skip),
                            !.notes = notes, !.unread = unread]
  BY DEF RunWatchlist
<1>2. Void(o, line, market, reg) /\ {"scanned", "cells", "skipped", "findings"} \subseteq Kept
  BY OutcomesAreVoid DEF Kept
<1>3. CASE x = Home(line, market, reg) \/ x = Outcome(line, market, reg, 1) \/ x = Outcome(line, market, reg, 2)
  BY <1>3, HomeIsVoid, OutcomesAreVoid, VoidIsWarranted
<1>4. CASE /\ Usable(reg)
           /\ \E notes, unread :
                x = [o EXCEPT !.scanned = TRUE, !.cells = found, !.skipped = Skipped(reg, Scope(line, reg), line.skip),
                              !.notes = notes, !.unread = unread]
  <2>1. /\ DOMAIN x = DOMAIN o /\ x.line = line /\ x.market = market /\ x.registry = reg
        /\ x.cells = found /\ x.findings = {} /\ x.skipped = Skipped(reg, Scope(line, reg), line.skip)
    BY <1>2, <1>4 DEF Void, Kept
  <2>2. OfWatchlist(x, found)
    BY <1>4, <2>1 DEF OfWatchlist
  <2>3. Kept \subseteq DOMAIN x
    BY <1>2, <2>1 DEF Void
  <2> QED BY <2>1, <2>2, <2>3 DEF Warranted
<1> QED BY <1>1, <1>3, <1>4

(* and so every run.                                                       *)
LEMMA RunsAreWarranted ==
  ASSUME NEW x, Ran(x) PROVE Warranted(x, session)
<1>1. PICK line \in session.lines, market \in Markets(session.feed), reg \in session.registries :
        x = Run(line, market, reg, Scanned(line, market, reg))
  BY DEF Ran
<1> PICK found : found = Scanned(line, market, reg)
  OBVIOUS
<1>2. CASE line.skill = "bug-scan"
  BY <1>1, <1>2, BugScanIsWarranted DEF Run
<1>3. CASE line.skill = "run-watchlist"
  BY <1>1, <1>3, WatchlistIsWarranted DEF Run
<1>4. CASE line.skill = "l3-conviction-scan"
  BY <1>1, <1>4, ConvictionScanIsWarranted DEF Run
<1>5. CASE line.skill = "market-watchlist"
  <2> PICK o : o = Outcome(line, market, reg, 0)
    OBVIOUS
  <2>1. PICK code : x = [o EXCEPT !.code = code]
    BY <1>1, <1>5 DEF Run, Ask
  <2>2. \A rc : Void([o EXCEPT !.code = rc], line, market, reg)
    BY OutcomesAreVoid
  <2>3. Void(x, line, market, reg)
    BY ONLY <2>1, <2>2, Zenon
  <2> QED BY <2>3, VoidIsWarranted
<1>6. CASE line.skill \notin {"bug-scan", "run-watchlist", "l3-conviction-scan", "market-watchlist"}
  BY <1>1, <1>6, RunAllIsWarranted DEF Run
<1> QED BY <1>2, <1>3, <1>4, <1>5, <1>6

(* The chop score says nothing of the rest.                                *)
LEMMA RescoredIsWarranted ==
  ASSUME NEW old, Warranted(old, session), NEW new, Rescored(new, old) PROVE Warranted(new, session)
<1>1. PICK chop, recent : new = [[old EXCEPT !.chop = chop] EXCEPT !.recent = recent]
  BY DEF Rescored
<1>2. Kept \subseteq DOMAIN old
  BY DEF Warranted
<1>3. /\ DOMAIN new = DOMAIN old /\ new.line = old.line /\ new.market = old.market /\ new.registry = old.registry
      /\ new.scanned = old.scanned /\ new.cells = old.cells /\ new.skipped = old.skipped
      /\ new.rows = old.rows /\ new.findings = old.findings
  BY <1>1, <1>2 DEF Kept
<1> QED BY <1>3 DEF Warranted, OfBugScan, OfConvictionScan, OfWatchlist

(* What is printed is what a run of the session's command lines found.     *)
LEMMA BatchBegins == ScanInit => BatchInv
  BY DEF ScanInit, Resting, BatchInv, Shaped

(* Each step of a runner or of a clerk keeps it so.                        *)
LEMMA BatchIsKept ==
  ASSUME BatchInv, [ScanNext]_batchVars PROVE BatchInv'
<1>1. session' = session
  BY DEF ScanNext, Launch, LoadHistory, OpenHistory, WriteHistory, ReadHistory, OpenView, CopyView, PrintReport,
         KillRunner, scanVars, batchVars
<1>2. ASSUME NEW r \in Runners, Proceeds(r) PROVE BatchInv'
  <2> PICK old, new : old = runner[r].result /\ new = runner'[r].result
    OBVIOUS
  <2>1. runner'[r].stage # "idle" => Warranted(new, session)
    <3>1. ASSUME runner[r].stage # "idle", new = old \/ Rescored(new, old) PROVE Warranted(new, session)
      <4>1. Warranted(old, session)
        BY <3>1 DEF BatchInv
      <4> QED BY <3>1, <4>1, RescoredIsWarranted
    <3>2. ASSUME Ran(new) PROVE Warranted(new, session)
      BY <3>2, RunsAreWarranted
    <3> QED BY <1>2, <3>1, <3>2 DEF Proceeds
  <2>2. Moved(r)
    BY <1>2 DEF Proceeds
  <2>3. \A q \in Runners :
          /\ runner'[q] = [stage |-> runner'[q].stage, result |-> runner'[q].result, loaded |-> runner'[q].loaded]
          /\ runner'[q].stage # "idle" => Warranted(runner'[q].result, session)
    BY <2>1, <2>2 DEF Moved, BatchInv, Shaped
  <2> QED BY <1>1, <2>2, <2>3 DEF BatchInv, Shaped, Moved
<1>3. ASSUME NEW r \in Runners, PrintReport(r) PROVE BatchInv'
  <2>1. /\ runner[r].stage # "idle"
        /\ printout' = [printout EXCEPT ![r] = runner[r].result]
        /\ runner' = [runner EXCEPT ![r] = Resting]
    BY <1>3 DEF PrintReport, BatchInv
  <2>2. \A q \in Runners :
          /\ runner'[q] = [stage |-> runner'[q].stage, result |-> runner'[q].result, loaded |-> runner'[q].loaded]
          /\ runner'[q].stage # "idle" => Warranted(runner'[q].result, session)
    BY <2>1 DEF Resting, BatchInv, Shaped
  <2>3. \A q \in Runners : printout'[q] = NoReport \/ Warranted(printout'[q], session)
    BY <2>1 DEF BatchInv, Shaped
  <2>4. runner' = [q \in Runners |-> runner'[q]] /\ printout' = [q \in Runners |-> printout'[q]]
    BY <2>1 DEF BatchInv, Shaped
  <2> QED BY <1>1, <2>2, <2>3, <2>4 DEF BatchInv, Shaped
<1>4. ASSUME UNCHANGED <<session, runner, printout>> PROVE BatchInv'
  BY <1>4 DEF BatchInv, Shaped
<1>5. ASSUME NEW r \in Runners,
             \/ Launch(r) \/ LoadHistory(r) \/ OpenHistory(r) \/ WriteHistory(r) \/ ReadHistory(r)
             \/ OpenView(r) \/ CopyView(r) \/ KillRunner(r)
      PROVE  Proceeds(r)
  BY <1>5, RunnersProceed DEF BatchInv
<1> QED BY <1>2, <1>3, <1>4, <1>5 DEF ScanNext, scanVars, batchVars

(* So it is in every state.                                                *)
LEMMA BatchHolds == ScanSpec => []BatchInv
  BY BatchBegins, BatchIsKept, PTL DEF ScanSpec

(* Its command line, its market and its registry are those of the session. *)
LEMMA OfTheSession ==
  ASSUME BatchInv, NEW x, Warranted(x, session)
  PROVE  /\ IsLine(x.line) /\ IsMarket(x.market) /\ IsRegistry(x.registry)
         /\ \A t \in DOMAIN x.market : Range(x.line.frames) \subseteq DOMAIN x.market[t]
<1>1. session \in Sessions
  BY DEF BatchInv
<1>2. x.line \in session.lines /\ x.market \in Markets(session.feed) /\ x.registry \in session.registries
  BY DEF Warranted
<1> QED BY <1>1, <1>2, SessionsAssumption

(* Of a fresh scan only opposed votes are anomalies.                       *)
LEMMA AnomaliesAreOpposed ==
  ASSUME BatchInv, NEW x, Warranted(x, session), x.cells # <<>>, NEW f \in x.findings, f.tag \in {"BUG", "DRIFT"}
  PROVE  /\ f.shape = "pattern_b_1" /\ f.skill = "quality"
         /\ \A frame \in f.frames : OpposedVotes(x.market[f.ticker][frame].bar)
<1> PICK line, market, reg : line = x.line /\ market = x.market /\ reg = x.registry
  OBVIOUS
<1> PICK found : found = Scanned(line, market, reg)
  OBVIOUS
<1>1. line.skill = "bug-scan" /\ x.findings = Detect(ToSet(found))
  BY DEF Warranted, OfBugScan
<1>2. /\ IsMarket(market) /\ \A t \in DOMAIN market : Range(line.frames) \subseteq DOMAIN market[t]
      /\ line.frames \in Seq(Range(line.frames)) /\ line.argv \in Seq(Range(line.argv))
  BY OfTheSession DEF IsLine
<1> PICK tickers : tickers = Positional(AxiStripped(line.argv))
  OBVIOUS
<1>3. tickers \in Seq(Range(tickers))
  BY <1>2, StrippedIs, PositionalIs
<1> PICK class, strategies : class = Classless(tickers) /\ strategies = StrategiesIn(line)
  OBVIOUS
<1>4. found = Cells(market, tickers, line.frames, class, TRUE, strategies)
  <2>1. TickersIn(line, market, reg) = tickers
    BY <1>1 DEF TickersIn
  <2>2. SkillsIn(line) = TRUE
    BY <1>1 DEF SkillsIn, Unclassed
  <2> QED BY <1>1, <2>1, <2>2 DEF Scanned, Unclassed, Basketed
<1>5. f \in Detect(ToSet(found)) /\ f.tag \in {"BUG", "DRIFT"}
  BY <1>1
<1>6. IsMarket(market)
  BY <1>2
<1>7. line.frames \in Seq(Range(line.frames))
  BY <1>2
<1>8. \A t \in DOMAIN market : Range(line.frames) \subseteq DOMAIN market[t]
  BY <1>2
<1>9. /\ f.shape = "pattern_b_1" /\ f.skill = "quality"
      /\ \A frame \in f.frames : OpposedVotes(market[f.ticker][frame].bar)
  BY ONLY <1>3, <1>4, <1>5, <1>6, <1>7, <1>8, FreshScansAreClean
<1> QED BY <1>9

(* A fresh scan of any market accuses no detector but market-trend-quality *)
(* where its two votes pull apart (trend-quality lib.py, bug-scan          *)
(* lib.py:250-311), whatever the history and the other processes do.       *)
THEOREM AnomaliesOpposed == ScanSpec => []AnomaliesAreOpposedVotes
<1>1. BatchInv => AnomaliesAreOpposedVotes
  <2> SUFFICES ASSUME BatchInv, NEW r \in Printed, printout[r].cells # <<>>,
                      NEW f \in printout[r].findings, f.tag \in {"BUG", "DRIFT"}
               PROVE  /\ f.shape = "pattern_b_1" /\ f.skill = "quality"
                      /\ \A frame \in f.frames : OpposedVotes(printout[r].market[f.ticker][frame].bar)
    BY DEF AnomaliesAreOpposedVotes
  <2> PICK x : x = printout[r]
    OBVIOUS
  <2>1. Warranted(x, session)
    BY DEF BatchInv, Printed
  <2> QED BY <2>1, AnomaliesAreOpposed
<1> QED BY <1>1, BatchHolds, PTL

(* The tickers of a basket, and of several.                                *)
LEMMA OwnRange ==
  ASSUME NEW V, NEW s \in Seq(V) PROVE s \in Seq(Range(s)) /\ ToSet(s) = Range(s)
<1>1. s = [i \in 1..Len(s) |-> s[i]] /\ Len(s) \in Nat /\ DOMAIN s = 1..Len(s)
  OBVIOUS
<1> QED BY <1>1, Listed DEF ToSet, Range

(* A basket is a sequence of tickers.                                      *)
LEMMA BasketsAre ==
  ASSUME NEW reg, IsRegistry(reg), reg # Unavailable, NEW name
  PROVE  /\ ByCategory(reg, name) \in Seq(Range(ByCategory(reg, name)))
         /\ Range(ByCategory(reg, name)) \subseteq Range(Alphabet)
<1> PICK parts : parts = [i \in DOMAIN reg |-> IF reg[i].name = name THEN TickersOf(reg[i]) ELSE <<>>]
  OBVIOUS
<1>1. reg \in Seq(Range(reg)) /\ \A i \in DOMAIN reg : reg[i].members \in Seq(Range(reg[i].members))
  BY DEF IsRegistry
<1>2. DOMAIN reg = 1..Len(reg) /\ Len(reg) \in Nat
  BY <1>1
<1> PICK V : V = UNION {Range(TickersOf(reg[i])) : i \in DOMAIN reg}
  OBVIOUS
<1>3. \A i \in DOMAIN reg : TickersOf(reg[i]) \in Seq(V)
  <2> SUFFICES ASSUME NEW i \in DOMAIN reg PROVE TickersOf(reg[i]) \in Seq(V)
    OBVIOUS
  <2> PICK members, tickers : members = reg[i].members /\ tickers = TickersOf(reg[i])
    OBVIOUS
  <2>1. DOMAIN members = 1..Len(members) /\ Len(members) \in Nat
    BY <1>1
  <2>2. tickers = [j \in 1..Len(members) |-> tickers[j]]
    BY <2>1 DEF TickersOf
  <2>3. tickers \in Seq(Range(tickers))
    BY <2>1, <2>2, Listed
  <2>4. Range(tickers) \subseteq V
    OBVIOUS
  <2> QED BY ONLY <2>3, <2>4, tickers = TickersOf(reg[i])
<1>4. \A i \in DOMAIN reg : parts[i] \in Seq(V)
  BY <1>3
<1>5. parts = [i \in 1..Len(reg) |-> parts[i]]
  BY <1>2
<1>6. parts \in [1..Len(reg) -> Seq(V)]
  BY <1>2, <1>4, <1>5
<1>7. \A k \in Nat : \A f \in [1..k -> Seq(V)] : f \in Seq(Seq(V))
  OBVIOUS
<1>8. parts \in Seq(Seq(V))
  BY ONLY <1>2, <1>6, <1>7
<1> PICK tickers : tickers = ByCategory(reg, name)
  OBVIOUS
<1>9. tickers \in Seq(V)
  BY <1>8, FlattenElems DEF ByCategory
<1>10. V \subseteq Range(Alphabet)
  <2>1. \A i \in DOMAIN reg : \A j \in DOMAIN reg[i].members : reg[i].members[j].ticker \in Range(Alphabet)
    BY DEF IsRegistry, Range
  <2>2. \A i \in DOMAIN reg : Range(TickersOf(reg[i])) \subseteq Range(Alphabet)
    BY <2>1 DEF TickersOf, Range
  <2> QED BY <2>2
<1>11. Range(tickers) \subseteq V
  BY <1>9 DEF Range
<1> QED BY <1>9, <1>10, <1>11, OwnRange

(* What is said of a market is what each strategy makes of each ticker of  *)
(* the baskets that has candles.                                           *)
LEMMA ScansSurface ==
  ASSUME BatchInv, NEW x, Warranted(x, session), x.scanned, x.line.skill = "l3-conviction-scan"
  PROVE  /\ Said(RowsOf(x.cells)) = Surfaced(x)
         /\ x.cells \in Seq(ToSet(x.cells))
         /\ \A c \in ToSet(x.cells) : c.ticker \in Range(Alphabet)
         /\ \A c \in ToSet(x.cells) : \A k \in DOMAIN c.strategies :
              k \in Strategy /\ c.strategies[k] \in Seq(Good(Floor))
<1> PICK line, market, reg : line = x.line /\ market = x.market /\ reg = x.registry
  OBVIOUS
<1> PICK found : found = Scanned(line, market, reg)
  OBVIOUS
<1>1. Usable(reg) /\ x.cells = found
  BY DEF Warranted, OfConvictionScan
<1>2. IsMarket(market) /\ IsRegistry(reg) /\ reg # Unavailable
  BY <1>1, OfTheSession DEF Usable
<1>3. \A t \in DOMAIN market : Range(line.frames) \subseteq DOMAIN market[t]
  BY OfTheSession
<1>4. /\ line.frames \in Seq(Range(line.frames)) /\ line.baskets \in Seq(Range(line.baskets))
      /\ Len(line.frames) = 1
  BY OfTheSession DEF IsLine
<1> PICK frame : frame = line.frames[1]
  OBVIOUS
<1>5. DOMAIN line.frames = {1} /\ \A j \in DOMAIN line.frames : line.frames[j] = frame
  BY <1>4
<1> PICK n \in Nat : n = Len(line.baskets)
  BY <1>4
<1> PICK baskets : baskets = [i \in 1..n |-> ByCategory(reg, line.baskets[i])]
  OBVIOUS
<1> PICK V : V = Range(Alphabet)
  OBVIOUS
<1>6. \A i \in 1..n : baskets[i] \in Seq(V)
  <2> SUFFICES ASSUME NEW i \in 1..n PROVE baskets[i] \in Seq(V)
    OBVIOUS
  <2> PICK basket : basket = baskets[i]
    OBVIOUS
  <2>1. basket \in Seq(Range(basket)) /\ Range(basket) \subseteq V
    BY <1>2, BasketsAre
  <2> QED BY ONLY <2>1, basket = baskets[i]
<1>7. baskets \in [1..n -> Seq(V)]
  BY <1>6
<1>8. \A k \in Nat : \A f \in [1..k -> Seq(V)] : f \in Seq(Seq(V)) /\ Len(f) = k
  OBVIOUS
<1>9. baskets \in Seq(Seq(V)) /\ Len(baskets) = n
  BY ONLY <1>7, <1>8, n \in Nat
<1> PICK scope : scope = FlattenSeq(baskets)
  OBVIOUS
<1>10. scope \in Seq(V) /\ ToSet(scope) = UNION {ToSet(baskets[i]) : i \in 1..n}
  <2>1. FlattenSeq(baskets) \in Seq(V) /\ ToSet(FlattenSeq(baskets)) = UNION {ToSet(baskets[i]) : i \in 1..Len(baskets)}
    BY ONLY <1>9, FlattenElems
  <2> QED BY ONLY <1>9, <2>1, scope = FlattenSeq(baskets)
<1>11. \A t : t \in ToSet(scope) <=> Named(x, t)
  <2>1. DOMAIN line.baskets = 1..n
    BY <1>4
  <2>2. \A t : Named(x, t) <=> \E i \in 1..n : t \in ToSet(baskets[i])
    BY <2>1 DEF Named, Range
  <2> QED BY ONLY <1>10, <2>2
<1> PICK tickers : tickers = Fetched(market, scope, frame)
  OBVIOUS
<1>12. /\ tickers \in Seq(V)
       /\ ToSet(tickers) = ToSet(scope) \cap {t \in ToSet(scope) : HasData(market, t, frame)}
  <2> PICK quoted : quoted = {t \in ToSet(scope) : HasData(market, t, frame)}
    OBVIOUS
  <2>1. tickers = Among(scope, quoted)
    BY DEF Fetched
  <2>2. Among(scope, quoted) \in Seq(V) /\ ToSet(Among(scope, quoted)) = ToSet(scope) \cap quoted
    BY ONLY <1>10, AmongIs
  <2> QED BY <2>1, <2>2
<1>13. tickers \in Seq(Range(tickers)) /\ ToSet(tickers) = Range(tickers)
  BY <1>12, OwnRange
<1>14. \A t : t \in ToSet(tickers) <=> t \in V /\ Named(x, t) /\ HasData(market, t, frame)
  <2>1. ToSet(tickers) \subseteq V
    BY <1>12 DEF ToSet
  <2> QED BY <1>11, <1>12, <2>1
<1> PICK l2, class : l2 = SkillsIn(line) /\ class = Classes(reg, tickers)
  OBVIOUS
<1>15. found = Cells(market, tickers, line.frames, class, l2, Strategy)
  <2>1. DOMAIN line.baskets = 1..n
    BY <1>4
  <2>2. TickersIn(line, market, reg) = tickers
    BY <2>1 DEF TickersIn
  <2>3. StrategiesIn(line) = Strategy
    BY DEF StrategiesIn, Strategy
  <2> QED BY <1>1, <2>2, <2>3 DEF Scanned, Unclassed
<1>16. Floor \in Nat
  BY SessionsAssumption
<1>17. /\ found \in Seq(ToSet(found))
       /\ \A c \in ToSet(found) : \E i \in DOMAIN tickers : \E j \in DOMAIN line.frames :
            c = Cell(market, tickers[i], line.frames[j], class[tickers[i]], l2, Strategy)
       /\ \A i \in DOMAIN tickers : \A j \in DOMAIN line.frames :
            Cell(market, tickers[i], line.frames[j], class[tickers[i]], l2, Strategy) \in ToSet(found)
  <2>1. line.frames \in Seq(Range(line.frames)) /\ tickers \in Seq(Range(tickers))
    BY <1>4, <1>13
  <2> QED BY ONLY <1>15, <2>1, CellsAre
<1>18. ASSUME NEW c \in ToSet(found) PROVE c.ticker \in ToSet(tickers)
  <2>1. PICK i \in DOMAIN tickers : \E f, a : c = Cell(market, tickers[i], f, a, l2, Strategy)
    BY ONLY <1>17, c \in ToSet(found), Zenon
  <2>2. \A t, f, a : Cell(market, t, f, a, l2, Strategy).ticker = t
    BY DEF Cell
  <2>3. c.ticker = tickers[i]
    BY ONLY <2>1, <2>2
  <2> QED BY <1>13, <2>3 DEF Range
<1>19. ASSUME NEW c \in ToSet(found), NEW k \in DOMAIN c.strategies
       PROVE  k \in Strategy /\ c.strategies[k] \in Seq(Good(Floor)) /\ c.strategies[k] = Own(x, c.ticker, k)
  <2>1. IsMarket(market)
    BY <1>2
  <2>2. line.frames \in Seq(Range(line.frames))
    BY <1>4
  <2>3. Strategy \in SUBSET Strategy
    OBVIOUS
  <2>4. tickers \in Seq(Range(tickers))
    BY <1>13
  <2>5. FoundIn(market, tickers, line.frames, class, Strategy, c, k)
    BY ONLY <1>3, <1>15, <1>16, <2>1, <2>2, <2>3, <2>4, c \in ToSet(found), k \in DOMAIN c.strategies, CellsAreGood
  <2>6. c.frame = frame
    BY <1>5, <2>5 DEF FoundIn
  <2>7. \E quote : /\ quote = Candles(market, c.ticker, c.frame)
                    /\ c.strategies[k] = Analyze(k, quote.bar, Readings(quote.bar, MarketTrend(quote.bar)),
                                                 quote.lowest, class[c.ticker], Floor)
    BY ONLY <2>5 DEF FoundIn
  <2>8. PICK quote : /\ quote = Candles(market, c.ticker, frame)
                     /\ c.strategies[k] = Analyze(k, quote.bar, Readings(quote.bar, MarketTrend(quote.bar)),
                                                  quote.lowest, class[c.ticker], Floor)
    BY ONLY <2>6, <2>7
  <2>9. class[c.ticker] = ClassOf(reg, c.ticker)
    BY <1>18 DEF Classes
  <2>10. c.strategies[k] = Own(x, c.ticker, k)
    BY <2>8, <2>9 DEF Own
  <2> QED BY <2>5, <2>10 DEF FoundIn
<1> PICK rows : rows = RowsOf(found)
  OBVIOUS
<1>20. ASSUME NEW z \in Said(rows) PROVE z \in Surfaced(x)
  <2>1. PICK m \in DOMAIN found : \E k \in DOMAIN found[m].strategies : \E i \in DOMAIN found[m].strategies[k] :
          z = [ticker |-> found[m].ticker, strategy |-> k, idea |-> found[m].strategies[k][i]]
    BY <1>20 DEF Said, RowsOf
  <2> PICK c : c = found[m]
    OBVIOUS
  <2>2. PICK k \in DOMAIN c.strategies : \E i \in DOMAIN c.strategies[k] :
          z = [ticker |-> c.ticker, strategy |-> k, idea |-> c.strategies[k][i]]
    BY <2>1
  <2>3. c \in ToSet(found)
    BY DEF ToSet
  <2>4. k \in Strategy /\ c.strategies[k] = Own(x, c.ticker, k)
    BY <1>19, <2>3
  <2>5. PICK shown \in ToSet(Own(x, c.ticker, k)) : z = [ticker |-> c.ticker, strategy |-> k, idea |-> shown]
    BY <2>2, <2>4 DEF ToSet
  <2>6. c.ticker \in V /\ Named(x, c.ticker) /\ HasData(market, c.ticker, frame)
    BY <1>14, <1>18, <2>3
  <2> PICK T : T = {t \in Range(Alphabet) : Named(x, t) /\ HasData(x.market, t, x.line.frames[1])}
    OBVIOUS
  <2>7. c.ticker \in T
    BY <2>6
  <2>8. z \in {[ticker |-> c.ticker, strategy |-> k, idea |-> idea] : idea \in ToSet(Own(x, c.ticker, k))}
    BY <2>5
  <2>9. Surfaced(x) = UNION {{[ticker |-> t, strategy |-> h, idea |-> idea] : idea \in ToSet(Own(x, t, h))} :
                               t \in T, h \in Strategy}
    BY DEF Surfaced
  <2> PICK saying : saying = {[ticker |-> c.ticker, strategy |-> k, idea |-> idea] : idea \in ToSet(Own(x, c.ticker, k))}
    OBVIOUS
  <2>10. saying \in {{[ticker |-> t, strategy |-> h, idea |-> idea] : idea \in ToSet(Own(x, t, h))} :
                        t \in T, h \in Strategy}
    BY <2>4, <2>7
  <2> QED BY ONLY <2>8, <2>9, <2>10, saying = {[ticker |-> c.ticker, strategy |-> k, idea |-> idea] : idea \in ToSet(Own(x, c.ticker, k))}
<1>21. ASSUME NEW z \in Surfaced(x) PROVE z \in Said(rows)
  <2>1. PICK t \in V, k \in Strategy :
          /\ Named(x, t) /\ HasData(market, t, frame)
          /\ \E idea \in ToSet(Own(x, t, k)) : z = [ticker |-> t, strategy |-> k, idea |-> idea]
    BY <1>21 DEF Surfaced
  <2>11. t \in Range(tickers)
    BY ONLY <1>13, <1>14, <2>1
  <2>2. PICK i \in DOMAIN tickers : tickers[i] = t
    BY ONLY <2>11 DEF Range
  <2> PICK c : c = Cell(market, t, frame, class[t], l2, Strategy)
    OBVIOUS
  <2>3. c \in ToSet(found)
    BY <1>5, <1>17, <2>2
  <2>4. PICK m \in DOMAIN found : found[m] = c
    BY <2>3 DEF ToSet
  <2>5. c.ticker = t /\ k \in DOMAIN c.strategies
    <3> PICK quote : quote = Candles(market, t, frame)
      OBVIOUS
    <3> PICK all : all = StrategyIdeas(quote.bar, MarketTrend(quote.bar), quote.lowest, class[t])
      OBVIOUS
    <3>1. DOMAIN all = Strategy
      BY DEF StrategyIdeas
    <3>2. Strategy # {}
      BY DEF Strategy
    <3>3. c.ticker = t /\ c.strategies = Restrict(all, Strategy)
      BY <2>1, <3>2 DEF Cell, HasData
    <3> QED BY <3>1, <3>3 DEF Restrict
  <2>6. c.strategies[k] = Own(x, t, k)
    BY <1>19, <2>3, <2>5
  <2>7. PICK j \in DOMAIN c.strategies[k] : z = [ticker |-> t, strategy |-> k, idea |-> c.strategies[k][j]]
    <3>1. PICK idea \in ToSet(c.strategies[k]) : z = [ticker |-> t, strategy |-> k, idea |-> idea]
      BY ONLY <2>1, <2>6
    <3>2. PICK j \in DOMAIN c.strategies[k] : idea = c.strategies[k][j]
      BY ONLY idea \in ToSet(c.strategies[k]) DEF ToSet
    <3> QED BY ONLY <3>1, <3>2
  <2> PICK row : row = [cell |-> m, strategy |-> k, index |-> j, ticker |-> c.ticker, idea |-> c.strategies[k][j]]
    OBVIOUS
  <2>8. row \in rows
    <3>1. \E h \in DOMAIN found[m].strategies : \E p \in DOMAIN found[m].strategies[h] :
            row = [cell |-> m, strategy |-> h, index |-> p, ticker |-> found[m].ticker,
                   idea |-> found[m].strategies[h][p]]
      BY <2>4, <2>5
    <3>2. \A y : y \in RowsOf(found) <=>
            \E l \in DOMAIN found : \E h \in DOMAIN found[l].strategies : \E p \in DOMAIN found[l].strategies[h] :
              y = [cell |-> l, strategy |-> h, index |-> p, ticker |-> found[l].ticker,
                   idea |-> found[l].strategies[h][p]]
      BY ONLY DEF RowsOf
    <3> QED BY ONLY <3>1, <3>2, m \in DOMAIN found, rows = RowsOf(found)
  <2>9. z = [ticker |-> row.ticker, strategy |-> row.strategy, idea |-> row.idea]
    BY <2>5, <2>7
  <2> QED BY <2>8, <2>9 DEF Said
<1>22. Said(rows) = Surfaced(x)
  BY <1>20, <1>21
<1>23. \A c \in ToSet(found) : c.ticker \in V
  BY <1>14, <1>18
<1> QED BY <1>1, <1>17, <1>19, <1>22, <1>23

(* l3-conviction-scan prints the strongest of all that.                    *)
LEMMA RanksKeepStrongest ==
  ASSUME BatchInv, NEW x, Warranted(x, session), x.scanned, x.line.skill = "l3-conviction-scan"
  PROVE  Strongest(Surfaced(x), x.rows, x.line.top)
<1> PICK rows, kept, top : rows = RowsOf(x.cells) /\ kept = x.rows /\ top = x.line.top
  OBVIOUS
<1>1. kept = RankIdeas(rows, top)
  BY DEF Warranted, OfConvictionScan
<1>2. top \in Nat \cup {NoTop} /\ NoTop \notin Nat
  BY OfTheSession, SessionsAssumption DEF IsLine
<1> PICK cells : cells = x.cells
  OBVIOUS
<1>3. /\ cells \in Seq(ToSet(cells))
      /\ \A c \in ToSet(cells) : c.ticker \in Range(Alphabet)
      /\ \A c \in ToSet(cells) : \A k \in DOMAIN c.strategies :
           k \in Strategy /\ c.strategies[k] \in Seq(Good(Floor))
  BY ScansSurface
<1>4. IsFiniteSet(rows) /\ \A y \in rows : y.idea.conviction \in Int
  BY ONLY <1>3, RowsAre, rows = RowsOf(x.cells), cells = x.cells
<1>5. Ordered(rows)
  BY ONLY <1>3, RowsAreOrdered, rows = RowsOf(x.cells), cells = x.cells
<1>6. /\ kept \subseteq rows
      /\ top # NoTop => Cardinality(kept) <= top
      /\ \A y \in rows \ kept :
           Cardinality(kept) = top /\ \A z \in kept : y.idea.conviction <= z.idea.conviction
  BY ONLY <1>1, <1>2, <1>4, <1>5, RankKeeps
<1>7. Said(rows) = Surfaced(x)
  BY ScansSurface
<1>8. Said(kept) \subseteq Said(rows)
  BY <1>6 DEF Said
<1>9. ASSUME NEW s \in Said(rows) \ Said(kept)
      PROVE  Cardinality(kept) = top /\ \A z \in kept : s.idea.conviction <= z.idea.conviction
  <2>1. PICK y \in rows : s = [ticker |-> y.ticker, strategy |-> y.strategy, idea |-> y.idea]
    BY DEF Said
  <2>2. y \notin kept
    BY <2>1 DEF Said
  <2> QED BY <1>6, <2>1, <2>2
<1> QED BY <1>6, <1>7, <1>8, <1>9 DEF Strongest

(* Taking out doubles leaves a sequence.                                   *)
Singling(g, s) ==
  g = [u \in SUBSET (DOMAIN s) |->
         IF u = {} THEN <<>>
         ELSE IF s[Max(u)] \in ToSet(g[u \ {Max(u)}]) THEN g[u \ {Max(u)}] ELSE Append(g[u \ {Max(u)}], s[Max(u)])]

LEMMA DistinctIs ==
  ASSUME NEW V, NEW s \in Seq(V) PROVE Distinct(s) \in Seq(V)
<1> PICK n \in Nat : n = Len(s)
  OBVIOUS
<1>1. DOMAIN s = 1..n /\ \A k \in 1..n : s[k] \in V
  OBVIOUS
<1> PICK step : step = [p \in Seq(V) \X (1..n) |-> IF s[p[2]] \in ToSet(p[1]) THEN p[1] ELSE Append(p[1], s[p[2]])]
  OBVIOUS
<1>2. PICK g : Walks(g, step, <<>>, n, Seq(V))
  <2>1. step \in [Seq(V) \X (1..n) -> Seq(V)] /\ <<>> \in Seq(V)
    <3>1. \A q \in Seq(V) : \A k \in 1..n : Append(q, s[k]) \in Seq(V)
      BY <1>1
    <3> QED BY <3>1
  <2> PICK D : D = Seq(V)
    OBVIOUS
  <2>2. step \in [D \X (1..n) -> D] /\ <<>> \in D
    BY <2>1
  <2>3. \E g : Walks(g, step, <<>>, n, D)
    BY <2>2, WalkExists
  <2> QED BY <2>3
<1>3. \A u \in SUBSET (1..n) :
        g[u] = IF u = {} THEN <<>>
               ELSE IF s[Max(u)] \in ToSet(g[u \ {Max(u)}]) THEN g[u \ {Max(u)}]
                    ELSE Append(g[u \ {Max(u)}], s[Max(u)])
  <2> TAKE u \in SUBSET (1..n)
  <2>1. CASE u = {}
    BY <1>2, <2>1 DEF Walks
  <2>2. CASE u # {}
    <3>1. Max(u) \in 1..n /\ u \ {Max(u)} \in SUBSET (1..n)
      BY <2>2, MaxIsIn
    <3>2. g[u \ {Max(u)}] \in Seq(V)
      BY <1>2, <3>1 DEF Walks
    <3>3. g[u] = step[<<g[u \ {Max(u)}], Max(u)>>]
      BY <1>2, <2>2 DEF Walks
    <3> QED BY <2>2, <3>1, <3>2, <3>3
  <2> QED BY <2>1, <2>2
<1>4. \E h : Singling(h, s)
  <2>1. g = [u \in SUBSET (1..n) |-> g[u]]
    BY <1>2 DEF Walks
  <2>2. g = [u \in SUBSET (1..n) |->
               IF u = {} THEN <<>>
               ELSE IF s[Max(u)] \in ToSet(g[u \ {Max(u)}]) THEN g[u \ {Max(u)}]
                    ELSE Append(g[u \ {Max(u)}], s[Max(u)])]
    BY <1>3, <2>1
  <2>3. Singling(g, s)
    BY ONLY <1>1, <2>2 DEF Singling
  <2> QED BY <2>3
<1>5. PICK h : Singling(h, s) /\ Distinct(s) = h[DOMAIN s]
  <2>1. Distinct(s) = (CHOOSE h : Singling(h, s))[DOMAIN s]
    BY DEF Distinct, FoldLeft, MapThenFoldSet, Singling
  <2> QED BY <1>4, <2>1
<1> DEFINE P == {k \in 0..n : h[1..k] \in Seq(V)}
<1>6. 0 \in P
  <2>1. 1..0 = {} /\ {} \in SUBSET (1..n)
    OBVIOUS
  <2>2. h[{}] = <<>>
    BY <1>1, <1>5, <2>1 DEF Singling
  <2>3. 0 \in 0..n /\ <<>> \in Seq(V)
    OBVIOUS
  <2>4. h[1..0] \in Seq(V)
    BY ONLY <2>1, <2>2, <2>3
  <2> QED BY <2>3, <2>4
<1>7. \A k \in 1..n : k - 1 \in P => k \in P
  <2> SUFFICES ASSUME NEW k \in 1..n, k - 1 \in P PROVE k \in P
    OBVIOUS
  <2>1. 1..k \in SUBSET (1..n) /\ 1..k # {}
    <3>1. k \in 1..k /\ \A i \in 1..k : i \in 1..n
      OBVIOUS
    <3> QED BY <3>1
  <2>2. Max(1..k) = k /\ (1..k) \ {Max(1..k)} = 1..(k - 1)
    BY MaxOfPrefix
  <2> PICK q \in Seq(V) : q = h[1..(k - 1)]
    OBVIOUS
  <2>3. h[1..k] = IF s[k] \in ToSet(q) THEN q ELSE Append(q, s[k])
    BY <1>1, <1>5, <2>1, <2>2 DEF Singling
  <2>4. Append(q, s[k]) \in Seq(V)
    BY <1>1
  <2>5. k \in 0..n
    OBVIOUS
  <2> QED BY <2>3, <2>4, <2>5
<1>8. \A k \in 0..n : k \in P
  <2> HIDE DEF P
  <2> QED BY <1>6, <1>7, Climbing
<1>9. n \in P
  BY <1>8
<1> QED BY <1>1, <1>5, <1>9

(* What a watchlist run is asked for is a sequence of tickers.             *)
LEMMA ScopesAre ==
  ASSUME NEW line, line.argv \in Seq(Range(line.argv)), NEW reg, IsRegistry(reg), reg # Unavailable
  PROVE  \E V : Scope(line, reg) \in Seq(V)
<1> PICK words : words = Positional(line.argv)
  OBVIOUS
<1>1. CASE words = <<>>
  BY <1>1, BasketsAre DEF Scope
<1>2. CASE words # <<>>
  <2>1. words \in Seq(Range(words))
    BY PositionalIs
  <2>2. DOMAIN words = 1..Len(words) /\ Len(words) \in Nat
    BY <2>1
  <2> PICK named : named = [i \in DOMAIN words |->
                              IF Len(Candidates(reg, words[i])) = 1 THEN Candidates(reg, words[i])[1] ELSE words[i]]
    OBVIOUS
  <2>3. named = [i \in 1..Len(words) |-> named[i]]
    BY <2>2
  <2>4. named \in Seq(Range(named))
    BY <2>2, <2>3, Listed
  <2>5. Scope(line, reg) = Distinct(named)
    BY <1>2 DEF Scope, ExpandTickers
  <2> QED BY <2>4, <2>5, DistinctIs
<1> QED BY <1>1, <1>2

(* run-watchlist accounts for every ticker of a basket, for none twice.    *)
LEMMA ScopesAreCovered ==
  ASSUME BatchInv, NEW x, Warranted(x, session), x.scanned, x.line.skill = "run-watchlist",
         NEW reported, reported = {x.cells[n].ticker : n \in DOMAIN x.cells}
  PROVE  /\ Positional(x.line.argv) = <<>> =>
              reported \cup x.skipped = ToSet(ByCategory(x.registry, Basket(x.line)))
         /\ reported \cap x.skipped = {}
         /\ \A t \in x.skipped : t \in x.line.skip /\ MetadataFor(x.registry, t).tier \notin {1, 2}
<1> PICK line, market, reg : line = x.line /\ market = x.market /\ reg = x.registry
  OBVIOUS
<1> PICK found : found = Scanned(line, market, reg)
  OBVIOUS
<1> PICK scope : scope = Scope(line, reg)
  OBVIOUS
<1>1. Usable(reg) /\ x.cells = found /\ x.skipped = Skipped(reg, scope, line.skip)
  BY DEF Warranted, OfWatchlist
<1>2. x.skipped \subseteq ToSet(scope) /\ \A t \in x.skipped : t \in line.skip /\ MetadataFor(reg, t).tier \notin {1, 2}
  BY <1>1 DEF Skipped
<1>3. reported = ToSet(scope) \ x.skipped
  <2>1. IsRegistry(reg) /\ reg # Unavailable
    BY <1>1, OfTheSession DEF Usable
  <2>2. line.frames \in Seq(Range(line.frames)) /\ 1 \in DOMAIN line.frames /\ line.argv \in Seq(Range(line.argv))
    BY OfTheSession DEF IsLine
  <2>3. PICK V : scope \in Seq(V)
    BY <2>1, <2>2, ScopesAre
  <2> PICK scanned : scanned = ToSet(scope) \ x.skipped
    OBVIOUS
  <2> PICK tickers : tickers = Among(scope, scanned)
    OBVIOUS
  <2>4. tickers \in Seq(V) /\ ToSet(tickers) = scanned
    BY <2>3, AmongIs
  <2>5. tickers \in Seq(Range(tickers)) /\ ToSet(tickers) = Range(tickers)
    BY <2>4, OwnRange
  <2> PICK l2, class, strategies : l2 = SkillsIn(line) /\ class = Classes(reg, tickers) /\ strategies = StrategiesIn(line)
    OBVIOUS
  <2>6. found = Cells(market, tickers, line.frames, class, l2, strategies)
    <3>1. TickersIn(line, market, reg) = tickers
      BY <1>1 DEF TickersIn
    <3> QED BY <1>1, <3>1 DEF Scanned, Unclassed
  <2>7. \A t, f, a : Cell(market, t, f, a, l2, strategies).ticker = t
    BY DEF Cell
  <2>8. /\ found \in Seq(ToSet(found))
        /\ \A c \in ToSet(found) : \E i \in DOMAIN tickers : \E j \in DOMAIN line.frames :
             c = Cell(market, tickers[i], line.frames[j], class[tickers[i]], l2, strategies)
        /\ \A i \in DOMAIN tickers : \A j \in DOMAIN line.frames :
             Cell(market, tickers[i], line.frames[j], class[tickers[i]], l2, strategies) \in ToSet(found)
    <3>1. line.frames \in Seq(Range(line.frames))
      BY <2>2
    <3>2. tickers \in Seq(Range(tickers))
      BY <2>5
    <3> QED BY ONLY <2>6, <3>1, <3>2, CellsAre
  <2>9. \A n \in DOMAIN found : found[n] \in ToSet(found)
    BY DEF ToSet
  <2>10. \A n \in DOMAIN found : found[n].ticker \in scanned
    <3> SUFFICES ASSUME NEW n \in DOMAIN found PROVE found[n].ticker \in scanned
      OBVIOUS
    <3> PICK c \in ToSet(found) : c = found[n]
      BY <2>9
    <3>1. PICK i \in DOMAIN tickers : \E f, a : c = Cell(market, tickers[i], f, a, l2, strategies)
      BY ONLY <2>8, c \in ToSet(found), Zenon
    <3>2. c.ticker = tickers[i]
      BY ONLY <2>7, <3>1
    <3> QED BY <2>4, <2>5, <3>2 DEF Range
  <2>11. \A t \in scanned : \E n \in DOMAIN found : found[n].ticker = t
    <3> SUFFICES ASSUME NEW t \in scanned PROVE \E n \in DOMAIN found : found[n].ticker = t
      OBVIOUS
    <3>1. PICK i \in DOMAIN tickers : t = tickers[i]
      BY <2>4, <2>5 DEF Range
    <3> PICK c : c = Cell(market, tickers[i], line.frames[1], class[tickers[i]], l2, strategies)
      OBVIOUS
    <3>2. c \in ToSet(found)
      BY ONLY <2>2, <2>8, i \in DOMAIN tickers, c = Cell(market, tickers[i], line.frames[1], class[tickers[i]], l2, strategies), Zenon
    <3>3. c.ticker = t
      BY <2>7, <3>1
    <3> QED BY <3>2, <3>3 DEF ToSet
  <2>12. reported = {found[n].ticker : n \in DOMAIN found}
    BY <1>1
  <2>13. {found[n].ticker : n \in DOMAIN found} = scanned
    BY ONLY <2>10, <2>11
  <2> QED BY <2>12, <2>13
<1>4. ASSUME Positional(line.argv) = <<>> PROVE reported \cup x.skipped = ToSet(ByCategory(reg, Basket(line)))
  <2>1. scope = ByCategory(reg, Basket(line))
    BY <1>4 DEF Scope
  <2> QED BY <1>2, <1>3, <2>1
<1> QED BY <1>2, <1>3, <1>4

(* The ideas l3-conviction-scan prints are the strongest of what the       *)
(* strategies say of its baskets (lib.py rank_ideas): as many as --top     *)
(* allows, and none left out is stronger, of any market, registry and      *)
(* command line.                                                           *)
THEOREM StrongestAreShown == ScanSpec => []RankingKeepsStrongest
<1>1. BatchInv => RankingKeepsStrongest
  <2> SUFFICES ASSUME BatchInv, NEW r \in Printed, printout[r].scanned, printout[r].line.skill = "l3-conviction-scan"
               PROVE  Strongest(Surfaced(printout[r]), printout[r].rows, printout[r].line.top)
    BY DEF RankingKeepsStrongest
  <2> PICK x : x = printout[r]
    OBVIOUS
  <2>1. Warranted(x, session)
    BY DEF BatchInv, Printed
  <2> QED BY <2>1, RanksKeepStrongest
<1> QED BY <1>1, BatchHolds, PTL

(* A watchlist run reports or names as skipped every ticker of its basket, *)
(* never both, and skips none of tier 1 or 2 (run-watchlist lib.py:47-92), *)
(* of any registry, skip list and command line.                            *)
THEOREM TickersAreAccountedFor == ScanSpec => []ScopeIsCovered
<1>1. BatchInv => ScopeIsCovered
  <2> SUFFICES ASSUME BatchInv, NEW r \in Printed, printout[r].scanned, printout[r].line.skill = "run-watchlist",
                      NEW reported, reported = {printout[r].cells[n].ticker : n \in DOMAIN printout[r].cells}
               PROVE  /\ Positional(printout[r].line.argv) = <<>> =>
                           reported \cup printout[r].skipped
                             = ToSet(ByCategory(printout[r].registry, Basket(printout[r].line)))
                      /\ reported \cap printout[r].skipped = {}
                      /\ \A t \in printout[r].skipped :
                           t \in printout[r].line.skip /\ MetadataFor(printout[r].registry, t).tier \notin {1, 2}
    BY DEF ScopeIsCovered
  <2> PICK x : x = printout[r]
    OBVIOUS
  <2>1. Warranted(x, session)
    BY DEF BatchInv, Printed
  <2> QED BY <2>1, ScopesAreCovered
<1> QED BY <1>1, BatchHolds, PTL

-----------------------------------------------------------------------------
(* The history and the ticks it remembers *)

Entry == [tick : Nat, conviction : Int]

(* Of the ticks ts, h keeps the latest entries: those of tick t lie after  *)
(* off[t - 1] and up to off[t], what was evicted lies below the first      *)
(* place, and nothing was evicted while there was room.                    *)
Laid(h, ts, off) ==
  /\ h \in Seq(Entry) /\ Len(h) <= Cap
  /\ ts \in Seq(Seq(Int) \ {<<>>})
  /\ off \in [0..Len(ts) -> Int]
  /\ off[Len(ts)] = Len(h) /\ off[0] <= 0
  /\ off[0] = 0 \/ Len(h) = Cap
  /\ \A t \in 1..Len(ts) : off[t] = off[t - 1] + Len(ts[t])
  /\ \A i \in 1..Len(h) : \E t \in 1..Len(ts) :
       /\ off[t - 1] < i /\ i <= off[t]
       /\ h[i] = [tick |-> t, conviction |-> ts[t][i - off[t - 1]]]
Remembers(h, ts) == \E off : Laid(h, ts, off)

(* What the entries are made of.                                           *)
LEMMA LaidTypes ==
  ASSUME NEW h, NEW ts, NEW off, Laid(h, ts, off)
  PROVE  /\ Len(ts) \in Nat
         /\ Len(h) \in Nat
         /\ \A a \in 0..Len(ts) : off[a] \in Int
         /\ \A t \in 1..Len(ts) : ts[t] \in Seq(Int) /\ Len(ts[t]) \in Nat \ {0}
<1>1. Len(ts) \in Nat /\ \A t \in 1..Len(ts) : ts[t] \in Seq(Int) \ {<<>>}
  BY DEF Laid
<1>2. Len(h) \in Nat
  <2>1. h \in Seq(Entry)
    BY DEF Laid
  <2> QED BY <2>1
<1>3. \A a \in 0..Len(ts) : off[a] \in Int
  BY DEF Laid
<1>4. \A s \in Seq(Int) \ {<<>>} : Len(s) \in Nat \ {0}
  OBVIOUS
<1> QED BY <1>1, <1>2, <1>3, <1>4

(* Later ticks end at later places.                                        *)
LEMMA TicksClimb ==
  ASSUME NEW h, NEW ts, NEW off, Laid(h, ts, off)
  PROVE  \A b \in 0..Len(ts) : \A a \in 0..Len(ts) : a < b => off[a] < off[b]
<1> PICK n \in Nat : n = Len(ts)
  BY DEF Laid
<1> DEFINE P == {b \in 0..n : \A a \in 0..n : a < b => off[a] < off[b]}
<1>1. \A t \in 1..n : off[t - 1] < off[t] /\ off[t] \in Int /\ off[t - 1] \in Int
  <2> TAKE t \in 1..n
  <2>1. ts[t] \in Seq(Int) /\ ts[t] # <<>>
    BY DEF Laid
  <2>2. Len(ts[t]) > 0 /\ Len(ts[t]) \in Nat
    BY <2>1
  <2>3. off[t] = off[t - 1] + Len(ts[t]) /\ off \in [0..n -> Int]
    BY DEF Laid
  <2> QED BY <2>2, <2>3
<1>2. \A a \in 0..n : off[a] \in Int
  BY DEF Laid
<1>3. ASSUME NEW k \in 1..n, k - 1 \in P PROVE k \in P
  <2>1. ASSUME NEW a \in 0..n, a < k PROVE off[a] < off[k]
    <3>1. CASE a = k - 1
      BY <1>1, <3>1
    <3>2. CASE a < k - 1
      BY <1>1, <1>2, <1>3, <3>2
    <3> QED BY <2>1, <3>1, <3>2
  <2> QED BY <2>1
<1>4. 0 \in P
  OBVIOUS
<1> HIDE DEF P
<1>5. \A k \in 0..n : k \in P
  BY <1>3, <1>4, Climbing
<1> QED BY <1>5 DEF P

(* The entries of a tick are those between its places.                     *)
LEMMA PlacesOfTick ==
  ASSUME NEW h, NEW ts, NEW off, Laid(h, ts, off), NEW i \in 1..Len(h), NEW t \in 1..Len(ts)
  PROVE  /\ h[i].tick \in 1..Len(ts)
         /\ h[i].tick = t <=> off[t - 1] < i /\ i <= off[t]
         /\ h[i].tick = t => h[i].conviction = ts[t][i - off[t - 1]]
<1>1. PICK u \in 1..Len(ts) : /\ off[u - 1] < i /\ i <= off[u]
                              /\ h[i] = [tick |-> u, conviction |-> ts[u][i - off[u - 1]]]
  BY DEF Laid
<1>2. h[i].tick = u /\ h[i].conviction = ts[u][i - off[u - 1]]
  BY <1>1
<1>3. Len(ts) \in Nat /\ Len(h) \in Nat /\ \A a \in 0..Len(ts) : off[a] \in Int
  BY LaidTypes
<1>4. \A b \in 0..Len(ts) : \A a \in 0..Len(ts) : a < b => off[a] < off[b]
  BY TicksClimb
<1>5. ASSUME off[t - 1] < i, i <= off[t] PROVE u = t
  <2>1. ~(t < u)
    <3> SUFFICES ASSUME t < u PROVE FALSE
      OBVIOUS
    <3>1. t = u - 1 \/ t < u - 1
      BY <1>3
    <3>2. off[t] <= off[u - 1]
      BY <1>3, <1>4, <3>1
    <3> QED BY <1>1, <1>3, <1>5, <3>2
  <2>2. ~(u < t)
    <3> SUFFICES ASSUME u < t PROVE FALSE
      OBVIOUS
    <3>1. u = t - 1 \/ u < t - 1
      BY <1>3
    <3>2. off[u] <= off[t - 1]
      BY <1>3, <1>4, <3>1
    <3> QED BY <1>1, <1>3, <1>5, <3>2
  <2> QED BY <1>3, <2>1, <2>2
<1> QED BY <1>1, <1>2, <1>5

(* One tick more is remembered behind the others.                          *)
Evicts(h, k) == IF Len(h) + k > Cap THEN Len(h) + k - Cap ELSE 0
Follows(g, h, n, told) ==
  /\ g \in Seq(Entry) /\ Len(g) = Len(h) + Len(told) - Evicts(h, Len(told))
  /\ \A i \in 1..Len(g) : \E j : /\ j = i + Evicts(h, Len(told))
                               /\ g[i] = IF j <= Len(h) THEN h[j]
                                         ELSE [tick |-> n + 1, conviction |-> told[j - Len(h)]]

(* The history goes on to remember the ticks when one is appended: the     *)
(* places of the older entries move down by what is evicted.               *)
LEMMA HistoryGrows ==
  ASSUME NEW h, NEW ts, NEW off, Laid(h, ts, off), NEW told \in Seq(Int) \ {<<>>},
         NEW g, Follows(g, h, Len(ts), told)
  PROVE  Remembers(g, Append(ts, told))
<1> PICK n, m, k, d : n = Len(ts) /\ m = Len(h) /\ k = Len(told) /\ d = Evicts(h, k)
  OBVIOUS
<1>1. n \in Nat /\ m \in Nat /\ k \in Nat /\ k > 0
  BY LaidTypes
<1>2. d = IF m + k > Cap THEN m + k - Cap ELSE 0
  BY DEF Evicts
<1>3. /\ g \in Seq(Entry) /\ Len(g) = m + k - d
      /\ \A i \in 1..(m + k - d) : \E j : /\ j = i + d
                                        /\ g[i] = IF j <= m THEN h[j]
                                                  ELSE [tick |-> n + 1, conviction |-> told[j - m]]
  BY DEF Follows
<1>4. Len(told) = k
  OBVIOUS
<1>5. d \in Nat
  <2>1. Cap \in Nat
    BY WindowAssumption
  <2> QED BY ONLY <1>1, <1>2, <2>1
<1>6. Cap \in Nat \ {0} /\ m <= Cap
  BY WindowAssumption DEF Laid
<1> PICK more : more = Append(ts, told)
  OBVIOUS
<1>9. /\ more \in Seq(Seq(Int) \ {<<>>}) /\ Len(more) = n + 1 /\ more[n + 1] = told
      /\ \A t \in 1..n : more[t] = ts[t]
  <2>1. ts \in Seq(Seq(Int) \ {<<>>})
    BY DEF Laid
  <2> QED BY <2>1, AppendProperties
<1>10. /\ \A t \in 0..n : off[t] \in Int
       /\ off[n] = m /\ off[0] <= 0 /\ (off[0] = 0 \/ m = Cap)
       /\ \A t \in 1..n : off[t] = off[t - 1] + Len(ts[t])
  BY LaidTypes DEF Laid
<1> PICK ends : ends = [t \in 0..(n + 1) |-> IF t <= n THEN off[t] - d ELSE m + k - d]
  OBVIOUS
<1>11. ends \in [0..(n + 1) -> Int] /\ ends[n + 1] = m + k - d /\ \A t \in 0..n : ends[t] = off[t] - d
  BY <1>1, <1>5, <1>10
<1>12. ends[0] <= 0 /\ (ends[0] = 0 \/ Len(g) = Cap)
  <2>1. ends[0] = off[0] - d
    BY <1>11
  <2> PICK x, y : x = off[0] /\ y = Len(g)
    OBVIOUS
  <2>2. x \in Int /\ x <= 0 /\ (x = 0 \/ m = Cap)
    BY <1>1, <1>10
  <2>3. y = m + k - d
    BY <1>3
  <2>4. x - d <= 0 /\ (x - d = 0 \/ y = Cap)
    BY ONLY <1>1, <1>2, <1>5, <1>6, <2>2, <2>3
  <2> QED BY <2>1, <2>4
<1>13. \A t \in 1..(n + 1) : ends[t] = ends[t - 1] + Len(more[t])
  <2>1. ends[n + 1] = ends[n] + k
    BY <1>1, <1>5, <1>10, <1>11
  <2>2. ASSUME NEW t \in 1..n PROVE ends[t] = ends[t - 1] + Len(more[t])
    <3>0. t \in 0..n /\ t - 1 \in 0..n
      OBVIOUS
    <3>1. ends[t] = off[t] - d /\ ends[t - 1] = off[t - 1] - d /\ more[t] = ts[t]
      BY ONLY <1>9, <1>11, <3>0, t \in 1..n, Zenon
    <3>2. off[t] = off[t - 1] + Len(ts[t]) /\ off[t] \in Int /\ off[t - 1] \in Int
      BY <1>1, <1>5, <1>10
    <3>3. Len(ts[t]) \in Nat
      BY LaidTypes
    <3> QED BY <1>5, <3>1, <3>2, <3>3
  <2>3. ASSUME NEW t \in 1..(n + 1), t \notin 1..n PROVE t = n + 1 /\ t - 1 = n
    BY <2>3
  <2> QED BY <2>1, <2>2, <2>3, <1>9
<1>14. ASSUME NEW i \in 1..(m + k - d)
       PROVE  \E t \in 1..(n + 1) : /\ ends[t - 1] < i /\ i <= ends[t]
                                    /\ g[i] = [tick |-> t, conviction |-> more[t][i - ends[t - 1]]]
  <2>0. PICK j : /\ j = i + d
                 /\ g[i] = IF j <= m THEN h[j] ELSE [tick |-> n + 1, conviction |-> told[j - m]]
    BY <1>3
  <2>1. g[i] = IF j <= m THEN h[j] ELSE [tick |-> n + 1, conviction |-> told[j - m]]
    BY <2>0
  <2>4. j = i + d
    BY <2>0
  <2>2. CASE j <= m
    <3>0. j \in 1..Len(h)
      BY ONLY <1>1, <1>5, <2>2, <2>4, i \in 1..(m + k - d), m = Len(h)
    <3>1. PICK t \in 1..Len(ts) : /\ off[t - 1] < j /\ j <= off[t]
                                  /\ h[j] = [tick |-> t, conviction |-> ts[t][j - off[t - 1]]]
      BY <3>0 DEF Laid
    <3>7. t \in 1..n /\ t \in 0..n /\ t - 1 \in 0..n /\ t \in 1..(n + 1)
      BY ONLY <1>1, n = Len(ts), t \in 1..Len(ts)
    <3>2. ends[t - 1] = off[t - 1] - d /\ ends[t] = off[t] - d /\ more[t] = ts[t]
      BY ONLY <1>9, <1>11, <3>7, Zenon
    <3>3. off[t] \in Int /\ off[t - 1] \in Int
      BY ONLY <1>10, <3>7, Zenon
    <3>4. i - ends[t - 1] = j - off[t - 1]
      BY ONLY <1>5, <2>4, <3>2, <3>3, i \in 1..(m + k - d)
    <3>8. g[i] = h[j]
      BY <2>1, <2>2
    <3>5. g[i] = [tick |-> t, conviction |-> more[t][i - ends[t - 1]]]
      BY ONLY <3>1, <3>2, <3>4, <3>8
    <3>6. ends[t - 1] < i /\ i <= ends[t]
      BY ONLY <3>1, <3>2, <3>3, <1>5, <2>4, i \in 1..(m + k - d)
    <3> QED BY ONLY <3>5, <3>6, <3>7, Zenon
  <2>3. CASE ~(j <= m)
    <3>1. ends[n] = m - d /\ ends[n + 1] = m + k - d
      BY <1>10, <1>11
    <3>2. g[i] = [tick |-> n + 1, conviction |-> more[n + 1][j - m]]
      BY <1>9, <2>1, <2>3
    <3>3. i - ends[n] = j - m
      BY ONLY <1>1, <1>5, <2>4, <3>1, i \in 1..(m + k - d)
    <3>4. ends[n] < i /\ i <= ends[n + 1]
      BY ONLY <1>1, <1>5, <2>3, <2>4, <3>1, i \in 1..(m + k - d)
    <3> PICK t : t = n + 1
      OBVIOUS
    <3>5. t \in 1..(n + 1) /\ t - 1 = n
      BY ONLY <1>1, t = n + 1
    <3>6. g[i] = [tick |-> t, conviction |-> more[t][i - ends[t - 1]]]
      BY <3>2, <3>3, <3>5
    <3>7. ends[t - 1] < i /\ i <= ends[t]
      BY <3>4, <3>5
    <3> QED BY ONLY <3>5, <3>6, <3>7, Zenon
  <2> QED BY <2>2, <2>3
<1>15. Len(g) <= Cap
  BY ONLY <1>1, <1>2, <1>3, <1>6
<1>16. Laid(g, more, ends)
  BY ONLY <1>9, <1>11, <1>12, <1>13, <1>14, <1>15, <1>3, Zenon DEF Laid
<1> QED BY <1>16 DEF Remembers

(* So it is of a run that had ideas.                                       *)
LEMMA AppendRemembers ==
  ASSUME NEW h, NEW ts, Remembers(h, ts), NEW ideas \in Seq(Good(Floor)), ideas # <<>>
  PROVE  Remembers(Appended(h, Len(ts) + 1, ideas), Append(ts, [i \in DOMAIN ideas |-> ideas[i].conviction]))
<1> PICK off : Laid(h, ts, off)
  BY DEF Remembers
<1> PICK n, m, k : n = Len(ts) /\ m = Len(h) /\ k = Len(ideas)
  OBVIOUS
<1>1. n \in Nat /\ m \in Nat
  BY LaidTypes
<1>2. k \in Nat /\ k > 0 /\ DOMAIN ideas = 1..k
  OBVIOUS
<1>3. \A i \in 1..k : ideas[i].conviction \in Int
  BY GoodIsInt
<1> PICK told : told = [i \in 1..k |-> ideas[i].conviction]
  OBVIOUS
<1>4. told \in Seq(Int) \ {<<>>} /\ Len(told) = k
  <2>1. told \in [1..k -> Int]
    BY ONLY <1>3, told = [i \in 1..k |-> ideas[i].conviction]
  <2> QED BY ONLY <1>2, <2>1
<1> PICK new : new = [i \in 1..k |-> [tick |-> n + 1, conviction |-> told[i]]]
  OBVIOUS
<1>5. new \in Seq(Entry) /\ Len(new) = k /\ \A i \in 1..k : new[i] = [tick |-> n + 1, conviction |-> told[i]]
  <2>1. new \in [1..k -> Entry]
    BY ONLY <1>1, <1>2, <1>4, new = [i \in 1..k |-> [tick |-> n + 1, conviction |-> told[i]]] DEF Entry
  <2> QED BY ONLY <1>2, <2>1, new = [i \in 1..k |-> [tick |-> n + 1, conviction |-> told[i]]]
<1> PICK all : all = h \o new
  OBVIOUS
<1>6. /\ all \in Seq(Entry) /\ Len(all) = m + k
      /\ \A i \in 1..(m + k) : all[i] = IF i <= m THEN h[i] ELSE new[i - m]
  <2>1. h \in Seq(Entry)
    BY DEF Laid
  <2> QED BY <1>5, <2>1, ConcatProperties
<1>7. Cap \in Nat \ {0} /\ m <= Cap
  BY WindowAssumption DEF Laid
<1> PICK d : d = IF m + k > Cap THEN m + k - Cap ELSE 0
  OBVIOUS
<1>8. d \in Nat /\ d < m + k
  BY ONLY <1>1, <1>2, <1>7, d = IF m + k > Cap THEN m + k - Cap ELSE 0
<1> PICK g : g = SubSeq(all, d + 1, m + k)
  OBVIOUS
<1>9. /\ g \in Seq(Entry) /\ Len(g) = m + k - d
      /\ \A i \in 1..(m + k - d) : g[i] = all[i + d]
  <2>1. \A i \in (d + 1)..(m + k) : all[i] \in Entry
    BY ONLY <1>1, <1>2, <1>6, <1>8
  <2>2. /\ g \in Seq(Entry) /\ Len(g) = IF d + 1 <= m + k THEN m + k - (d + 1) + 1 ELSE 0
        /\ \A i \in 1..(m + k - (d + 1) + 1) : g[i] = all[d + 1 + i - 1]
    BY ONLY <1>1, <1>2, <1>8, <2>1, g = SubSeq(all, d + 1, m + k), SubSeqProperties
  <2>3. m + k - (d + 1) + 1 = m + k - d /\ \A i \in 1..(m + k - d) : d + 1 + i - 1 = i + d
    BY ONLY <1>1, <1>2, <1>8
  <2> QED BY ONLY <1>1, <1>2, <1>8, <2>2, <2>3
<1>10. d = Evicts(h, k)
  BY DEF Evicts
<1>11. Remembers(g, Append(ts, told))
  <2>1. ASSUME NEW i \in 1..(m + k - d)
        PROVE  \E j : j = i + d /\ g[i] = IF j <= m THEN h[j] ELSE [tick |-> n + 1, conviction |-> told[j - m]]
    <3> PICK j : j = i + d
      OBVIOUS
    <3>1. j \in 1..(m + k) /\ (~(j <= m) => j - m \in 1..k)
      BY ONLY <1>1, <1>2, <1>8, i \in 1..(m + k - d), j = i + d
    <3>2. g[i] = all[j]
      BY <1>9
    <3>3. all[j] = IF j <= m THEN h[j] ELSE new[j - m]
      BY <1>6, <3>1
    <3> QED BY ONLY <1>5, <3>1, <3>2, <3>3, j = i + d
  <2>2. Len(g) = m + k - d /\ Len(told) = k
    BY <1>4, <1>9
  <2>3. \A i \in 1..(m + k - d) :
          \E j : j = i + d /\ g[i] = IF j <= m THEN h[j] ELSE [tick |-> n + 1, conviction |-> told[j - m]]
    BY <2>1
  <2>4. Follows(g, h, n, told)
    BY ONLY <1>9, <1>10, <2>2, <2>3, m = Len(h) DEF Follows
  <2> QED BY <1>4, <2>4, HistoryGrows
<1>12. Appended(h, n + 1, ideas) = g
  <2>1. [i \in DOMAIN ideas |-> [tick |-> n + 1, conviction |-> ideas[i].conviction]] = new
    BY <1>2
  <2>2. SubSeq(all, IF Len(all) > Cap THEN Len(all) - Cap + 1 ELSE 1, Len(all)) = g
    <3>1. (IF m + k > Cap THEN m + k - Cap + 1 ELSE 1) = d + 1
      BY ONLY <1>1, <1>2, <1>7, d = IF m + k > Cap THEN m + k - Cap ELSE 0
    <3>2. Len(all) = m + k
      BY <1>6
    <3>3. (IF Len(all) > Cap THEN Len(all) - Cap + 1 ELSE 1) = d + 1
      BY ONLY <1>1, <1>2, <1>7, <3>1, <3>2
    <3> QED BY ONLY <3>2, <3>3, g = SubSeq(all, d + 1, m + k)
  <2> QED BY ONLY <2>1, <2>2, all = h \o new DEF Appended
<1>13. [i \in DOMAIN ideas |-> ideas[i].conviction] = told
  BY <1>2
<1> QED BY <1>11, <1>12, <1>13

(* The weak ideas among the entries after place a and up to place b.       *)
Weak(h, a, b) == {i \in 1..Len(h) : a < i /\ i <= b /\ h[i].conviction <= 2}

(* Those of one tick that was not evicted in part.                         *)
LEMMA WeakOfTick ==
  ASSUME NEW h, NEW ts, NEW off, Laid(h, ts, off), NEW t \in 1..Len(ts), off[t - 1] >= 0
  PROVE  Cardinality(Weak(h, off[t - 1], off[t])) = LowCount(ts[t])
<1> PICK a, b, m, k, told : a = off[t - 1] /\ b = off[t] /\ m = Len(h) /\ told = ts[t] /\ k = Len(told)
  OBVIOUS
<1>1. a \in Nat /\ b \in Int /\ m \in Nat /\ k \in Nat /\ told \in Seq(Int)
  BY LaidTypes
<1>2. b = a + k
  BY DEF Laid
<1>3. b <= m
  <2>1. Len(ts) \in Nat /\ off[Len(ts)] = m
    BY LaidTypes DEF Laid
  <2>2. t = Len(ts) \/ t < Len(ts)
    BY <2>1
  <2>3. t < Len(ts) => off[t] < off[Len(ts)]
    BY <2>1, TicksClimb
  <2> QED BY <1>1, <2>1, <2>2, <2>3
<1>4. \A i \in 1..m : a < i /\ i <= b => h[i].conviction = told[i - a]
  BY PlacesOfTick
<1> PICK A : A = Weak(h, a, b)
  OBVIOUS
<1> PICK B : B = {p \in DOMAIN told : told[p] <= 2}
  OBVIOUS
<1>5. DOMAIN told = 1..k
  BY <1>1
<1>6. A = {i \in 1..m : a < i /\ i <= b /\ told[i - a] <= 2}
  BY <1>4 DEF Weak
<1> PICK f : f = [p \in B |-> a + p]
  OBVIOUS
<1>7. \A p \in B : a + p \in A
  <2> TAKE p \in B
  <2>1. p \in 1..k /\ told[p] <= 2
    BY <1>5
  <2>2. a + p \in 1..m /\ a < a + p /\ a + p <= b /\ a + p - a = p
    BY ONLY <1>1, <1>2, <1>3, <2>1
  <2> PICK i : i = a + p
    OBVIOUS
  <2>5. i - a = p
    BY ONLY <1>1, <2>1, i = a + p
  <2>3. i \in 1..m /\ a < i /\ i <= b /\ told[i - a] <= 2
    BY ONLY <2>1, <2>2, <2>5, i = a + p
  <2>4. i \in A
    BY ONLY <1>6, <2>3
  <2> QED BY <2>4
<1>8. \A i \in A : i - a \in B /\ a + (i - a) = i
  <2> TAKE i \in A
  <2>1. i \in 1..m /\ a < i /\ i <= b /\ told[i - a] <= 2
    BY <1>6
  <2>2. i - a \in 1..k /\ a + (i - a) = i
    BY ONLY <1>1, <1>2, <2>1
  <2> QED BY <1>5, <2>1, <2>2
<1>9. f \in Bijection(B, A)
  <2>1. f \in [B -> A]
    BY <1>7
  <2>2. \A p \in B : \A q \in B : f[p] = f[q] => p = q
    BY <1>1, <1>5
  <2>3. \A i \in A : \E p \in B : f[p] = i
    <3> TAKE i \in A
    <3>1. i - a \in B /\ f[i - a] = i
      BY <1>8
    <3> QED BY <3>1
  <2> QED BY <2>1, <2>2, <2>3 DEF Bijection, Injection, Surjection, IsInjective
<1>10. IsFiniteSet(B)
  <2>1. IsFiniteSet(1..k)
    BY ONLY <1>1, FS_Interval
  <2> QED BY <1>5, <2>1, FS_Subset
<1>11. Cardinality(A) = Cardinality(B)
  BY <1>9, <1>10, FS_Bijection DEF ExistsBijection
<1> QED BY <1>11 DEF LowCount

(* The ticks after tick a add up to the entries behind its place.          *)
TailOf(recent, ts, a) ==
  /\ a \in 0..Len(ts) /\ recent \in Seq(Seq(Int)) /\ Len(recent) = Len(ts) - a
  /\ \A j \in 1..Len(recent) : recent[j] = ts[a + j]

(* Summed over the ticks after a, by induction on their number: all of     *)
(* their ideas, and the weak ones, are the entries after off[a].           *)
LEMMA TailAddsUp ==
  ASSUME NEW h, NEW ts, NEW off, Laid(h, ts, off), NEW a, NEW recent, TailOf(recent, ts, a)
  PROVE  /\ Total(recent) = Len(h) - off[a]
         /\ off[a] >= 0 =>
              SumFunction([j \in DOMAIN recent |-> LowCount(recent[j])]) = Cardinality(Weak(h, off[a], Len(h)))
<1> PICK n, m, k : n = Len(ts) /\ m = Len(h) /\ k = Len(recent)
  OBVIOUS
<1>1. /\ n \in Nat /\ m \in Nat /\ k = n - a /\ k \in Nat /\ a \in 0..n /\ a \in Nat
      /\ DOMAIN recent = 1..k
  BY LaidTypes DEF TailOf
<1>2. \A j \in 1..k : recent[j] = ts[a + j] /\ recent[j] \in Seq(Int)
  BY DEF TailOf
<1>3. \A t \in 0..n : off[t] \in Int
  BY LaidTypes
<1>4. \A j \in 1..k : a + j \in 1..n /\ a + j - 1 \in 0..n /\ a + j \in 0..n /\ a + j - 1 = a + (j - 1)
  BY ONLY <1>1
<1>5. \A t \in 1..n : off[t] = off[t - 1] + Len(ts[t])
  BY DEF Laid
<1>6. off[n] = m
  BY DEF Laid
<1>7. \A j \in 1..k : 1..j = (1..(j - 1)) \cup {j} /\ j \notin 1..(j - 1) /\ IsFiniteSet(1..(j - 1))
  <2> TAKE j \in 1..k
  <2>1. j \in Int /\ j - 1 \in Int
    OBVIOUS
  <2>2. IsFiniteSet(1..(j - 1))
    BY ONLY <2>1, FS_Interval
  <2>3. 1..j = (1..(j - 1)) \cup {j} /\ j \notin 1..(j - 1)
    BY ONLY j \in 1..k
  <2> QED BY <2>2, <2>3
<1> PICK f : f = [j \in DOMAIN recent |-> Len(recent[j])]
  OBVIOUS
<1>8. \A j \in 1..k : f[j] \in Int /\ off[a + j] = off[a + (j - 1)] + f[j]
  <2> TAKE j \in 1..k
  <2>1. f[j] = Len(ts[a + j]) /\ f[j] \in Int
    BY ONLY <1>1, <1>2, f = [i \in DOMAIN recent |-> Len(recent[i])], j \in 1..k
  <2> PICK t : t = a + j
    OBVIOUS
  <2>3. t \in 1..n /\ t - 1 = a + (j - 1)
    BY ONLY <1>1, t = a + j, j \in 1..k
  <2>2. off[t] = off[t - 1] + Len(ts[t])
    BY <1>5, <2>3
  <2> QED BY <2>1, <2>2, <2>3
<1>9. \A j \in 0..k : SumFunctionOnSet(f, 1..j) = off[a + j] - off[a]
  <2> DEFINE P == {j \in 0..k : SumFunctionOnSet(f, 1..j) = off[a + j] - off[a]}
  <2>1. 0 \in P
    <3>1. SumFunctionOnSet(f, {}) = 0
      BY SumUnfolds, FS_EmptySet
    <3>2. 1..0 = {} /\ a + 0 = a /\ off[a] - off[a] = 0
      BY <1>1, <1>3
    <3> QED BY <1>1, <3>1, <3>2
  <2>2. ASSUME NEW j \in 1..k, j - 1 \in P PROVE j \in P
    <3>1. SumFunctionOnSet(f, 1..j) = SumFunctionOnSet(f, 1..(j - 1)) + f[j]
      <4>1. \A i \in 1..(j - 1) : f[i] = f[i] /\ f[i] \in Int
        <5>1. \A i \in 1..(j - 1) : i \in 1..k
          OBVIOUS
        <5> QED BY <1>8, <5>1
      <4>2. f[j] \in Int
        BY <1>8
      <4> PICK S : S = 1..(j - 1)
        OBVIOUS
      <4>3. IsFiniteSet(S) /\ j \notin S /\ 1..j = S \cup {j} /\ \A i \in S : f[i] = f[i] /\ f[i] \in Int
        BY <1>7, <4>1
      <4>4. SumFunctionOnSet(f, S \cup {j}) = SumFunctionOnSet(f, S) + f[j]
        BY ONLY <4>2, <4>3, SumGrows
      <4> QED BY <4>3, <4>4
    <3>2. SumFunctionOnSet(f, 1..(j - 1)) = off[a + (j - 1)] - off[a]
      BY <2>2
    <3>3. off[a + j] = off[a + (j - 1)] + f[j] /\ f[j] \in Int
      BY <1>8
    <3>4. off[a + (j - 1)] \in Int /\ off[a] \in Int
      BY <1>1, <1>3, <1>4
    <3> QED BY <3>1, <3>2, <3>3, <3>4
  <2> HIDE DEF P
  <2>3. \A j \in 0..k : j \in P
    BY <1>1, <2>1, <2>2, Climbing
  <2> QED BY <2>3 DEF P
<1>10. Total(recent) = m - off[a]
  <2>1. SumFunctionOnSet(f, 1..k) = off[a + k] - off[a] /\ a + k = n
    BY <1>1, <1>9
  <2>2. Total(recent) = SumFunctionOnSet(f, 1..k)
    BY <1>1, SumOfAll DEF Total
  <2> QED BY <1>6, <2>1, <2>2
<1>11. ASSUME off[a] >= 0
       PROVE  SumFunction([j \in DOMAIN recent |-> LowCount(recent[j])]) = Cardinality(Weak(h, off[a], m))
  <2> PICK g : g = [j \in DOMAIN recent |-> LowCount(recent[j])]
    OBVIOUS
  <2>0. \A u \in 0..n : \A t \in 0..n : t < u => off[t] < off[u]
    BY TicksClimb
  <2>1. \A j \in 0..k : off[a + j] >= off[a] /\ off[a + j] \in Int
    <3> TAKE j \in 0..k
    <3>1. a + j \in 0..n /\ (a + j = a \/ a < a + j)
      BY ONLY <1>1, j \in 0..k
    <3> QED BY <1>1, <1>3, <2>0, <3>1
  <2>2. \A p, q : IsFiniteSet(Weak(h, p, q))
    <3>1. IsFiniteSet(1..m)
      BY <1>1, FS_Interval
    <3> QED BY <3>1, FS_Subset DEF Weak
  <2>3. \A j \in 1..k : g[j] = Cardinality(Weak(h, off[a + (j - 1)], off[a + j])) /\ g[j] \in Int
    <3> TAKE j \in 1..k
    <3>1. g[j] = LowCount(ts[a + j])
      BY <1>1, <1>2
    <3> PICK t : t = a + j
      OBVIOUS
    <3>2. j - 1 \in 0..k /\ t \in 1..n /\ t - 1 = a + (j - 1)
      BY <1>1, <1>4
    <3>6. off[a] \in Int /\ off[t - 1] \in Int /\ off[t - 1] >= off[a]
      BY <1>1, <1>3, <2>1, <3>2
    <3>3. off[t - 1] >= 0
      BY ONLY <1>11, <3>6
    <3>4. Cardinality(Weak(h, off[t - 1], off[t])) = LowCount(ts[t])
      BY <3>2, <3>3, WeakOfTick
    <3>5. Cardinality(Weak(h, off[a + (j - 1)], off[a + j])) \in Nat
      BY <2>2, FS_CardinalityType
    <3> QED BY <3>1, <3>2, <3>4, <3>5
  <2>4. \A j \in 1..k :
          /\ Weak(h, off[a], off[a + j]) = Weak(h, off[a], off[a + (j - 1)]) \cup Weak(h, off[a + (j - 1)], off[a + j])
          /\ Weak(h, off[a], off[a + (j - 1)]) \cap Weak(h, off[a + (j - 1)], off[a + j]) = {}
    <3> TAKE j \in 1..k
    <3> PICK p, q, r : p = off[a] /\ q = off[a + (j - 1)] /\ r = off[a + j]
      OBVIOUS
    <3>1. j - 1 \in 0..k /\ a + (j - 1) \in 0..n /\ a + j \in 0..n /\ a + (j - 1) < a + j
      BY <1>1
    <3>4. p \in Int /\ q \in Int /\ r \in Int
      BY <1>1, <1>3, <3>1
    <3>5. p <= q
      BY <2>1, <3>1
    <3>6. q < r
      BY <2>0, <3>1
    <3>2. p \in Int /\ q \in Int /\ r \in Int /\ p <= q /\ q <= r
      BY ONLY <3>4, <3>5, <3>6
    <3>3. \A i \in 1..m : /\ p < i /\ i <= r <=> (p < i /\ i <= q) \/ (q < i /\ i <= r)
                          /\ ~(p < i /\ i <= q /\ q < i /\ i <= r)
      BY ONLY <1>1, <3>2
    <3> QED BY <3>3 DEF Weak
  <2> DEFINE P == {j \in 0..k : SumFunctionOnSet(g, 1..j) = Cardinality(Weak(h, off[a], off[a + j]))}
  <2>5. 0 \in P
    <3>1. SumFunctionOnSet(g, {}) = 0
      BY SumUnfolds, FS_EmptySet
    <3>2. 1..0 = {} /\ a + 0 = a
      BY <1>1
    <3>3. Weak(h, off[a], off[a]) = {}
      BY <1>1, <1>3 DEF Weak
    <3>4. Cardinality(Weak(h, off[a], off[a + 0])) = 0
      BY <3>2, <3>3, FS_EmptySet
    <3> QED BY <1>1, <3>1, <3>2, <3>4
  <2>6. ASSUME NEW j \in 1..k, j - 1 \in P PROVE j \in P
    <3> PICK A, B, C : /\ A = Weak(h, off[a], off[a + (j - 1)]) /\ B = Weak(h, off[a + (j - 1)], off[a + j])
                       /\ C = Weak(h, off[a], off[a + j])
      OBVIOUS
    <3>1. SumFunctionOnSet(g, 1..j) = SumFunctionOnSet(g, 1..(j - 1)) + g[j]
      <4>1. \A i \in 1..(j - 1) : g[i] = g[i] /\ g[i] \in Int
        <5>1. \A i \in 1..(j - 1) : i \in 1..k
          OBVIOUS
        <5> QED BY <2>3, <5>1
      <4>2. g[j] \in Int
        BY <2>3
      <4> PICK S : S = 1..(j - 1)
        OBVIOUS
      <4>3. IsFiniteSet(S) /\ j \notin S /\ 1..j = S \cup {j} /\ \A i \in S : g[i] = g[i] /\ g[i] \in Int
        BY <1>7, <4>1
      <4>4. SumFunctionOnSet(g, S \cup {j}) = SumFunctionOnSet(g, S) + g[j]
        BY ONLY <4>2, <4>3, SumGrows
      <4> QED BY <4>3, <4>4
    <3>2. SumFunctionOnSet(g, 1..(j - 1)) = Cardinality(A)
      BY <2>6
    <3>3. g[j] = Cardinality(B)
      BY <2>3
    <3>4. C = A \cup B /\ A \cap B = {} /\ IsFiniteSet(A) /\ IsFiniteSet(B)
      BY <2>2, <2>4
    <3>5. Cardinality(A \cap B) = 0
      BY <3>4, FS_EmptySet
    <3>6. Cardinality(A \cup B) = Cardinality(A) + Cardinality(B) - Cardinality(A \cap B)
      BY <3>4, FS_Union
    <3>7. Cardinality(A) \in Nat /\ Cardinality(B) \in Nat
      BY <3>4, FS_CardinalityType
    <3>8. SumFunctionOnSet(g, 1..j) = Cardinality(C)
      BY <3>1, <3>2, <3>3, <3>4, <3>5, <3>6, <3>7
    <3> QED BY <3>8
  <2> HIDE DEF P
  <2>7. \A j \in 0..k : j \in P
    BY <1>1, <2>5, <2>6, Climbing
  <2>8. SumFunctionOnSet(g, 1..k) = Cardinality(Weak(h, off[a], off[a + k]))
    BY <1>1, <2>7 DEF P
  <2>9. SumFunction(g) = SumFunctionOnSet(g, 1..k)
    BY <1>1, SumOfAll
  <2>10. off[a + k] = m
    BY <1>1, <1>6
  <2> QED BY <2>8, <2>9, <2>10
<1> QED BY <1>10, <1>11

(* Of two ticks that are in the history the later has the later first      *)
(* entry.                                                                  *)
LEMMA FirstsAreOrdered ==
  ASSUME NEW h, NEW ts, NEW off, Laid(h, ts, off)
  PROVE  /\ TicksIn(h) \subseteq 1..Len(ts)
         /\ \A t \in TicksIn(h) : \A u \in TicksIn(h) : FirstAt(h, u) > FirstAt(h, t) <=> u > t
<1> PICK n, m : n = Len(ts) /\ m = Len(h)
  OBVIOUS
<1>1. n \in Nat /\ m \in Nat /\ \A t \in 0..n : off[t] \in Int
  BY LaidTypes
<1>2. DOMAIN h = 1..m
  <2>1. h \in Seq(Entry)
    BY DEF Laid
  <2> QED BY <2>1
<1>3. \A t \in TicksIn(h) : /\ t \in 1..n /\ FirstAt(h, t) \in 1..m
                            /\ off[t - 1] < FirstAt(h, t) /\ FirstAt(h, t) <= off[t]
  <2> TAKE t \in TicksIn(h)
  <2>1. PICK i \in 1..m : h[i].tick = t
    BY <1>2 DEF TicksIn
  <2>2. t \in 1..n
    <3>1. \A u \in 1..n : h[i].tick \in 1..n
      BY PlacesOfTick
    <3>2. \E u \in 1..n : TRUE
      BY DEF Laid
    <3> QED BY <2>1, <3>1, <3>2
  <2> PICK S : S = {j \in DOMAIN h : h[j].tick = t}
    OBVIOUS
  <2> PICK f : f = FirstAt(h, t)
    OBVIOUS
  <2>3. f \in S
    <3>1. S \in SUBSET Nat /\ S # {}
      BY <1>2, <2>1
    <3>2. f = Min(S)
      BY DEF FirstAt
    <3> QED BY ONLY <3>1, <3>2, MinIsIn
  <2>4. f \in 1..m /\ h[f].tick = t
    BY <1>2, <2>3
  <2>5. off[t - 1] < f /\ f <= off[t]
    BY <2>2, <2>4, PlacesOfTick
  <2> QED BY <2>2, <2>4, <2>5
<1>4. \A b \in 0..n : \A a \in 0..n : a < b => off[a] < off[b]
  BY TicksClimb
<1>5. ASSUME NEW t \in TicksIn(h), NEW u \in TicksIn(h), t < u PROVE FirstAt(h, t) < FirstAt(h, u)
  <2> PICK f, g : f = FirstAt(h, t) /\ g = FirstAt(h, u)
    OBVIOUS
  <2>1. /\ t \in 1..n /\ u \in 1..n /\ f \in 1..m /\ g \in 1..m /\ f <= off[t] /\ off[u - 1] < g
    BY <1>3
  <2>2. t \in 0..n /\ u - 1 \in 0..n /\ (t = u - 1 \/ t < u - 1)
    BY ONLY <1>1, <1>5, <2>1
  <2>3. off[t] \in Int /\ off[u - 1] \in Int /\ off[t] <= off[u - 1]
    BY ONLY <1>1, <1>4, <2>2
  <2>4. f < g
    BY ONLY <1>1, <2>1, <2>3
  <2> QED BY <2>4
<1>6. ASSUME NEW t \in TicksIn(h), NEW u \in TicksIn(h) PROVE FirstAt(h, u) > FirstAt(h, t) <=> u > t
  <2> PICK f, g : f = FirstAt(h, t) /\ g = FirstAt(h, u)
    OBVIOUS
  <2>1. t \in 1..n /\ u \in 1..n /\ f \in 1..m /\ g \in 1..m
    BY <1>3
  <2>2. t < u => f < g
    BY <1>5
  <2>3. u < t => g < f
    BY <1>5
  <2>4. t = u => f = g
    OBVIOUS
  <2>5. g > f <=> u > t
    BY ONLY <1>1, <2>1, <2>2, <2>3, <2>4
  <2> QED BY <2>5
<1> QED BY <1>3, <1>6

(* The ticks after one that ends in the history are all there.             *)
LEMMA LatestAreIn ==
  ASSUME NEW h, NEW ts, NEW off, Laid(h, ts, off), NEW a \in 0..Len(ts), off[a] >= 0
  PROVE  (a + 1)..Len(ts) \subseteq TicksIn(h)
<1> PICK n, m : n = Len(ts) /\ m = Len(h)
  OBVIOUS
<1>1. n \in Nat /\ m \in Nat /\ a \in 0..n /\ \A t \in 0..n : off[t] \in Int
  BY LaidTypes
<1>2. DOMAIN h = 1..m /\ off[n] = m
  <2>1. h \in Seq(Entry)
    BY DEF Laid
  <2> QED BY <2>1 DEF Laid
<1>3. \A b \in 0..n : \A c \in 0..n : c < b => off[c] < off[b]
  BY TicksClimb
<1>4. ASSUME NEW t \in (a + 1)..n PROVE t \in TicksIn(h)
  <2>1. t \in 0..n /\ t \in 1..n /\ t - 1 \in 0..n /\ a < t /\ t - 1 < t /\ (t = n \/ t < n) /\ n \in 0..n
    BY ONLY <1>1, t \in (a + 1)..n
  <2> PICK i : i = off[t]
    OBVIOUS
  <2>2. i \in Int /\ off[a] \in Int /\ off[a] < i /\ off[t - 1] < i
    BY <1>1, <1>3, <2>1
  <2>3. i <= m
    <3>1. i = off[n] \/ i < off[n]
      BY <1>3, <2>1
    <3> QED BY <1>1, <1>2, <2>2, <3>1
  <2>4. i \in 1..m
    <3>1. off[a] >= 0
      OBVIOUS
    <3> QED BY ONLY <1>1, <2>2, <2>3, <3>1
  <2>5. i <= off[t]
    BY <2>2
  <2>6. h[i].tick = t
    BY <2>1, <2>2, <2>4, <2>5, PlacesOfTick
  <2> QED BY <1>2, <2>4, <2>6 DEF TicksIn
<1> QED BY <1>4

(* The last Window ticks, if they are in the history as a whole.           *)
LEMMA WindowIs ==
  ASSUME NEW h, NEW ts, NEW off, Laid(h, ts, off), NEW a \in 0..Len(ts), Len(ts) - a = Window, off[a] >= 0
  PROVE  RecentTicks(h) = (a + 1)..Len(ts) /\ Cardinality(TicksIn(h)) >= Window
<1> PICK n, seen : n = Len(ts) /\ seen = TicksIn(h)
  OBVIOUS
<1>1. n \in Nat /\ a \in 0..n /\ n - a = Window /\ Window \in Nat \ {0}
  BY LaidTypes, WindowAssumption
<1>2. seen \subseteq 1..n /\ (a + 1)..n \subseteq seen
  BY FirstsAreOrdered, LatestAreIn
<1>3. IsFiniteSet(1..n) /\ IsFiniteSet(seen)
  <2>1. IsFiniteSet(1..n)
    BY ONLY <1>1, FS_Interval
  <2> QED BY <1>2, <2>1, FS_Subset
<1>4. \A t \in 1..n : Cardinality((t + 1)..n) = n - t /\ IsFiniteSet((t + 1)..n)
  <2> TAKE t \in 1..n
  <2>1. t + 1 \in Int /\ n \in Int
    BY <1>1
  <2>2. IsFiniteSet((t + 1)..n) /\ Cardinality((t + 1)..n) = IF t + 1 > n THEN 0 ELSE n - (t + 1) + 1
    BY ONLY <2>1, FS_Interval
  <2> QED BY <1>1, <2>2
<1>5. Cardinality((a + 1)..n) = Window
  <2>1. a + 1 \in Int /\ n \in Int
    BY <1>1
  <2>2. Cardinality((a + 1)..n) = IF a + 1 > n THEN 0 ELSE n - (a + 1) + 1
    BY ONLY <2>1, FS_Interval
  <2> QED BY ONLY <1>1, <2>2
<1>6. Cardinality(seen) >= Window
  <2>1. Cardinality((a + 1)..n) <= Cardinality(seen)
    BY <1>2, <1>3, FS_Subset
  <2>2. Cardinality(seen) \in Nat
    BY <1>3, FS_CardinalityType
  <2> QED BY <1>1, <1>5, <2>1, <2>2
<1>7. ASSUME NEW t \in seen
      PROVE  Cardinality({u \in seen : FirstAt(h, u) > FirstAt(h, t)}) < Window <=> t \in (a + 1)..n
  <2> PICK L : L = {u \in seen : u > t}
    OBVIOUS
  <2>1. {u \in seen : FirstAt(h, u) > FirstAt(h, t)} = L
    BY FirstsAreOrdered
  <2>2. t \in 1..n
    BY <1>2
  <2>3. CASE t \in (a + 1)..n
    <3>1. L \subseteq (t + 1)..n
      BY <1>1, <1>2, <2>2
    <3>2. Cardinality(L) <= n - t /\ IsFiniteSet(L)
      BY <1>4, <2>2, <3>1, FS_Subset
    <3>3. Cardinality(L) \in Nat
      BY <3>2, FS_CardinalityType
    <3>4. Cardinality(L) < Window
      BY ONLY <1>1, <2>2, <2>3, <3>2, <3>3
    <3> QED BY <2>1, <2>3, <3>4
  <2>4. CASE t \notin (a + 1)..n
    <3>1. (a + 1)..n \subseteq L
      BY <1>1, <1>2, <2>2, <2>4
    <3>2. IsFiniteSet(L)
      BY <1>3, FS_Subset
    <3>3. Cardinality(L) \in Nat /\ Window <= Cardinality(L)
      BY <1>5, <3>1, <3>2, FS_Subset, FS_CardinalityType
    <3>4. ~(Cardinality(L) < Window)
      BY ONLY <1>1, <3>3
    <3> QED BY <2>1, <2>4, <3>4
  <2> QED BY <2>3, <2>4
<1>8. RecentTicks(h) = (a + 1)..n
  BY <1>2, <1>7 DEF RecentTicks
<1> QED BY <1>6, <1>8

(* The last ticks of the window, which are the tail after some a.          *)
LastOf(ts) == SubSeq(ts, IF Len(ts) > Window THEN Len(ts) - Window + 1 ELSE 1, Len(ts))

LEMMA LastIsTail ==
  ASSUME NEW ts \in Seq(Seq(Int) \ {<<>>})
  PROVE  TailOf(LastOf(ts), ts, IF Len(ts) > Window THEN Len(ts) - Window ELSE 0)
<1> PICK n : n = Len(ts)
  OBVIOUS
<1> PICK a : a = IF n > Window THEN n - Window ELSE 0
  OBVIOUS
<1>1. n \in Nat /\ Window \in Nat \ {0}
  BY WindowAssumption
<1>2. a \in 0..n /\ (IF n > Window THEN n - Window + 1 ELSE 1) = a + 1
  BY ONLY <1>1, a = IF n > Window THEN n - Window ELSE 0
<1> PICK recent : recent = SubSeq(ts, a + 1, n)
  OBVIOUS
<1>3. \A i \in (a + 1)..n : ts[i] \in Seq(Int)
  <2>1. \A i \in 1..n : ts[i] \in Seq(Int)
    OBVIOUS
  <2> QED BY ONLY <1>1, <1>2, <2>1
<1>4. /\ recent \in Seq(Seq(Int)) /\ Len(recent) = (IF a + 1 <= n THEN n - (a + 1) + 1 ELSE 0)
      /\ \A i \in 1..(n - (a + 1) + 1) : recent[i] = ts[a + 1 + i - 1]
  BY ONLY <1>1, <1>2, <1>3, recent = SubSeq(ts, a + 1, n), SubSeqProperties
<1>5. n - (a + 1) + 1 = n - a /\ \A i \in 1..(n - a) : a + 1 + i - 1 = a + i
  BY ONLY <1>1, <1>2
<1>6. Len(recent) = n - a /\ \A i \in 1..(n - a) : recent[i] = ts[a + i]
  <2>1. Len(recent) = n - a
    BY ONLY <1>1, <1>2, <1>4
  <2>2. ASSUME NEW i \in 1..(n - a) PROVE recent[i] = ts[a + i]
    BY ONLY <1>4, <1>5, i \in 1..(n - a)
  <2> QED BY <2>1, <2>2
<1>7. LastOf(ts) = recent
  BY <1>2 DEF LastOf
<1>8. TailOf(recent, ts, a)
  BY <1>2, <1>4, <1>6 DEF TailOf
<1> QED BY <1>7, <1>8

(* The chop score of a history is that of the ticks it remembers, if the   *)
(* history has room for the window.                                        *)
LEMMA ChopTells ==
  ASSUME NEW h, NEW ts, Remembers(h, ts), Total(LastOf(ts)) <= Cap
  PROVE  Chop(h) = ChopOf(LastOf(ts))
<1> PICK off : Laid(h, ts, off)
  BY DEF Remembers
<1> PICK n, m, recent : n = Len(ts) /\ m = Len(h) /\ recent = LastOf(ts)
  OBVIOUS
<1> PICK a : a = IF n > Window THEN n - Window ELSE 0
  OBVIOUS
<1>1. n \in Nat /\ m \in Nat /\ (\A t \in 0..n : off[t] \in Int) /\ Window \in Nat \ {0} /\ Cap \in Nat
  BY LaidTypes, WindowAssumption
<1>2. a \in 0..n /\ (n >= Window => n - a = Window) /\ (n < Window => a = 0)
  BY ONLY <1>1, a = IF n > Window THEN n - Window ELSE 0
<1>3. TailOf(recent, ts, a) /\ Len(recent) = n - a
  <2>1. ts \in Seq(Seq(Int) \ {<<>>})
    BY DEF Laid
  <2> QED BY <2>1, LastIsTail DEF TailOf
<1>4. CASE n < Window
  <2>1. TicksIn(h) \subseteq 1..n
    BY FirstsAreOrdered
  <2>2. IsFiniteSet(1..n) /\ Cardinality(1..n) = n
    <3>1. IsFiniteSet(1..n) /\ Cardinality(1..n) = IF 1 > n THEN 0 ELSE n - 1 + 1
      BY ONLY <1>1, FS_Interval
    <3> QED BY <1>1, <3>1
  <2>3. IsFiniteSet(TicksIn(h)) /\ Cardinality(TicksIn(h)) <= n
    BY <2>1, <2>2, FS_Subset
  <2>4. Cardinality(TicksIn(h)) \in Nat
    BY <2>3, FS_CardinalityType
  <2>5. Cardinality(TicksIn(h)) < Window
    BY ONLY <1>1, <1>4, <2>3, <2>4
  <2>6. Chop(h) = NoChop
    BY <2>5 DEF Chop
  <2>7. Len(recent) < Window
    BY ONLY <1>1, <1>2, <1>3, <1>4
  <2> QED BY <2>6, <2>7 DEF ChopOf
<1>5. CASE n >= Window
  <2>1. Total(recent) = m - off[a]
    <3>1. Laid(h, ts, off) /\ TailOf(recent, ts, a)
      BY <1>3
    <3>2. Total(recent) = Len(h) - off[a]
      BY ONLY <3>1, TailAddsUp
    <3> QED BY <3>2
  <2>2. off[a] >= 0
    <3>1. off[0] = 0 \/ m = Cap
      BY DEF Laid
    <3>2. CASE off[0] = 0
      <4>1. \A b \in 0..n : \A c \in 0..n : c < b => off[c] < off[b]
        BY TicksClimb
      <4>2. a = 0 \/ off[0] < off[a]
        BY <1>1, <1>2, <4>1
      <4> QED BY <1>1, <1>2, <3>2, <4>2
    <3>3. CASE m = Cap
      <4>1. Total(recent) <= Cap
        OBVIOUS
      <4> QED BY <1>1, <1>2, <2>1, <3>3, <4>1
    <3> QED BY <3>1, <3>2, <3>3
  <2>3. RecentTicks(h) = (a + 1)..n /\ Cardinality(TicksIn(h)) >= Window
    BY <1>2, <1>5, <2>2, WindowIs
  <2>4. DOMAIN h = 1..m
    <3>1. h \in Seq(Entry)
      BY DEF Laid
    <3> QED BY <3>1
  <2>5. \A i \in 1..m : h[i].tick \in (a + 1)..n <=> off[a] < i
    <3> TAKE i \in 1..m
    <3>1. PICK t \in 1..n : off[t - 1] < i /\ i <= off[t] /\ h[i].tick = t
      <4>1. \E t \in 1..n : /\ off[t - 1] < i /\ i <= off[t]
                            /\ h[i] = [tick |-> t, conviction |-> ts[t][i - off[t - 1]]]
        BY DEF Laid
      <4> QED BY <4>1
    <3>2. \A b \in 0..n : \A c \in 0..n : c < b => off[c] < off[b]
      BY TicksClimb
    <3>3. t \in 0..n /\ t - 1 \in 0..n
      BY <1>1
    <3>4. off[t] \in Int /\ off[t - 1] \in Int /\ off[a] \in Int
      BY <1>1, <1>2, <3>3
    <3>5. ASSUME a < t PROVE off[a] < i
      <4>1. a = t - 1 \/ a < t - 1
        BY <1>1, <1>2, <3>5
      <4>2. off[a] <= off[t - 1]
        BY ONLY <1>2, <3>2, <3>3, <3>4, <4>1
      <4> QED BY <3>1, <3>4, <4>2
    <3>6. ASSUME ~(a < t) PROVE ~(off[a] < i)
      <4>1. a = t \/ t < a
        BY <1>1, <1>2, <3>6
      <4>2. off[t] <= off[a]
        BY ONLY <1>2, <3>2, <3>3, <3>4, <4>1
      <4> QED BY <3>1, <3>4, <4>2
    <3>7. t \in (a + 1)..n <=> a < t
      BY <1>1, <1>2
    <3> QED BY <3>1, <3>5, <3>6, <3>7
  <2> PICK late : late = {i \in DOMAIN h : h[i].tick \in RecentTicks(h)}
    OBVIOUS
  <2>6. late = {i \in 1..m : off[a] < i}
    BY <2>3, <2>4, <2>5
  <2>7. Cardinality(late) = m - off[a]
    <3>1. off[a] \in Nat /\ off[a] <= m
      <4>1. \A b \in 0..n : \A c \in 0..n : c < b => off[c] < off[b]
        BY TicksClimb
      <4>3. off[n] = m
        BY DEF Laid
      <4>4. n \in 0..n /\ (a = n \/ a < n)
        BY ONLY <1>1, <1>2
      <4>2. off[n] = m /\ (a = n \/ off[a] < off[n])
        BY ONLY <1>2, <4>1, <4>3, <4>4
      <4> QED BY <1>1, <1>2, <2>2, <4>2
    <3> PICK o : o = off[a] + 1
      OBVIOUS
    <3>2. late = o..m /\ o \in Int /\ m \in Int
      BY <1>1, <2>6, <3>1
    <3>3. Cardinality(o..m) = IF o > m THEN 0 ELSE m - o + 1
      BY ONLY <3>2, FS_Interval
    <3>4. (IF o > m THEN 0 ELSE m - o + 1) = m - off[a]
      BY ONLY <1>1, <3>1, o = off[a] + 1
    <3> QED BY <3>2, <3>3, <3>4
  <2>8. {i \in late : h[i].conviction <= 2} = Weak(h, off[a], m)
    BY <1>1, <2>6 DEF Weak
  <2>9. SumFunction([j \in DOMAIN recent |-> LowCount(recent[j])]) = Cardinality(Weak(h, off[a], m))
    BY <1>3, <2>2, TailAddsUp
  <2>10. Chop(h) = [low |-> Cardinality(Weak(h, off[a], m)), count |-> m - off[a]]
    <3>1. Cardinality(TicksIn(h)) \in Nat
      <4>1. TicksIn(h) \subseteq 1..n /\ IsFiniteSet(1..n)
        BY <1>1, FirstsAreOrdered, FS_Interval
      <4> QED BY <4>1, FS_Subset, FS_CardinalityType
    <3>2. ~(Cardinality(TicksIn(h)) < Window)
      BY ONLY <1>1, <2>3, <3>1
    <3> QED BY <2>7, <2>8, <3>2 DEF Chop
  <2>11. ChopOf(recent) = [low |-> SumFunction([j \in DOMAIN recent |-> LowCount(recent[j])]), count |-> Total(recent)]
    <3>1. ~(Len(recent) < Window)
      BY ONLY <1>1, <1>2, <1>3, <1>5
    <3> QED BY <3>1 DEF ChopOf
  <2>12. Chop(h) = ChopOf(recent)
    BY ONLY <2>1, <2>9, <2>10, <2>11
  <2> QED BY <2>12
<1> QED BY <1>1, <1>4, <1>5

(* The ideas of a bug-scan are what the strategies may propose.            *)
LEMMA IdeasAreGood ==
  ASSUME BatchInv, NEW x, Warranted(x, session), x.line.skill = "bug-scan"
  PROVE  CollectIdeas(x.cells) \in Seq(Good(Floor))
<1> PICK line, market, reg, cells : line = x.line /\ market = x.market /\ reg = x.registry /\ cells = x.cells
  OBVIOUS
<1> PICK found : found = Scanned(line, market, reg)
  OBVIOUS
<1>1. cells = <<>> \/ cells = found
  BY DEF Warranted, OfBugScan
<1>2. /\ IsMarket(market) /\ \A t \in DOMAIN market : Range(line.frames) \subseteq DOMAIN market[t]
      /\ line.frames \in Seq(Range(line.frames)) /\ line.argv \in Seq(Range(line.argv))
  BY OfTheSession DEF IsLine
<1> PICK tickers : tickers = Positional(AxiStripped(line.argv))
  OBVIOUS
<1>3. tickers \in Seq(Range(tickers))
  BY <1>2, StrippedIs, PositionalIs
<1> PICK class, strategies : class = Classless(tickers) /\ strategies = StrategiesIn(line)
  OBVIOUS
<1>4. found = Cells(market, tickers, line.frames, class, TRUE, strategies)
  <2>1. TickersIn(line, market, reg) = tickers
    BY DEF TickersIn
  <2>2. SkillsIn(line) = TRUE
    BY DEF SkillsIn, Unclassed
  <2> QED BY <2>1, <2>2 DEF Scanned, Unclassed, Basketed
<1>5. strategies \in SUBSET Strategy
  BY DEF StrategiesIn
<1>6. Floor \in Nat
  BY SessionsAssumption
<1>7. IsMarket(market)
  BY <1>2
<1>8. \A t \in DOMAIN market : Range(line.frames) \subseteq DOMAIN market[t]
  BY <1>2
<1>9. line.frames \in Seq(Range(line.frames))
  BY <1>2
<1>10. \A c \in ToSet(found) : \A k \in DOMAIN c.strategies : c.strategies[k] \in Seq(Good(Floor))
  <2> TAKE c \in ToSet(found)
  <2> TAKE k \in DOMAIN c.strategies
  <2>1. FoundIn(market, tickers, line.frames, class, strategies, c, k)
    BY ONLY <1>3, <1>4, <1>5, <1>6, <1>7, <1>8, <1>9, CellsAreGood, c \in ToSet(found), k \in DOMAIN c.strategies
  <2> QED BY <2>1 DEF FoundIn
<1>11. found \in Seq(ToSet(found))
  BY ONLY <1>3, <1>4, <1>9, CellsAre
<1> DEFINE Inner(c) == [i \in DOMAIN Registered |->
                         IF Registered[i] \in DOMAIN c.strategies THEN c.strategies[Registered[i]] ELSE <<>>]
<1>12. \A c \in ToSet(found) : FlattenSeq(Inner(c)) \in Seq(Good(Floor))
  <2> TAKE c \in ToSet(found)
  <2>1. DOMAIN Registered = 1..7
    BY DEF Registered
  <2>2. \A i \in 1..7 : (IF Registered[i] \in DOMAIN c.strategies THEN c.strategies[Registered[i]] ELSE <<>>)
                          \in Seq(Good(Floor))
    <3>1. <<>> \in Seq(Good(Floor))
      OBVIOUS
    <3> QED BY <1>10, <3>1
  <2>3. Inner(c) \in [1..7 -> Seq(Good(Floor))]
    BY <2>1, <2>2
  <2> HIDE DEF Inner
  <2>4. Inner(c) \in Seq(Seq(Good(Floor)))
    BY <2>3, ListsAreSequences
  <2> QED BY <2>4, FlattenElems
<1> DEFINE Outer(s) == [n \in DOMAIN s |-> FlattenSeq(Inner(s[n]))]
<1>13. CollectIdeas(cells) = FlattenSeq(Outer(cells))
  BY DEF CollectIdeas
<1>14. Outer(cells) \in Seq(Seq(Good(Floor)))
  <2>1. CASE cells = <<>>
    BY <2>1
  <2>2. CASE cells = found
    <3>1. DOMAIN found = 1..Len(found) /\ Len(found) \in Nat /\ \A n \in 1..Len(found) : found[n] \in ToSet(found)
      BY <1>11
    <3> HIDE DEF Inner
    <3>2. Outer(found) \in [1..Len(found) -> Seq(Good(Floor))]
      BY <1>12, <3>1
    <3> HIDE DEF Outer
    <3> QED BY <2>2, <3>1, <3>2, ListsAreSequences
  <2> QED BY <1>1, <2>1, <2>2
<1> HIDE DEF Outer
<1> QED BY <1>13, <1>14, FlattenElems

-----------------------------------------------------------------------------
(* The chop score *)

(* No history is mistaken for a file that is empty or does not parse.      *)
DamageIsNoHistory == \A h \in Seq(Entry) : h \notin {Blank, Garbled}

(* A score is that of the ticks it was taken over.                         *)
Told(x) == x.recent # <<>> /\ Total(x.recent) <= Cap => x.chop = ChopOf(x.recent)

(* Runs that update the history do it for ideas they had.                  *)
Updates ==
  \A r \in Runners : runner[r].stage \in {"load", "open", "write"} =>
    runner[r].result.line.skill = "bug-scan" /\ CollectIdeas(runner[r].result.cells) # <<>>

(* Until updates overlap, or one is killed, one run at most is between its *)
(* reading and its writing, what it has read or, between updates, the file *)
(* remembers all ticks, and every score tells of them.                     *)
Exclusive == \A r \in Runners : \A q \in Runners :
  runner[r].stage \in {"open", "write"} /\ runner[q].stage \in {"open", "write"} => r = q
Held == \A r \in Runners :
  /\ runner[r].stage \in {"open", "write"} => Remembers(runner[r].loaded, ticks)
  /\ runner[r].stage = "write" => history = Blank
Filed == (\A r \in Runners : runner[r].stage # "write") => Remembers(Parsed, ticks)
AllTold ==
  /\ \A r \in Runners : runner[r].stage # "idle" => Told(runner[r].result)
  /\ \A r \in Runners : printout[r] # NoReport => Told(printout[r])

HistoryInv == Updates /\ (~smudged => Exclusive /\ Held /\ Filed /\ AllTold)

(* A step of r leaves the other processes alone.                           *)
Becomes(r, stage, result, loaded) ==
  /\ \A q \in Runners : q # r => runner'[q] = runner[q]
  /\ runner'[r].stage = stage /\ runner'[r].result = result /\ runner'[r].loaded = loaded

(* A step that only moves a runner on, one that loads, one that scores.    *)
LEMMA StageBecomes ==
  ASSUME Shaped, NEW r \in Runners, NEW stage, runner' = [runner EXCEPT ![r].stage = stage]
  PROVE  Becomes(r, stage, runner[r].result, runner[r].loaded)
<1>1. /\ runner[r] = [stage |-> runner[r].stage, result |-> runner[r].result, loaded |-> runner[r].loaded]
      /\ runner = [q \in Runners |-> runner[q]]
  BY DEF Shaped
<1>2. \A q \in Runners : q # r => runner'[q] = runner[q]
  BY <1>1
<1>3. runner'[r] = [stage |-> stage, result |-> runner[r].result, loaded |-> runner[r].loaded]
  BY <1>1
<1> QED BY <1>2, <1>3 DEF Becomes

LEMMA LoadBecomes ==
  ASSUME Shaped, NEW r \in Runners, LoadHistory(r)
  PROVE  Becomes(r, "open", runner[r].result, Parsed)
<1>1. runner' = [runner EXCEPT ![r].stage = "open", ![r].loaded = Parsed]
  BY DEF LoadHistory
<1> DEFINE begun == [runner EXCEPT ![r].stage = "open"]
<1>2. /\ begun = [q \in Runners |-> begun[q]]
      /\ \A q \in Runners : q # r => begun[q] = runner[q]
      /\ begun[r] = [stage |-> "open", result |-> runner[r].result, loaded |-> runner[r].loaded]
  BY DEF Shaped
<1>3. runner' = [begun EXCEPT ![r].loaded = Parsed]
  BY <1>1
<1> HIDE DEF begun
<1>4. /\ \A q \in Runners : q # r => runner'[q] = runner[q]
      /\ runner'[r] = [stage |-> "open", result |-> runner[r].result, loaded |-> Parsed]
  BY <1>2, <1>3
<1> QED BY <1>4 DEF Becomes

LEMMA ReadBecomes ==
  ASSUME Shaped, NEW r \in Runners, ReadHistory(r), Kept \subseteq DOMAIN runner[r].result
  PROVE  \E result : /\ Becomes(r, AfterScan(runner[r].result), result, runner[r].loaded)
                     /\ result.chop = Chop(Parsed) /\ result.recent = LastOf(ticks)
<1> PICK old, stage, chop, recent :
      /\ old = runner[r].result /\ stage = AfterScan(runner[r].result)
      /\ chop = Chop(Parsed) /\ recent = LastTicks
  OBVIOUS
<1>1. runner' = [runner EXCEPT ![r].stage = stage, ![r].result.chop = chop, ![r].result.recent = recent]
  BY DEF ReadHistory
<1> DEFINE staged == [runner EXCEPT ![r].stage = stage]
           scored == [staged EXCEPT ![r].result.chop = chop]
<1>2. /\ staged = [q \in Runners |-> staged[q]]
      /\ \A q \in Runners : q # r => staged[q] = runner[q]
      /\ staged[r] = [stage |-> stage, result |-> runner[r].result, loaded |-> runner[r].loaded]
  BY DEF Shaped
<1>3. runner' = [scored EXCEPT ![r].result.recent = recent]
  BY <1>1
<1> HIDE DEF staged
<1>4. /\ scored = [q \in Runners |-> scored[q]]
      /\ \A q \in Runners : q # r => scored[q] = runner[q]
      /\ scored[r] = [stage |-> stage, result |-> [runner[r].result EXCEPT !.chop = chop], loaded |-> runner[r].loaded]
  BY <1>2
<1> HIDE DEF scored
<1>5. PICK result : result = [scored[r].result EXCEPT !.recent = recent]
  OBVIOUS
<1>6. /\ \A q \in Runners : q # r => runner'[q] = runner[q]
      /\ runner'[r] = [stage |-> stage, result |-> result, loaded |-> runner[r].loaded]
  <2>1. runner' = [scored EXCEPT ![r] = [scored[r] EXCEPT !.result = result]]
    BY <1>3, <1>5
  <2>2. runner'[r] = [scored[r] EXCEPT !.result = result]
    BY <2>1, <1>4
  <2> QED BY <2>1, <2>2, <1>4
<1>7. result.chop = chop /\ result.recent = recent
  <2>1. scored[r].result = [old EXCEPT !.chop = chop]
    BY <1>4
  <2>2. result = [[old EXCEPT !.chop = chop] EXCEPT !.recent = recent]
    BY <1>5, <2>1
  <2>3. {"chop", "recent"} \subseteq DOMAIN old
    BY DEF Kept
  <2> QED BY ONLY <2>2, <2>3
<1>8. Becomes(r, stage, result, runner[r].loaded)
  BY <1>6 DEF Becomes
<1>9. recent = LastOf(ticks)
  BY DEF LastTicks, LastOf
<1> QED BY <1>7, <1>8, <1>9

(* A run that has not asked for the score says nothing of it.              *)
LEMMA LaunchBecomes ==
  ASSUME Shaped, NEW r \in Runners, Launch(r)
  PROVE  \E result : /\ Becomes(r, FirstStage(result), result, <<>>)
                     /\ Told(result) /\ FirstStage(result) \notin {"open", "write"}
                     /\ FirstStage(result) = "load" =>
                          result.line.skill = "bug-scan" /\ CollectIdeas(result.cells) # <<>>
<1>1. PICK line, market, reg, found, result :
        /\ result = Run(line, market, reg, found)
        /\ runner' = [runner EXCEPT ![r] = [stage |-> FirstStage(result), result |-> result, loaded |-> <<>>]]
  BY DEF Launch
<1>2. result.recent = <<>>
  BY <1>1 DEF Run, BugScan, RunWatchlist, ConvictionScan, Ask, RunAll, Outcome, Home
<1>3. Becomes(r, FirstStage(result), result, <<>>)
  BY <1>1 DEF Shaped, Becomes
<1>4. /\ FirstStage(result) \notin {"open", "write"}
      /\ FirstStage(result) = "load" => result.line.skill = "bug-scan" /\ CollectIdeas(result.cells) # <<>>
  BY DEF FirstStage, AfterScan
<1> QED BY <1>2, <1>3, <1>4 DEF Told

(* At first nothing is remembered, and nothing is to be.                   *)
LEMMA HistoryBegins == ScanInit => HistoryInv
<1> SUFFICES ASSUME ScanInit PROVE HistoryInv
  OBVIOUS
<1>1. PICK s \in Sessions :
        /\ runner = [r \in Runners |-> Resting] /\ printout = [r \in Runners |-> NoReport]
        /\ history = s.history /\ ticks = <<>>
  BY DEF ScanInit
<1>2. \A r \in Runners : runner[r].stage = "idle" /\ printout[r] = NoReport
  BY <1>1 DEF Resting
<1>3. Parsed = <<>>
  BY <1>1, SessionsAssumption DEF Parsed
<1>4. Remembers(<<>>, <<>>)
  <2> PICK off : off = [t \in 0..0 |-> 0]
    OBVIOUS
  <2>1. /\ off \in [0..0 -> Int] /\ off[0] = 0
    OBVIOUS
  <2>2. 0 <= Cap
    BY WindowAssumption
  <2>3. Laid(<<>>, <<>>, off)
    BY <2>1, <2>2 DEF Laid
  <2> QED BY <2>3 DEF Remembers
<1>5. Updates /\ Exclusive /\ Held /\ AllTold
  BY <1>2 DEF Updates, Exclusive, Held, AllTold
<1>6. Filed
  BY <1>1, <1>3, <1>4 DEF Filed
<1> QED BY <1>5, <1>6 DEF HistoryInv

(* What changes neither the stages of the others nor the file leaves the   *)
(* history to those who update it.                                         *)
LEMMA OthersKeepHistory ==
  ASSUME HistoryInv, NEW r \in Runners, NEW stage, NEW result, NEW loaded,
         Becomes(r, stage, result, loaded), UNCHANGED <<history, ticks>>, ~smudged' => ~smudged,
         runner[r].stage # "write" \/ smudged', stage \notin {"open", "write"},
         stage = "load" => result.line.skill = "bug-scan" /\ CollectIdeas(result.cells) # <<>>,
         ~smudged' /\ stage # "idle" => Told(result),
         ~smudged' => \A q \in Runners : printout'[q] # NoReport => Told(printout'[q])
  PROVE  HistoryInv'
<1>1. /\ \A q \in Runners : q # r => runner'[q] = runner[q]
      /\ runner'[r].stage = stage /\ runner'[r].result = result
  BY DEF Becomes
<1>2. Updates'
  BY <1>1 DEF HistoryInv, Updates
<1>3. ASSUME ~smudged' PROVE Exclusive' /\ Held' /\ Filed' /\ AllTold'
  <2>0. Exclusive /\ Held /\ Filed /\ AllTold /\ runner[r].stage # "write"
    BY <1>3 DEF HistoryInv
  <2>1. Exclusive'
    BY <1>1, <2>0 DEF Exclusive
  <2>2. Held'
    BY <1>1, <2>0 DEF Held
  <2>3. Filed'
    <3>1. Parsed' = Parsed
      BY DEF Parsed
    <3> QED BY <1>1, <2>0, <3>1 DEF Filed
  <2>4. AllTold'
    BY <1>1, <1>3, <2>0 DEF AllTold
  <2> QED BY <2>1, <2>2, <2>3, <2>4
<1> QED BY <1>2, <1>3 DEF HistoryInv

(* Reading what is to be updated: no other run is between.                 *)
LEMMA LoadKeepsHistory ==
  ASSUME BatchInv, HistoryInv, NEW r \in Runners, LoadHistory(r) PROVE HistoryInv'
<1>1. Becomes(r, "open", runner[r].result, Parsed)
  BY LoadBecomes DEF BatchInv
<1>2. /\ runner[r].stage = "load" /\ smudged' = (smudged \/ Busy({"open", "write"}, r))
      /\ UNCHANGED <<history, ticks, printout>>
  BY DEF LoadHistory
<1>3. /\ \A q \in Runners : q # r => runner'[q] = runner[q]
      /\ runner'[r].stage = "open" /\ runner'[r].result = runner[r].result /\ runner'[r].loaded = Parsed
  BY <1>1 DEF Becomes
<1>4. Updates'
  BY <1>2, <1>3 DEF HistoryInv, Updates
<1>5. ASSUME ~smudged' PROVE Exclusive' /\ Held' /\ Filed' /\ AllTold'
  <2>0. Exclusive /\ Held /\ Filed /\ AllTold
    BY <1>2, <1>5 DEF HistoryInv
  <2>1. \A q \in Runners : runner[q].stage \notin {"open", "write"}
    BY <1>2, <1>5 DEF Busy
  <2>2. Parsed' = Parsed
    BY <1>2 DEF Parsed
  <2>3. Remembers(Parsed, ticks)
    BY <2>0, <2>1 DEF Filed
  <2>4. Exclusive'
    BY <1>3, <2>1 DEF Exclusive
  <2>5. Held'
    BY <1>2, <1>3, <2>1, <2>3 DEF Held
  <2>6. Filed'
    BY <1>2, <2>2, <2>3 DEF Filed
  <2>7. AllTold'
    BY <1>2, <1>3, <2>0 DEF AllTold
  <2> QED BY <2>4, <2>5, <2>6, <2>7
<1> QED BY <1>4, <1>5 DEF HistoryInv

(* Truncating the file: what it held is in the hands of the run.           *)
LEMMA OpenKeepsHistory ==
  ASSUME BatchInv, HistoryInv, NEW r \in Runners, OpenHistory(r) PROVE HistoryInv'
<1>1. Becomes(r, "write", runner[r].result, runner[r].loaded)
  BY StageBecomes DEF BatchInv, OpenHistory
<1>2. /\ runner[r].stage = "open" /\ smudged' = smudged /\ history' = Blank /\ UNCHANGED <<ticks, printout>>
  BY DEF OpenHistory
<1>3. /\ \A q \in Runners : q # r => runner'[q] = runner[q]
      /\ runner'[r].stage = "write" /\ runner'[r].result = runner[r].result /\ runner'[r].loaded = runner[r].loaded
  BY <1>1 DEF Becomes
<1>4. Updates'
  BY <1>2, <1>3 DEF HistoryInv, Updates
<1>5. ASSUME ~smudged' PROVE Exclusive' /\ Held' /\ Filed' /\ AllTold'
  <2>0. Exclusive /\ Held /\ AllTold
    BY <1>2, <1>5 DEF HistoryInv
  <2>1. Exclusive'
    BY <1>2, <1>3, <2>0 DEF Exclusive
  <2>2. Held'
    BY <1>2, <1>3, <2>0 DEF Held
  <2>3. Filed'
    BY <1>3 DEF Filed
  <2>4. AllTold'
    BY <1>2, <1>3, <2>0 DEF AllTold
  <2> QED BY <2>1, <2>2, <2>3, <2>4
<1> QED BY <1>4, <1>5 DEF HistoryInv

(* Writing it: the file remembers one tick more.                           *)
LEMMA WriteKeepsHistory ==
  ASSUME DamageIsNoHistory, BatchInv, HistoryInv, NEW r \in Runners, WriteHistory(r) PROVE HistoryInv'
<1>1. Becomes(r, "read", runner[r].result, runner[r].loaded)
  BY StageBecomes DEF BatchInv, WriteHistory
<1> PICK ideas : ideas = CollectIdeas(runner[r].result.cells)
  OBVIOUS
<1> PICK told : told = [i \in DOMAIN ideas |-> ideas[i].conviction]
  OBVIOUS
<1> PICK whole : whole = Appended(runner[r].loaded, Len(ticks) + 1, ideas)
  OBVIOUS
<1>2. /\ runner[r].stage = "write" /\ smudged' = smudged /\ printout' = printout /\ ticks' = Append(ticks, told)
      /\ history' \in {whole} \cup (IF history = Blank THEN {} ELSE {Garbled})
  BY DEF WriteHistory
<1>3. /\ \A q \in Runners : q # r => runner'[q] = runner[q]
      /\ runner'[r].stage = "read" /\ runner'[r].result = runner[r].result
  BY <1>1 DEF Becomes
<1>4. Updates'
  BY <1>3 DEF HistoryInv, Updates
<1>5. ASSUME ~smudged' PROVE Exclusive' /\ Held' /\ Filed' /\ AllTold'
  <2>0. Exclusive /\ Held /\ AllTold
    BY <1>2, <1>5 DEF HistoryInv
  <2>1. \A q \in Runners : runner'[q].stage \notin {"open", "write"}
    BY <1>2, <1>3, <2>0 DEF Exclusive
  <2>2. Exclusive' /\ Held'
    BY <2>1 DEF Exclusive, Held
  <2>3. AllTold'
    BY <1>2, <1>3, <2>0 DEF AllTold
  <2>4. Remembers(whole, ticks')
    <3>1. Remembers(runner[r].loaded, ticks)
      BY <1>2, <2>0 DEF Held
    <3>2. ideas \in Seq(Good(Floor)) /\ ideas # <<>>
      <4>1. Warranted(runner[r].result, session) /\ runner[r].result.line.skill = "bug-scan"
        BY <1>2 DEF BatchInv, HistoryInv, Updates
      <4>2. ideas # <<>>
        BY <1>2 DEF HistoryInv, Updates
      <4> QED BY <4>1, <4>2, IdeasAreGood
    <3>3. Remembers(Appended(runner[r].loaded, Len(ticks) + 1, ideas),
                    Append(ticks, [i \in DOMAIN ideas |-> ideas[i].conviction]))
      BY ONLY <3>1, <3>2, AppendRemembers
    <3> QED BY <1>2, <3>3
  <2>5. history' = whole
    BY <1>2, <2>0 DEF Held
  <2>6. Parsed' = whole
    <3>1. whole \in Seq(Entry)
      BY <2>4 DEF Remembers, Laid
    <3>2. whole \notin {Blank, Garbled}
      BY <3>1 DEF DamageIsNoHistory
    <3> QED BY <2>5, <3>2 DEF Parsed
  <2>7. Filed'
    BY <2>4, <2>6 DEF Filed
  <2> QED BY <2>2, <2>3, <2>7
<1> QED BY <1>4, <1>5 DEF HistoryInv

(* Reading the file for the score: it remembers all ticks.                 *)
LEMMA ReadKeepsHistory ==
  ASSUME BatchInv, HistoryInv, NEW r \in Runners, ReadHistory(r) PROVE HistoryInv'
<1>0. runner[r].stage = "read" /\ UNCHANGED <<history, ticks, printout>> /\ smudged' = (smudged \/ Busy({"write"}, r))
  BY DEF ReadHistory
<1>1. Kept \subseteq DOMAIN runner[r].result
  BY <1>0 DEF BatchInv, Warranted
<1>2. PICK result : /\ Becomes(r, AfterScan(runner[r].result), result, runner[r].loaded)
                    /\ result.chop = Chop(Parsed) /\ result.recent = LastOf(ticks)
  BY <1>1, ReadBecomes DEF BatchInv
<1>3. AfterScan(runner[r].result) \notin {"load", "open", "write"}
  BY DEF AfterScan
<1>4. ASSUME ~smudged' PROVE Told(result)
  <2>1. ~smudged /\ \A q \in Runners : runner[q].stage # "write"
    BY <1>0, <1>4 DEF Busy
  <2>2. Remembers(Parsed, ticks)
    BY <2>1 DEF HistoryInv, Filed
  <2>3. Total(LastOf(ticks)) <= Cap => Chop(Parsed) = ChopOf(LastOf(ticks))
    BY <2>2, ChopTells
  <2> QED BY <1>2, <2>3 DEF Told
<1>5. ASSUME ~smudged' PROVE \A q \in Runners : printout'[q] # NoReport => Told(printout'[q])
  BY <1>0, <1>5 DEF HistoryInv, AllTold
<1> QED BY <1>0, <1>2, <1>3, <1>4, <1>5, OthersKeepHistory

(* The other steps of a run do not touch the file.                         *)
LEMMA RestKeepsHistory ==
  ASSUME BatchInv, HistoryInv, NEW r \in Runners,
         Launch(r) \/ OpenView(r) \/ CopyView(r) \/ PrintReport(r) \/ KillRunner(r)
  PROVE  HistoryInv'
<1>1. CASE Launch(r)
  <2>1. runner[r].stage = "idle" /\ UNCHANGED <<history, ticks, printout, smudged>>
    BY <1>1 DEF Launch
  <2>2. PICK result : /\ Becomes(r, FirstStage(result), result, <<>>)
                      /\ Told(result) /\ FirstStage(result) \notin {"open", "write"}
                      /\ FirstStage(result) = "load" =>
                           result.line.skill = "bug-scan" /\ CollectIdeas(result.cells) # <<>>
    BY <1>1, LaunchBecomes DEF BatchInv
  <2>3. ~smudged' => \A q \in Runners : printout'[q] # NoReport => Told(printout'[q])
    BY <2>1 DEF HistoryInv, AllTold
  <2> QED BY <2>1, <2>2, <2>3, OthersKeepHistory
<1>2. CASE OpenView(r) \/ CopyView(r)
  <2>1. PICK stage \in {"copy", "print"} :
          /\ runner[r].stage \in {"cache", "copy"} /\ UNCHANGED <<history, ticks, printout, smudged>>
          /\ runner' = [runner EXCEPT ![r].stage = stage]
    BY <1>2 DEF OpenView, CopyView
  <2>2. Becomes(r, stage, runner[r].result, runner[r].loaded)
    BY <2>1, StageBecomes DEF BatchInv
  <2>3. ~smudged' => /\ Told(runner[r].result)
                     /\ \A q \in Runners : printout'[q] # NoReport => Told(printout'[q])
    BY <2>1 DEF HistoryInv, AllTold
  <2> QED BY <2>1, <2>2, <2>3, OthersKeepHistory
<1>3. CASE PrintReport(r)
  <2>1. /\ runner[r].stage = "print" /\ UNCHANGED <<history, ticks, smudged>>
        /\ printout' = [printout EXCEPT ![r] = runner[r].result] /\ runner' = [runner EXCEPT ![r] = Resting]
    BY <1>3 DEF PrintReport
  <2>2. Becomes(r, "idle", NoReport, <<>>)
    BY <2>1 DEF Becomes, Resting, BatchInv, Shaped
  <2>3. ~smudged' => \A q \in Runners : printout'[q] # NoReport => Told(printout'[q])
    BY <2>1 DEF HistoryInv, AllTold, BatchInv, Shaped
  <2> QED BY <2>1, <2>2, <2>3, OthersKeepHistory
<1>4. CASE KillRunner(r)
  <2>1. /\ UNCHANGED <<history, ticks, printout>> /\ smudged' = (smudged \/ runner[r].stage = "write")
        /\ runner' = [runner EXCEPT ![r] = Resting]
    BY <1>4 DEF KillRunner
  <2>2. Becomes(r, "idle", NoReport, <<>>)
    BY <2>1 DEF Becomes, Resting, BatchInv, Shaped
  <2>3. ~smudged' => \A q \in Runners : printout'[q] # NoReport => Told(printout'[q])
    BY <2>1 DEF HistoryInv, AllTold
  <2>4. (~smudged' => ~smudged) /\ (runner[r].stage # "write" \/ smudged')
    BY <2>1
  <2> QED BY <2>1, <2>2, <2>3, <2>4, OthersKeepHistory
<1> QED BY <1>1, <1>2, <1>3, <1>4

(* Every step keeps the invariant of the history.                          *)
LEMMA HistoryIsKept ==
  ASSUME DamageIsNoHistory, BatchInv, HistoryInv, [ScanNext]_batchVars PROVE HistoryInv'
<1>1. ASSUME NEW r \in Runners, RunnerSteps(r) PROVE HistoryInv'
  BY <1>1, LoadKeepsHistory, OpenKeepsHistory, WriteKeepsHistory, ReadKeepsHistory, RestKeepsHistory DEF RunnerSteps
<1>2. ASSUME UNCHANGED scanVars PROVE HistoryInv'
  BY <1>2 DEF scanVars, HistoryInv, Updates, Exclusive, Held, Filed, AllTold, Parsed
<1> QED BY <1>1, <1>2 DEF ScanNext, RunnerSteps, batchVars

(* The chop score bug-scan reports is that of the last Window runs that    *)
(* had ideas: rewriting the file, evicting old entries and grouping by     *)
(* timestamp (chop.py:112-150, 153-201) neither lose nor double a run, as  *)
(* long as updates do not overlap, none is killed between truncating and   *)
(* writing, and the window fits into the history.                          *)
THEOREM ChopTellsTheWindow == ASSUME DamageIsNoHistory PROVE ScanSpec => []ChopIsTheWindow
<1>1. ScanInit => HistoryInv
  BY HistoryBegins
<1>2. BatchInv /\ HistoryInv /\ [ScanNext]_batchVars => HistoryInv'
  BY HistoryIsKept
<1>3. HistoryInv => ChopIsTheWindow
  BY DEF HistoryInv, AllTold, Told, ChopIsTheWindow, Printed
<1> QED BY <1>1, <1>2, <1>3, BatchHolds, PTL DEF ScanSpec
=============================================================================
