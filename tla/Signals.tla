------------------------------ MODULE Signals ------------------------------
(***************************************************************************)
(* The L1 trend classifier and the five L2 pattern detectors the L3        *)
(* strategies read (skills/market-trend, -trend-quality, -breakout,        *)
(* -accumulation, -exhaustion, -liquidity-sweep), as functions of a BAR:   *)
(* the last candle together with what the indicators say of the candles up *)
(* to it (at least 50).  How an average, an RSI or a swing point is        *)
(* computed is not modelled; a bar says on which side of the detectors'    *)
(* thresholds each indicator falls:                                        *)
(*   open, high, low, close   the candle                                   *)
(*   emas      the available EMAs among 21, 50, 100, 200, in that order    *)
(*   rank      the close on the scale of emas                              *)
(*   above     was the EMA21 over the EMA50, for each of the last six bars *)
(*   hh, hl    higher highs, higher lows: "yes", "no" or "none"            *)
(*   fib       distance to the nearest Fibonacci level: "near", "mid",     *)
(*             "far"                                                       *)
(*   impulse   "bounce", "drop", "slowing" or "none"                       *)
(*   vol, obv  volume ratio in percent, OBV trend                          *)
(*   held      where nine of the last ten closes are against the SMA50     *)
(*   squeezeOn, momentum (its sign), growing   the squeeze indicator       *)
(*   support, resistance, sits                 the nearest S/R levels      *)
(*   dipped, wickS, wickR, swept, surge        recent candles and levels   *)
(*   regime, compressing, rsi, flip            volatility, RSI, MACD       *)
(*   atr, funding                              ATR, funding in 1e-5        *)
(* Unknown stands for a value the indicator cannot give.                   *)
(***************************************************************************)
EXTENDS Integers, Sequences, FiniteSetsExt

Unknown == -1

Bar ==
  [open : Int, high : Int, low : Int, close : Int, emas : Seq(Int), rank : Int, above : Seq(BOOLEAN),
   hh : {"yes", "no", "none"}, hl : {"yes", "no", "none"}, fib : {"near", "mid", "far"},
   impulse : {"bounce", "drop", "slowing", "none"}, vol : Int, obv : STRING, held : STRING,
   squeezeOn : BOOLEAN, momentum : Int, growing : BOOLEAN, support : Int, resistance : Int,
   sits : BOOLEAN, dipped : BOOLEAN, wickS : BOOLEAN, wickR : BOOLEAN, swept : BOOLEAN,
   surge : BOOLEAN, regime : STRING, compressing : BOOLEAN, rsi : Int, flip : BOOLEAN,
   atr : Int, funding : Int]

Verdict(class, conf) == [class |-> class, confidence |-> conf]

(* pattern.present is False: no classification, confidence unused. *)
NoVerdict == Verdict("none", 1)

Clip(lo, x, hi) == IF x < lo THEN lo ELSE IF x > hi THEN hi ELSE x

(* Python's round(): to the nearest integer, a half to the even one. *)
HalfEven(n, d) ==
  LET q == n \div d
      r == 2 * (n % d)
  IN IF r > d \/ (r = d /\ q % 2 = 1) THEN q + 1 ELSE q

Magnitude(x) == IF x < 0 THEN -x ELSE x

(* A detector's vote: the sub-signals that are on, with weights in 1e-4. *)
On(vote) == {s \in DOMAIN vote : vote[s]}
Weight(vote, weights) == MapThenSumSet(LAMBDA s : weights[s], On(vote))
Confidence(weight) == Clip(1, HalfEven(5 * weight, 10000), 5)

(* Mutant: the threshold moves to 0.40, in the detectors alone. *)
Corroborated_Stricter(vote, weights) ==
  Cardinality(On(vote)) >= 2 /\ Weight(vote, weights) > 4000

(* The trigger of the weighted detectors: two sub-signals and over 0.30. *)
Corroborated(vote, weights) ==
  Cardinality(On(vote)) >= 2 /\ Weight(vote, weights) > 3000

-----------------------------------------------------------------------------
(* market-trend *)

(* With fewer than four averages, ascending values (the young average      *)
(* below the old one) are labelled PARTIAL_BULL.                           *)
Alignment(b) ==
  LET e == b.emas
      falling == \A i \in 1..(Len(e) - 1) : e[i] > e[i + 1]
      rising == \A i \in 1..(Len(e) - 1) : e[i] < e[i + 1]
  IN IF Len(e) < 4
     THEN IF rising THEN "PARTIAL_BULL"
          ELSE IF falling THEN "PARTIAL_BEAR" ELSE "TANGLED"
     ELSE IF falling THEN "FULL_BULL"
     ELSE IF rising THEN "FULL_BEAR"
     ELSE IF e[1] > e[2] THEN "PARTIAL_BULL"
     ELSE IF e[1] < e[2] THEN "PARTIAL_BEAR" ELSE "TANGLED"

Bullish == {"FULL_BULL", "PARTIAL_BULL"}
Bearish == {"FULL_BEAR", "PARTIAL_BEAR"}

(* detect_crossover: the oldest cross of the last five bars. *)
Crossover(b) ==
  LET crossed == {i \in 2..Len(b.above) : b.above[i] # b.above[i - 1]}
  IN IF crossed = {} THEN "none"
     ELSE IF b.above[Min(crossed)] THEN "golden" ELSE "death"

(* A golden cross lifts the score to at least 1, a death cross lowers it   *)
(* to at most -1; a score counts half points.                              *)
Crossed(score, cross) ==
  IF cross = "golden" /\ score < 2 THEN 2
  ELSE IF cross = "death" /\ score > -2 THEN -2 ELSE score

(* The score in half points, -8..8, of an alignment and the swings. *)
Score(b, alignment) ==
  LET base == [FULL_BULL |-> 4, PARTIAL_BULL |-> 2, TANGLED |-> 0,
               PARTIAL_BEAR |-> -2, FULL_BEAR |-> -4]
      swing == [yes |-> 2, no |-> -1, none |-> 0]
  IN Crossed(Clip(-8, base[alignment] + swing[b.hh] + swing[b.hl], 8), Crossover(b))

TrendOf(score) ==
  IF score >= 6 THEN "STRONG_UPTREND"
  ELSE IF score >= 2 THEN "UPTREND"
  ELSE IF score <= -6 THEN "STRONG_DOWNTREND"
  ELSE IF score <= -2 THEN "DOWNTREND" ELSE "SIDEWAYS"

(* What market-trend reports of a bar. *)
MarketTrend(b) ==
  LET alignment == Alignment(b)
      score == Score(b, alignment)
  IN [alignment |-> alignment, score |-> score, trend |-> TrendOf(score),
      above |-> Cardinality({i \in DOMAIN b.emas : b.rank > b.emas[i]})]

-----------------------------------------------------------------------------
(* market-trend-quality; m is what market-trend reports of the bar *)

VolumeShare(b) ==
  IF b.vol = Unknown THEN 0
  ELSE IF b.vol > 150 /\ b.obv = "rising" THEN 1500
  ELSE IF b.vol >= 100 /\ b.obv = "falling" THEN -1500
  ELSE IF b.vol >= 70 /\ (b.obv = "rising" \/ b.rank > b.emas[2]) THEN 750
  ELSE IF b.vol < 50 /\ b.obv = "falling" THEN -1500 ELSE 0

QualityShares(b, m) ==
  [ema |-> [FULL_BULL |-> 2500, PARTIAL_BULL |-> 1250, TANGLED |-> 0,
            PARTIAL_BEAR |-> -1250, FULL_BEAR |-> -2500][m.alignment],
   swings |-> IF b.hh = "yes" /\ b.hl = "yes" THEN 2500
              ELSE IF b.hh = "no" /\ b.hl = "no" THEN -2500 ELSE 0,
   pullback |-> [near |-> 2000, mid |-> 0, far |-> -2000][b.fib],
   impulse |-> [bounce |-> 1500, drop |-> -1500, slowing |-> -750, none |-> 0][b.impulse],
   volume |-> VolumeShare(b)]

QualityWeights ==
  [ema |-> 2500, swings |-> 2500, pullback |-> 2000, impulse |-> 1500, volume |-> 1500]

(* A pullback is always measured, so it is on even when it adds nothing. *)
QualityVote(b, m) ==
  [s \in DOMAIN QualityWeights |-> s = "pullback" \/ QualityShares(b, m)[s] # 0]

(* Does one of the count fallbacks apply?  Four votes; three or two with   *)
(* over 0.30, the two not pulling apart.                                   *)
EnoughVotes(b, m) ==
  LET vote == QualityVote(b, m)
      n == Cardinality(On(vote))
      heavy == Weight(vote, QualityWeights) > 3000
      opposed == QualityShares(b, m).ema * QualityShares(b, m).pullback < 0
  IN n >= 4 \/ (n = 3 /\ heavy) \/ (n = 2 /\ heavy /\ ~opposed)

SignedScore(b, m) == MapThenSumSet(LAMBDA s : QualityShares(b, m)[s], DOMAIN QualityWeights)

QualityClass(b, m) ==
  LET bullish == m.alignment \in Bullish
      bearish == m.alignment \in Bearish
      score == m.score
  IN IF /\ b.impulse = "bounce" /\ bullish
        /\ b.hh = "yes" \/ (b.hh # "no" /\ b.hl # "no")
        /\ b.rank > b.emas[2]
     THEN "HEALTHY_PULLBACK_UPTREND"
     ELSE IF score >= 6 /\ b.hh = "yes" /\ b.hl = "yes" /\ bullish
     THEN "HEALTHY_UPTREND"
     ELSE IF score <= -6 /\ b.hh = "no" /\ b.hl = "no" /\ bearish
     THEN "HEALTHY_DOWNTREND"
     ELSE IF score \in (2..4) \cup (-4..-2) THEN "WEAKENING"
     ELSE IF "no" \in {b.hh, b.hl} /\ ~bullish /\ ~bearish THEN "DEGRADING"
     ELSE IF SignedScore(b, m) >= 7500 \/ SignedScore(b, m) <= -7500 \/ EnoughVotes(b, m)
     THEN "WEAKENING" ELSE "none"

TrendQuality(b, m) ==
  LET s == SignedScore(b, m)
      class == QualityClass(b, m)
  IN IF class = "none" THEN NoVerdict ELSE Verdict(class, Confidence(Magnitude(s)))

-----------------------------------------------------------------------------
(* market-breakout *)

BullBreak(m) == m.alignment = "FULL_BULL" \/ m.trend = "STRONG_UPTREND"
BearBreak(m) == m.alignment = "FULL_BEAR" \/ m.trend = "STRONG_DOWNTREND"

Direction(m) ==
  IF BullBreak(m) /\ ~BearBreak(m) THEN "long"
  ELSE IF BearBreak(m) /\ ~BullBreak(m) THEN "short" ELSE "none"

BreakoutWeights ==
  [structure |-> 3500, volume |-> 2500, obv |-> 1500, squeeze |-> 1500, retest |-> 1000]

BreakoutVote(b, m) ==
  [structure |-> BullBreak(m) \/ BearBreak(m),
   volume |-> b.vol > 150,
   obv |-> (b.obv = "rising" /\ BullBreak(m)) \/ (b.obv = "falling" /\ BearBreak(m)),
   squeeze |-> ~b.squeezeOn /\ b.growing /\ b.momentum > 0,
   retest |-> b.sits]

(* The confidence is reported with or without a pattern. *)
Breakout(b, m) ==
  LET vote == BreakoutVote(b, m)
      full == Corroborated(vote, BreakoutWeights)
      retest == vote.squeeze /\ vote.retest
      stale == (BullBreak(m) /\ b.held = "above") \/ (BearBreak(m) /\ b.held = "below")
      class == IF ~full /\ ~retest THEN "none"
               ELSE IF m.trend = "SIDEWAYS" /\ ~retest THEN "FAILED"
               ELSE IF stale THEN "STALE"
               ELSE IF vote.retest THEN "CONFIRMED" ELSE "FRESH"
  IN Verdict(class, IF ~full /\ retest THEN 3
                    ELSE Confidence(Weight(vote, BreakoutWeights)))

-----------------------------------------------------------------------------
(* market-accumulation *)

AccumulationWeights ==
  [spring |-> 3000, absorption |-> 2000, strength |-> 2000, reaccum |-> 1500, lowVol |-> 1500]

AccumulationVote(b, m) ==
  [spring |-> b.support # Unknown /\ b.sits /\ b.dipped /\ b.close > b.support,
   absorption |-> b.vol > 150 /\ b.regime = "LOW",
   strength |-> b.vol > 150 /\ m.score > 0,
   reaccum |-> m.alignment = "PARTIAL_BULL" /\ m.above >= 2,
   lowVol |-> b.regime = "LOW" /\ b.compressing]

Accumulation(b, m) ==
  LET vote == AccumulationVote(b, m)
      full == Corroborated(vote, AccumulationWeights)
      pair == vote.reaccum /\ vote.lowVol
  IN IF ~full /\ ~pair THEN NoVerdict
     ELSE Verdict(IF vote.spring /\ vote.absorption THEN "SPRING"
                  ELSE IF vote.reaccum /\ (vote.lowVol \/ vote.strength) THEN "REACCUMULATION"
                  ELSE IF vote.lowVol THEN "UTAD" ELSE "SPRING",
                  IF full THEN Confidence(Weight(vote, AccumulationWeights)) ELSE 3)

-----------------------------------------------------------------------------
(* market-exhaustion *)

ExhaustionWeights == [climax |-> 3333, extreme |-> 2778, narrow |-> 2222, divergence |-> 1667]

ExhaustionVote(b) ==
  [climax |-> b.vol >= 250,
   extreme |-> b.rsi # Unknown /\ (b.rsi < 30 \/ b.rsi > 70),
   narrow |-> b.regime = "LOW",
   divergence |-> b.flip]

Exhaustion(b) ==
  LET vote == ExhaustionVote(b)
  IN IF ~Corroborated(vote, ExhaustionWeights) THEN NoVerdict
     ELSE Verdict(IF vote.extreme /\ vote.climax
                  THEN IF b.rsi < 30 THEN "CAPITULATION_BOTTOM" ELSE "BLOWOFF_TOP"
                  ELSE IF vote.divergence THEN "IMPULSE_EXHAUSTION" ELSE "PULLBACK_EXHAUSTED",
                  Confidence(Weight(vote, ExhaustionWeights)))

-----------------------------------------------------------------------------
(* market-liquidity-sweep *)

SweepWeights == [wick |-> 3500, reclaim |-> 3000, swing |-> 2000, volume |-> 1500]

WickSupport(b) == b.support # Unknown /\ ~b.sits /\ b.wickS
WickResistance(b) == b.resistance # Unknown /\ ~b.sits /\ b.wickR

SweepVote(b) ==
  [wick |-> WickSupport(b) \/ WickResistance(b),
   reclaim |-> IF WickSupport(b) THEN b.close > b.support
               ELSE WickResistance(b) /\ b.close < b.resistance,
   swing |-> b.swept,
   volume |-> b.surge]

Sweep(b) ==
  LET vote == SweepVote(b)
      class == IF WickSupport(b) /\ vote.reclaim THEN "SUPPORT_SWEEP"
               ELSE IF WickResistance(b) /\ vote.reclaim THEN "RESISTANCE_SWEEP"
               ELSE IF vote.swing THEN "DOUBLE_TEST"
               ELSE IF /\ Unknown \notin {b.support, b.resistance}
                       /\ Magnitude(b.close - b.support) > Magnitude(b.resistance - b.close)
               THEN "RESISTANCE_SWEEP" ELSE "SUPPORT_SWEEP"
  IN IF Corroborated(vote, SweepWeights)
     THEN Verdict(class, Confidence(Weight(vote, SweepWeights))) ELSE NoVerdict
-----------------------------------------------------------------------------
(* What the L1 classifier and the L2 detectors say of a bar. *)
Readings(b, m) ==
  [trend |-> m, quality |-> TrendQuality(b, m), breakout |-> Breakout(b, m),
   accumulation |-> Accumulation(b, m), exhaustion |-> Exhaustion(b), sweep |-> Sweep(b)]
=============================================================================
