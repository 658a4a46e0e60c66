----------------------------- MODULE Strategies -----------------------------
(***************************************************************************)
(* The seven L3 strategies (skills/strategy-...) and the shared pipeline   *)
(* that validates what they build (analysis/contracts.py).  A strategy     *)
(* reads one BAR and what the L1 and L2 skills say of it (see              *)
(* Signals) and builds at most one idea (the two branches of mean          *)
(* reversion exclude each other): a direction, a conviction and a bracket  *)
(* of entry, stop and three take-profits.  Prices are in millionths of the *)
(* quote currency.                                                         *)
(***************************************************************************)
EXTENDS Signals, SequencesExt

CONSTANTS
  NoIdea,
  TiesUp        \* how the binary form of a decimal tie happens to round

ASSUME TiesAssumption == TiesUp \in BOOLEAN

Strategy == {"trend_follow", "mean_reversion", "breakout_confirm", "accumulation_swing",
             "exhaustion_fade", "funding_carry", "liquidity_sweep"}
AssetClass == {"perp_dex", "low_float", "ai_infra", "other"}

-----------------------------------------------------------------------------
(* analysis/formatting.py: the precision a price is stored with *)

Tick(x) == IF Magnitude(x) < 10000 THEN 1 ELSE IF Magnitude(x) < 1000000 THEN 100 ELSE 10000

RoundPrice(x) ==
  LET r == 2 * (x % Tick(x))
      up == r > Tick(x) \/ (r = Tick(x) /\ TiesUp)
  IN ((x \div Tick(x)) + (IF up THEN 1 ELSE 0)) * Tick(x)

-----------------------------------------------------------------------------
(* The bracket *)

Sign(dir) == IF dir = "long" THEN 1 ELSE -1

(* a is beyond b in the direction of the trade *)
Beyond(dir, a, b) == Sign(dir) * (a - b) > 0
Farther(dir, a, b) == IF Beyond(dir, a, b) THEN a ELSE b

(* l3_tp3_dead_zone_floor and _ceiling: 5% beyond the entry and one tick   *)
(* of the entry's magnitude, so that rounding stays outside.               *)
DeadZone(dir, entry) == (entry * (20 + Sign(dir))) \div 20 + Sign(dir) * Tick(entry)

Target(entry, stop, halves) ==
  entry + ((entry - stop) * halves) \div 2

(* The idea of a strategy: targets at multiples of the risk, in halves; a  *)
(* clamped third target is at least 5% away and at least at level.         *)
Idea(dir, conviction, entry, stop, halves, clamped, level) ==
  LET third == Target(entry, stop, halves[3])
      far == IF clamped THEN Farther(dir, Farther(dir, third, level), DeadZone(dir, entry))
             ELSE third
      ideal == <<Target(entry, stop, halves[1]), Target(entry, stop, halves[2]), far>>
  IN [dir |-> dir, conviction |-> conviction, entry |-> RoundPrice(entry),
      stop |-> RoundPrice(stop), ideal |-> ideal,
      tp |-> [i \in 1..3 |-> RoundPrice(ideal[i])]]

(* A stop the given halves of an ATR behind the close. *)
AtrIdea(b, dir, conviction, atrHalves, halves, clamped) ==
  Idea(dir, conviction, b.close, b.close - Sign(dir) * ((b.atr * atrHalves) \div 2),
       halves, clamped, b.close)

-----------------------------------------------------------------------------
(* The strategies: the ideas they build from a bar and its readings r *)

(* strategy-trend-follow.  The breakout boost looks for the word BREAKOUT  *)
(* in a label that never contains it, so no conviction is ever raised.     *)
TrendFollow(b, r) ==
  LET q == r.quality
      intact == b.hh = "yes" /\ b.hl = "yes" /\ r.trend.alignment \in Bullish
      idea(dir, conviction) == <<AtrIdea(b, dir, conviction, 4, <<3, 5, 8>>, TRUE)>>
  IN CASE q.class = "HEALTHY_UPTREND" -> idea("long", q.confidence)
       [] q.class = "HEALTHY_PULLBACK_UPTREND" -> idea("long", Clip(1, q.confidence - 1, 5))
       [] q.class = "WEAKENING" /\ intact -> idea("long", Clip(1, q.confidence - 1, 5))
       [] q.class = "HEALTHY_DOWNTREND" -> idea("short", q.confidence)
       [] OTHER -> <<>>

(* strategy-mean-reversion: the stop one ATR behind the level, the last    *)
(* target at the opposite level when that is farther than the clamp.       *)
MeanReversion(b) ==
  LET conviction == IF b.regime = "LOW" THEN 3 ELSE 2
      reach(level) == IF level = Unknown THEN b.close ELSE level
      idea(dir, stop, level) == <<Idea(dir, conviction, b.close, stop, <<2, 4, 6>>, TRUE, reach(level))>>
      oversold == /\ b.rsi # Unknown /\ b.rsi <= 30
                  /\ b.support # Unknown /\ 50 * b.close <= 51 * b.support
      overbought == /\ b.rsi # Unknown /\ b.rsi >= 70
                    /\ b.resistance # Unknown /\ 50 * b.close >= 49 * b.resistance
  IN (IF oversold THEN idea("long", b.support - b.atr, b.resistance) ELSE <<>>)
     \o (IF overbought THEN idea("short", b.resistance + b.atr, b.support) ELSE <<>>)

SqueezeSide(b) == IF b.momentum > 0 THEN "long" ELSE IF b.momentum < 0 THEN "short" ELSE "none"

(* strategy-breakout-confirm: the direction of the breakout detector is    *)
(* used whether or not the detector found a pattern; no clamp.             *)
BreakoutConfirm(b, r) ==
  LET dir == Direction(r.trend)
      squeezed == SqueezeSide(b) = dir
      flow == b.obv = (IF dir = "long" THEN "rising" ELSE "falling")
      conviction == Clip(1, r.breakout.confidence + (IF squeezed THEN 1 ELSE 0), 5)
  IN IF dir # "none" /\ b.vol > 120 /\ (squeezed \/ flow)
     THEN <<AtrIdea(b, dir, conviction, 3, <<3, 5, 8>>, FALSE)>> ELSE <<>>

(* strategy-accumulation-swing *)
AccumulationSwing(b, r) ==
  LET acc == r.accumulation
      quality == r.quality.class
      conviction == acc.confidence + (IF quality = "HEALTHY_UPTREND" THEN 2 ELSE 0)
  IN IF acc.class \in {"SPRING", "REACCUMULATION"} /\ quality \in {"HEALTHY_UPTREND", "WEAKENING"}
     THEN <<AtrIdea(b, "long", Clip(1, conviction, 5), 3, <<4, 6, 10>>, TRUE)>> ELSE <<>>

(* strategy-exhaustion-fade *)
ExhaustionFade(b, r) ==
  LET e == r.exhaustion
      idea(dir) == <<AtrIdea(b, dir, e.confidence, 3, <<2, 4, 6>>, TRUE)>>
  IN CASE /\ e.class = "BLOWOFF_TOP" /\ r.trend.score > 0
          /\ b.resistance # Unknown /\ 50 * b.close >= 49 * b.resistance -> idea("short")
       [] /\ e.class = "CAPITULATION_BOTTOM" /\ r.trend.score < 0
          /\ b.support # Unknown /\ 50 * b.close <= 51 * b.support -> idea("long")
       [] OTHER -> <<>>

(* strategy-funding-carry: paid to hold the side the funding pays. *)
FundingCarry(b) ==
  LET rate == Magnitude(b.funding)
      conviction == IF rate >= 100 THEN 4 ELSE IF rate >= 50 THEN 3 ELSE 2
  IN IF b.atr > 0 /\ rate >= 10
     THEN <<AtrIdea(b, IF b.funding < 0 THEN "long" ELSE "short", conviction, 4, <<3, 5, 8>>, TRUE)>>
     ELSE <<>>

(* strategy-liquidity-sweep (conviction mode "current"): long whichever    *)
(* side was swept.                                                         *)
LiquiditySweep(b, r) ==
  LET sweep == r.sweep
      acc == r.accumulation
      conviction == IF acc.class = "none" THEN 2
                    ELSE Clip(1, sweep.confidence + acc.confidence \div 2, 5)
  IN IF sweep.class # "none" /\ b.vol > 100 /\ b.obv = "rising"
     THEN <<AtrIdea(b, "long", conviction, 3, <<4, 6, 8>>, TRUE)>> ELSE <<>>

Build(strategy, b, r) ==
  CASE strategy = "trend_follow" -> TrendFollow(b, r)
    [] strategy = "mean_reversion" -> MeanReversion(b)
    [] strategy = "breakout_confirm" -> BreakoutConfirm(b, r)
    [] strategy = "accumulation_swing" -> AccumulationSwing(b, r)
    [] strategy = "exhaustion_fade" -> ExhaustionFade(b, r)
    [] strategy = "funding_carry" -> FundingCarry(b)
    [] strategy = "liquidity_sweep" -> LiquiditySweep(b, r)

-----------------------------------------------------------------------------
(* Pattern S: trend-follow's soft downgrades *)

Multiplier(class) == CASE class \in {"perp_dex", "low_float"} -> 6 [] class = "ai_infra" -> 2 [] OTHER -> 1

(* move_maturity_pct is how far the close stands above the lowest close of *)
(* the series.  The entry is the close itself, so the chase-risk and edge  *)
(* downgrades of _apply_pattern_s cannot occur; the tags of a downgrade    *)
(* are informational and left out.                                         *)
PatternS(idea, b, lowest, class) ==
  LET m == Multiplier(class)
      grown == IF lowest > 0 THEN b.close - lowest ELSE 0
      late == grown * 2 > lowest * m
      mature == ~late /\ grown * 10 > lowest * 3 * m
      lost == IF late THEN 2 ELSE IF mature THEN 1 ELSE 0
  IN [idea EXCEPT !.conviction = Clip(1, @ - lost, 5)]

-----------------------------------------------------------------------------
(* finalize_ideas: ladder, stop distance, conviction gate *)

(* validate_l3_tp_ladder: the first complaint. *)
Ladder(idea) ==
  LET tp == idea.tp
      beyond(x, y) == Beyond(idea.dir, x, y)
  IN IF idea.stop = idea.entry THEN "zero_stop"
     ELSE IF \E i \in 1..3 : ~beyond(tp[i], idea.entry) THEN "wrong_side"
     ELSE IF ~beyond(tp[2], tp[1]) \/ ~beyond(tp[3], tp[2]) THEN "not_monotone"
     ELSE IF beyond(idea.entry * (20 + Sign(idea.dir)), tp[3] * 20) THEN "dead_zone" ELSE "ok"

(* Mutant: a stop of one percent passes. *)
StopWideEnough_One(idea) ==
  100 * Magnitude(idea.entry - idea.stop) >= idea.entry

(* enforce_min_stop_distance: at least 2%; a zero entry is not checked. *)
StopWideEnough(idea) ==
  idea.entry = 0 \/ 50 * Magnitude(idea.entry - idea.stop) >= idea.entry

(* Mutant: the targets are not validated. *)
Complaint_NoLadder(idea) == IF StopWideEnough(idea) THEN "ok" ELSE "tight_stop"

Complaint(idea) ==
  IF Ladder(idea) # "ok" THEN Ladder(idea)
  ELSE IF StopWideEnough(idea) THEN "ok" ELSE "tight_stop"

(* compute_rr_to_tp: reward over risk from the unrounded targets and the   *)
(* stored entry and stop; empty when the stop is not behind the entry.     *)
RewardToRisk(idea) ==
  IF Beyond(idea.dir, idea.entry, idea.stop)
  THEN [i \in 1..3 |-> <<Sign(idea.dir) * (idea.ideal[i] - idea.entry),
                         Magnitude(idea.entry - idea.stop)>>]
  ELSE <<>>

Finalize(ideas, floor) ==
  FlattenSeq([i \in DOMAIN ideas |->
    IF Complaint(ideas[i]) = "ok" /\ ideas[i].conviction >= floor THEN <<ideas[i]>> ELSE <<>>])

(* A strategy's analyze: lowest is the lowest close of the series, floor   *)
(* the conviction gate's value for this strategy, ticker and interval.     *)
Analyze(strategy, b, r, lowest, class, floor) ==
  LET built == Build(strategy, b, r)
      tagged == IF strategy = "trend_follow"
                THEN [i \in DOMAIN built |-> PatternS(built[i], b, lowest, class)] ELSE built
  IN Finalize(tagged, floor)

(* WalkForwardRunner takes the first idea of the list. *)
FirstIdea(ideas) == IF ideas = <<>> THEN NoIdea ELSE ideas[1]
=============================================================================
