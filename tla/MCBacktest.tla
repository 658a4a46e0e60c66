----------------------------- MODULE MCBacktest -----------------------------
EXTENDS Backtest

(* A bar of a quiet uptrend at 10.00 with an ATR of 0.50. *)
Base ==
  [open |-> 10000000, high |-> 10500000, low |-> 9500000, close |-> 10000000,
   emas |-> <<4, 3, 2, 1>>, rank |-> 5, above |-> [i \in 1..6 |-> TRUE],
   hh |-> "yes", hl |-> "yes", fib |-> "near", impulse |-> "none", vol |-> 160,
   obv |-> "rising", held |-> "mixed", squeezeOn |-> FALSE, momentum |-> 1, growing |-> TRUE,
   support |-> 9900000, resistance |-> 10150000, sits |-> FALSE,
   dipped |-> FALSE, wickS |-> FALSE, wickR |-> FALSE, swept |-> FALSE, surge |-> FALSE,
   regime |-> "NORMAL", compressing |-> FALSE, rsi |-> 50, flip |-> FALSE,
   atr |-> 500000, funding |-> Unknown]

Priced(close, atr) == [Base EXCEPT !.close = close, !.atr = atr]
Quotes == {Priced(10000000, 500000), Priced(995000, 12000), Priced(10000000, 80000)}

Tangle == [i \in 1..6 |-> i > 2]     \* the EMA21 crossed over the EMA50
Death == [i \in 1..6 |-> i < 4]      \* and under it

TrendBars ==
  {[b EXCEPT !.emas = e, !.rank = r, !.above = a, !.hh = h, !.hl = l, !.fib = f, !.impulse = i, !.obv = o] :
     b \in {Priced(995000, 12000), Priced(10000000, 500000)},
     e \in {<<4, 3, 2, 1>>, <<1, 2, 3, 4>>, <<4, 3, 1, 2>>, <<1, 2, 4, 3>>, <<2, 2, 1, 1>>, <<1, 2>>},
     r \in {0, 5}, a \in {Base.above, Tangle, Death}, h \in {"yes", "no", "none"}, l \in {"yes", "no"},
     f \in {"near", "far"}, i \in {"bounce", "drop", "none"}, o \in {"rising", "falling"}}

BreakBars ==
  {[b EXCEPT !.emas = e, !.above = a, !.hh = h, !.hl = l, !.vol = v, !.obv = o, !.momentum = m,
             !.squeezeOn = q, !.sits = s, !.held = g] :
     b \in {Priced(995000, 20000), Priced(10000000, 80000)},
     e \in {<<4, 3, 2, 1>>, <<1, 2, 3, 4>>, <<4, 3, 1, 2>>, <<1, 2, 4, 3>>, <<2, 2, 1, 1>>},
     a \in {Base.above, Tangle, Death}, h \in {"yes", "no"}, l \in {"yes", "no"},
     v \in {110, 130, 160}, o \in {"rising", "falling"}, m \in {-1, 1}, q \in BOOLEAN,
     s \in BOOLEAN, g \in {"above", "below"}}

ReversionBars ==
  {[b EXCEPT !.support = s, !.resistance = r, !.rsi = x, !.regime = g] :
     b \in Quotes \cup {Priced(9600000, 500000), Priced(1005000, 300000)},
     s \in {Unknown, 980000, 9000000, 9900000, 10600000},
     r \in {Unknown, 1000000, 9700000, 10150000, 12000000},
     x \in {Unknown, 20, 30, 50, 70}, g \in {"LOW", "NORMAL"}}

AccumulationBars ==
  {[b EXCEPT !.emas = e, !.rank = r, !.hh = h, !.hl = l, !.vol = v, !.support = 9900000,
             !.sits = s, !.dipped = d, !.regime = g, !.compressing = c] :
     b \in Quotes, e \in {<<4, 3, 2, 1>>, <<4, 3, 1, 2>>, <<1, 2, 3, 4>>}, r \in {1, 5},
     h \in {"yes", "no"}, l \in {"yes", "no"}, v \in {80, 160}, s \in BOOLEAN, d \in BOOLEAN,
     g \in {"LOW", "NORMAL"}, c \in BOOLEAN}

FadeBars ==
  {[b EXCEPT !.emas = e, !.vol = v, !.rsi = x, !.regime = g, !.flip = f, !.hh = h, !.hl = h,
             !.support = s, !.resistance = r] :
     b \in Quotes, e \in {<<4, 3, 2, 1>>, <<1, 2, 3, 4>>}, v \in {160, 300}, x \in {Unknown, 20, 50, 80},
     g \in {"LOW", "NORMAL"}, f \in BOOLEAN, h \in {"yes", "no"},
     s \in {Unknown, 9900000}, r \in {Unknown, 10150000}}

FundingBars ==
  {[b EXCEPT !.atr = a, !.funding = f] :
     b \in Quotes, a \in {0, 12000, 80000, 500000, 4000000}, f \in {Unknown, -120, -60, -10, 0, 10, 60, 120}}

SweepBars ==
  {[b EXCEPT !.wickS = w, !.wickR = x, !.swept = t, !.surge = u, !.sits = s, !.vol = v, !.obv = o,
             !.support = p, !.regime = g] :
     b \in Quotes, w \in BOOLEAN, x \in BOOLEAN, t \in BOOLEAN, u \in BOOLEAN, s \in BOOLEAN,
     v \in {90, 160}, o \in {"rising", "falling"}, p \in {Unknown, 9900000, 10100000},
     g \in {"LOW", "NORMAL"}}

Candle(b, open, high, low, close) ==
  [b EXCEPT !.open = open * 500000, !.high = high * 500000, !.low = low * 500000, !.close = close * 500000]

(* In half units around an idea with the stop at 9 and the target at 11.5: *)
(* nothing touched, target, stop, both, a gap below the stop, a gap above  *)
(* the target; and a bar that fires no idea.                               *)
LongBars ==
  {Candle(Base, 20, 21, 19, 20), Candle(Base, 20, 24, 20, 22), Candle(Base, 20, 20, 14, 15),
   Candle(Base, 20, 24, 17, 20), Candle(Base, 15, 20, 14, 20), Candle(Base, 24, 25, 20, 20),
   Candle([Base EXCEPT !.hh = "no", !.hl = "no"], 20, 21, 19, 20)}

Falling == [Base EXCEPT !.emas = <<1, 2, 3, 4>>, !.rank = 0, !.hh = "no", !.hl = "no", !.obv = "falling"]

ShortBars ==
  {Candle(Falling, 20, 21, 19, 20), Candle(Falling, 20, 20, 16, 18), Candle(Falling, 20, 23, 20, 20),
   Candle(Falling, 20, 23, 16, 20), Candle(Falling, 25, 26, 20, 20)}

MCFeed(feed) ==
  CASE feed = "trend" -> TrendBars [] feed = "break" -> BreakBars
    [] feed = "reversion" -> ReversionBars [] feed = "accumulation" -> AccumulationBars
    [] feed = "fade" -> FadeBars [] feed = "funding" -> FundingBars
    [] feed = "sweep" -> SweepBars [] feed = "long" -> LongBars [] feed = "short" -> ShortBars

Invocation(strategy, feed, class, floor, warmup, length) ==
  [strategy |-> strategy, feed |-> feed, class |-> class, floor |-> floor,
   lowest |-> 9500000, warmup |-> warmup, length |-> length]

MCPlans ==
  {Invocation("trend_follow", "trend", "other", 1, 0, 1),
   Invocation("breakout_confirm", "break", "other", 3, 0, 1),
   Invocation("mean_reversion", "reversion", "other", 2, 0, 1),
   Invocation("accumulation_swing", "accumulation", "other", 1, 0, 1),
   Invocation("exhaustion_fade", "fade", "other", 1, 0, 1),
   Invocation("funding_carry", "funding", "other", 2, 0, 1),
   Invocation("liquidity_sweep", "sweep", "other", 1, 0, 1),
   Invocation("trend_follow", "long", "other", 4, 0, 5),
   Invocation("trend_follow", "long", "ai_infra", 5, 1, 4),
   Invocation("trend_follow", "short", "perp_dex", 1, 0, 4)}
=============================================================================
