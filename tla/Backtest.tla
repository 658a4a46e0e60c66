------------------------------ MODULE Backtest ------------------------------
(***************************************************************************)
(* One invocation of backtest-engine (skills/backtest-engine): the bars it *)
(* fetches, the walk-forward replay of a strategy over every prefix of     *)
(* them, the simulated fills of the ideas, the metrics and the drill into  *)
(* a single bar.  The bars are the end of a longer series whose earlier    *)
(* part lies inside the warm-up; of that part only its lowest close        *)
(* matters.  Bars are numbered from 1.  Money is in millionths, a trade    *)
(* has the size of one unit, and a fraction of a millionth is dropped.     *)
(***************************************************************************)
EXTENDS Strategies

CONSTANTS
  Plans,        \* the command lines explored
  Feed(_),      \* Feed(plan.feed): the bars that may be fetched
  FeeBps,       \* --fee-bps
  SlippageBps,  \* --slippage-bps
  BaseCapital   \* base_capital over --qty

(* strategy, class, floor as in Analyze; lowest close before the bars;     *)
(* warmup of the bars to skip, and how many bars there may be.             *)
Plan == [strategy : Strategy, class : AssetClass, floor : 1..99, lowest : Nat,
         warmup : Nat, length : Nat, feed : STRING]

ASSUME BacktestAssumption ==
  /\ Plans \subseteq Plan
  /\ \A p \in Plans : Feed(p.feed) \subseteq Bar
  /\ FeeBps \in Nat /\ SlippageBps \in Nat /\ BaseCapital \in Nat \ {0}

VARIABLES
  plan,      \* the command line
  bars,      \* the candles fetched
  phase,     \* what main does next
  readings,  \* of the bar being replayed, or the empty sequence
  windows,   \* the first idea of each bar after the warm-up, or NoIdea
  records,   \* the simulated trades
  report,    \* strategy metrics and benchmark curve, or the empty sequence
  exit,      \* exit code, -1 while running
  earlier    \* the trades of the last run, when the series was shorter

vars == <<plan, bars, phase, readings, windows, records, report, exit, earlier>>

-----------------------------------------------------------------------------
(* Fill simulator *)

NoBar == 0

EntryPrice(dir, open) == open + Sign(dir) * ((open * SlippageBps) \div 10000)
Fee(price) == (price * FeeBps) \div 10000

StopHit(idea, bar) ==
  IF idea.dir = "long" THEN bar.low <= idea.stop ELSE bar.high >= idea.stop
TargetHit(idea, bar) ==
  IF idea.dir = "long" THEN bar.high >= idea.tp[1] ELSE bar.low <= idea.tp[1]

(* Mutant: a bar that touches both sides ends at the target. *)
ExitReason_TargetFirst(idea, bar) == IF TargetHit(idea, bar) THEN "target" ELSE "stop"

ExitReason(idea, bar) == IF StopHit(idea, bar) THEN "stop" ELSE "target"

Trade(t, idea, status, reason, exitBar, pnl) ==
  [bar |-> t, idea |-> idea, status |-> status, reason |-> reason,
   exitBar |-> exitBar, pnl |-> pnl]

(* The idea of bar t enters at the next open and leaves on the first bar,  *)
(* the entry bar included, that touches its stop or its first target.      *)
Simulate(idea, t, series) ==
  LET entry == EntryPrice(idea.dir, series[t + 1].open)
      touched == {i \in (t + 1)..Len(series) :
                    StopHit(idea, series[i]) \/ TargetHit(idea, series[i])}
      out == Min(touched)
      reason == ExitReason(idea, series[out])
      price == IF reason = "stop" THEN idea.stop ELSE idea.tp[1]
  IN IF t = Len(series) THEN Trade(t, idea, "skipped", "none", NoBar, 0)
     ELSE IF touched = {} THEN Trade(t, idea, "open", "none", NoBar, 0)
     ELSE Trade(t, idea, "filled", reason, out, Sign(idea.dir) * (price - entry) - Fee(entry))

-----------------------------------------------------------------------------
(* Walk-forward replay *)

(* Mutant: the strategy is handed the whole series. *)
LowestClose_WholeSeries(p, series, t) ==
  Min({p.lowest} \cup {series[i].close : i \in DOMAIN series})

(* The lowest close up to bar t. *)
LowestClose(p, series, t) == Min({p.lowest} \cup {series[i].close : i \in 1..t})

(* The trades of the ideas that fired, in the order of their bars. *)
Fills(ws, p, series) ==
  LET fired == FlattenSeq([j \in DOMAIN ws |-> IF ws[j] = NoIdea THEN <<>> ELSE <<j>>])
  IN [i \in DOMAIN fired |-> Simulate(ws[fired[i]], p.warmup + fired[i], series)]

-----------------------------------------------------------------------------
(* Metrics *)

Results(trades) == [i \in DOMAIN trades |-> trades[i].pnl]
TotalPnl(trades) == SumFunction(Results(trades))

(* Mutant: the last trade that leaves on a bar replaces the others. *)
PnlByBar_Last(trades, t) ==
  LET there == {i \in DOMAIN trades : trades[i].exitBar = t}
  IN IF there = {} THEN 0 ELSE trades[Max(there)].pnl

PnlByBar(trades, t) ==
  SumFunctionOnSet(Results(trades), {i \in DOMAIN trades : trades[i].exitBar = t})

(* Realised equity, one point per bar from the warm-up; a single point     *)
(* when no trade was closed.                                               *)
Curve(trades, p, n) ==
  IF \A i \in DOMAIN trades : trades[i].status # "filled" THEN <<BaseCapital>>
  ELSE [k \in 1..(n - p.warmup) |->
          BaseCapital + SumFunction([t \in (p.warmup + 1)..(p.warmup + k) |-> PnlByBar(trades, t)])]

(* buy_and_hold_benchmark: the cost of one unit, then the closes. *)
Benchmark(p, series) ==
  LET entry == EntryPrice("long", series[p.warmup + 2].open)
  IN IF Len(series) <= p.warmup + 1 THEN <<>>
     ELSE <<entry + Fee(entry)>> \o
          [k \in 1..(Len(series) - p.warmup - 1) |-> series[p.warmup + 1 + k].close]

Peak(curve, k) == Max({curve[i] : i \in 1..k})

(* In percent of the running peak. *)
Drawdown(curve) ==
  Max({((Peak(curve, k) - curve[k]) * 100) \div Peak(curve, k) : k \in DOMAIN curve} \cup {0})

(* compute; the annualised return, Sharpe and Sortino ratios are left out  *)
(* of the result exactly when the curve is bankrupted.                     *)
Compute(trades, curve) ==
  [count |-> Len(trades),
   gain |-> curve[Len(curve)] - curve[1],
   bankrupted |-> \E k \in 2..Len(curve) : curve[k] <= 0,
   drawdown |-> Drawdown(curve)]

-----------------------------------------------------------------------------
(* main *)

Init ==
  /\ plan \in Plans
  /\ bars = <<>> /\ earlier = <<>>
  /\ readings = <<>> /\ windows = <<>> /\ records = <<>> /\ report = <<>>
  /\ phase = "fetch" /\ exit = -1

(* fetch_ohlc: the series is as long as the provider has bars. *)
Fetch ==
  /\ phase = "fetch" /\ Len(bars) < plan.length
  /\ \E bar \in Feed(plan.feed) : bars' = Append(bars, bar)
  /\ UNCHANGED <<plan, phase, readings, windows, records, report, exit, earlier>>

End(code) == phase' = "ended" /\ exit' = code

(* _emit_no_data, _emit_warmup_too_large *)
NothingToReplay ==
  /\ phase = "fetch" /\ Len(bars) <= plan.warmup
  /\ End(0)
  /\ UNCHANGED <<plan, bars, readings, windows, records, report, earlier>>

StartReplay ==
  /\ phase = "fetch" /\ Len(bars) > plan.warmup
  /\ phase' = "replay"
  /\ UNCHANGED <<plan, bars, readings, windows, records, report, exit, earlier>>

Current == plan.warmup + Len(windows) + 1

(* WalkForwardRunner.run, one bar: the strategy has the L1 and L2 skills   *)
(* read the prefix ...                                                     *)
Read ==
  /\ phase = "replay" /\ readings = <<>>
  /\ readings' = <<Readings(bars[Current], MarketTrend(bars[Current]))>>
  /\ UNCHANGED <<plan, bars, phase, windows, records, report, exit, earlier>>

(* ... and builds and validates its idea from them. *)
Walk ==
  /\ phase = "replay" /\ readings # <<>>
  /\ windows' = Append(windows, FirstIdea(
                   Analyze(plan.strategy, bars[Current], readings[1],
                           LowestClose(plan, bars, Current), plan.class, plan.floor)))
  /\ readings' = <<>>
  /\ phase' = IF Current = Len(bars) THEN "replayed" ELSE "replay"
  /\ UNCHANGED <<plan, bars, records, report, exit, earlier>>

(* Without --fill-sim the counts are the whole answer. *)
CountOnly ==
  /\ phase = "replayed"
  /\ End(0)
  /\ UNCHANGED <<plan, bars, readings, windows, records, report, earlier>>

(* _run_forensic_drill: a bar out of range or without an idea is an error; *)
(* the idea of the last bar has no fill.                                   *)
Drill(t) ==
  LET w == t - plan.warmup
      fired == w \in DOMAIN windows /\ windows[w] # NoIdea
  IN /\ phase = "replayed"
     /\ records' = IF fired /\ t < Len(bars) THEN <<Simulate(windows[w], t, bars)>> ELSE <<>>
     /\ End(IF fired THEN 0 ELSE 2)
     /\ UNCHANGED <<plan, bars, readings, windows, report, earlier>>

(* _run_fill_sim *)
FillSim ==
  /\ phase = "replayed"
  /\ records' = Fills(windows, plan, bars)
  /\ phase' = "filled"
  /\ UNCHANGED <<plan, bars, readings, windows, report, exit, earlier>>

(* _run_metrics *)
Metrics ==
  LET curve == Curve(records, plan, Len(bars))
  IN /\ phase = "filled"
     /\ report' = <<[strategy |-> Compute(records, curve), curve |-> curve,
                     benchmark |-> Benchmark(plan, bars)]>>
     /\ End(0)
     /\ UNCHANGED <<plan, bars, readings, windows, records, earlier>>

(* The same command line again, one bar later. *)
RunAgain ==
  /\ phase = "ended" /\ report # <<>> /\ Len(bars) < plan.length
  /\ \E bar \in Feed(plan.feed) : bars' = Append(bars, bar)
  /\ earlier' = records
  /\ phase' = "replay" /\ exit' = -1
  /\ windows' = <<>> /\ records' = <<>> /\ report' = <<>>
  /\ UNCHANGED <<plan, readings>>

Next ==
  \/ Fetch \/ NothingToReplay \/ StartReplay \/ Read \/ Walk \/ CountOnly
  \/ FillSim \/ Metrics \/ RunAgain
  \/ \E t \in 0..plan.length : Drill(t)

Spec == Init /\ [][Next]_vars

-----------------------------------------------------------------------------
(* Properties *)

WithIdea == {j \in DOMAIN windows : windows[j] # NoIdea}

(* Every idea a strategy lets out of finalize_ideas can be traded as       *)
(* documented (contracts.py): the stop is on the losing side and at least  *)
(* 2% away although no validator looks at its side, the three targets lie  *)
(* beyond the entry in order, the third is 5% away after rounding, and the *)
(* reported ratios of reward to risk, from the unrounded targets, exist    *)
(* and increase.                                                           *)
IdeasAreTradeable ==
  \A j \in WithIdea :
    LET i == windows[j]
        s == Sign(i.dir)
    IN /\ 50 * s * (i.entry - i.stop) >= i.entry
       /\ s * i.entry < s * i.tp[1] /\ s * i.tp[1] < s * i.tp[2] /\ s * i.tp[2] < s * i.tp[3]
       /\ 20 * s * (i.tp[3] - i.entry) >= i.entry
       /\ \A k \in 1..2 : RewardToRisk(i)[k][1] < RewardToRisk(i)[k + 1][1]
       /\ i.conviction \in plan.floor..5

(* The result a real bracket would have had in the exit bar, if its price  *)
(* went from the open to first, and then to the other extreme: an open     *)
(* beyond a level is the price of the exit.                                *)
RealPnl(r, first) ==
  LET idea == r.idea
      bar == bars[r.exitBar]
      entry == EntryPrice(idea.dir, bars[r.bar + 1].open)
      s == Sign(idea.dir)
      stopFirst == StopHit(idea, bar) /\ (first = "stop" \/ ~TargetHit(idea, bar))
      price == IF s * bar.open <= s * idea.stop \/ s * bar.open >= s * idea.tp[1] THEN bar.open
               ELSE IF stopFirst THEN idea.stop ELSE idea.tp[1]
  IN s * (price - entry) - Fee(entry)

(* FillSimulator assumes "the conservative (adverse) outcome": a closed    *)
(* trade never reports more than a real bracket would have made on either  *)
(* path through the exit bar, unless that bar opened beyond the stop.      *)
ConservativeUnlessGap ==
  \A k \in DOMAIN records :
    LET r == records[k]
        gap == Sign(r.idea.dir) * (bars[r.exitBar].open - r.idea.stop) <= 0
    IN r.status = "filled" /\ ~gap
         => \A first \in {"stop", "target"} : r.pnl <= RealPnl(r, first)

(* No look-ahead: the same command run again one bar later repeats every   *)
(* trade of the run before, with the same idea; a trade that had left the  *)
(* market left the same way, and one that had not leaves on the new bar or *)
(* not at all.                                                             *)
NoLookahead ==
  phase = "filled" =>
    \A k \in DOMAIN earlier :
      /\ k \in DOMAIN records
      /\ earlier[k].bar = records[k].bar /\ earlier[k].idea = records[k].idea
      /\ IF earlier[k].status = "filled" THEN records[k] = earlier[k]
         ELSE records[k].exitBar \in {NoBar, Len(bars)}

(* The answers of a metrics run agree: the curve ends at the total the     *)
(* fill summary reports, has a point for each point of the benchmark once  *)
(* a trade was closed, and its drawdown covers the fall from any bar to    *)
(* any later one, as long as the curve is not negative.                    *)
MetricsAgree ==
  \A k \in DOMAIN report :
    LET m == report[k].strategy
        curve == report[k].curve
    IN /\ m.gain = TotalPnl(records)
       /\ Len(curve) \in {1, Len(report[k].benchmark)}
       /\ \A i, j \in DOMAIN curve :
            i < j /\ curve[i] > 0 /\ curve[j] >= 0
              => ((curve[i] - curve[j]) * 100) \div curve[i] <= m.drawdown
=============================================================================
