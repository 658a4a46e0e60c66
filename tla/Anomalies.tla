----------------------------- MODULE Anomalies -----------------------------
(***************************************************************************)
(* bug-scan's detectors (skills/bug-scan/lib.py) and the chop score        *)
(* (analysis/signals/chop.py).  A scan looks at CELLS: what the L2 skills  *)
(* and the L3 strategies said of one ticker on one timeframe.  Weights are *)
(* in 1e-4.                                                                *)
(***************************************************************************)
EXTENDS Strategies

CONSTANTS
  NoFrames,    \* an input that carries no cells
  Window,      \* ticks the chop score looks back
  Cap          \* ideas the history holds

ASSUME WindowAssumption == Window \in Nat \ {0} /\ Cap \in Nat \ {0}

L2Skill == {"accumulation", "breakout", "exhaustion", "sweep", "quality"}

-----------------------------------------------------------------------------
(* What an L2 skill returns of a bar *)

Row(class, vote, weights) ==
  [present |-> class # "none", class |-> class, on |-> Cardinality(On(vote)),
   weight |-> Weight(vote, weights), total |-> SumFunction(weights)]

SkillRow(skill, b, m) ==
  CASE skill = "accumulation" -> Row(Accumulation(b, m).class, AccumulationVote(b, m), AccumulationWeights)
    [] skill = "breakout" -> Row(Breakout(b, m).class, BreakoutVote(b, m), BreakoutWeights)
    [] skill = "exhaustion" -> Row(Exhaustion(b).class, ExhaustionVote(b), ExhaustionWeights)
    [] skill = "sweep" -> Row(Sweep(b).class, SweepVote(b), SweepWeights)
    [] skill = "quality" -> Row(TrendQuality(b, m).class, QualityVote(b, m), QualityWeights)

Fired(row) == row.present /\ row.class # "none"

-----------------------------------------------------------------------------
(* Detectors *)

Finding(tag, shape, ticker, frames, skill) ==
  [tag |-> tag, shape |-> shape, ticker |-> ticker, frames |-> frames, skill |-> skill]

(* _scan_l2_skill: the shapes a row shows.  The second and the third ask   *)
(* for the classification as l2_classification reads it and as it is.      *)
Shapes(row) ==
  {s \in {"weight_drift"} : Magnitude(row.total - 10000) > 500}
  \cup {s \in {"pattern_b_1"} : ~Fired(row) /\ row.on >= 2 /\ row.weight > 3000}
  \cup {s \in {"pattern_b_2"} : row.present /\ ~Fired(row) /\ row.on >= 1}
  \cup {s \in {"pattern_b_3"} : ~row.present /\ row.class # "none"}

TagOf(shape) == IF shape = "weight_drift" THEN "DRIFT" ELSE "BUG"

ScanL2(cells) ==
  UNION {UNION {{Finding(TagOf(s), s, c.ticker, {c.frame}, k) : s \in Shapes(c.skills[k])} :
                  k \in DOMAIN c.skills} : c \in cells}

(* _scan_l3_strategy: six ideas and none of conviction four.               *)
Skewed(ideas) == Len(ideas) >= 6 /\ \A i \in DOMAIN ideas : ideas[i].conviction < 4

ScanL3(cells) ==
  UNION {{Finding("INFO", "l3_calibration_skew", c.ticker, {c.frame}, k) :
            k \in {j \in DOMAIN c.strategies : Skewed(c.strategies[j])}} : c \in cells}

(* _dominant_idea_direction: the side with the greater sum of convictions  *)
(* of at least two, none on a tie.                                         *)
Pull(ideas, dir) ==
  SumFunction([i \in DOMAIN ideas |->
                 IF ideas[i].dir = dir /\ ideas[i].conviction >= 2 THEN ideas[i].conviction ELSE 0])
Dominant(ideas) ==
  IF Pull(ideas, "long") > Pull(ideas, "short") THEN "long"
  ELSE IF Pull(ideas, "short") > Pull(ideas, "long") THEN "short" ELSE "none"

Healthy == {"HEALTHY_UPTREND", "HEALTHY_PULLBACK_UPTREND", "HEALTHY_DOWNTREND"}
Failing == {"WEAKENING", "DEGRADING"}
Contradict(a, b) == (a \in Healthy /\ b \in Failing) \/ (b \in Healthy /\ a \in Failing)

Siblings(cells) == {p \in cells \X cells : p[1].ticker = p[2].ticker /\ p[1].frame # p[2].frame}

CrossFrames(cells) ==
  (UNION {{Finding("INFO", "cross_tf_contradiction", p[1].ticker, {p[1].frame, p[2].frame}, k) :
             k \in {j \in DOMAIN p[1].skills \cap DOMAIN p[2].skills :
                      Contradict(p[1].skills[j].class, p[2].skills[j].class)}} : p \in Siblings(cells)})
  \cup
  (UNION {{Finding("INFO", "cross_tf_direction_conflict", p[1].ticker, {p[1].frame, p[2].frame}, k) :
             k \in {j \in DOMAIN p[1].strategies \cap DOMAIN p[2].strategies :
                      {Dominant(p[1].strategies[j]), Dominant(p[2].strategies[j])} = {"long", "short"}}} :
            p \in Siblings(cells)})

Detect(cells) == ScanL2(cells) \cup ScanL3(cells) \cup CrossFrames(cells)

-----------------------------------------------------------------------------
(* Inputs read from a file.  A payload says how its cells are laid out:    *)
(* flat or by timeframe under the keys skills and strategies; under l2 and *)
(* l3, as run-watchlist writes them; under data, as every runner prints    *)
(* them; or it holds findings, or the state tracker's open ones.           *)

(* envelope_from_json: what it finds of a payload.                         *)
CellsOf(payload) == IF payload.layout \in {"flat", "frames"} THEN payload.cells ELSE {}

Translate(entry) == Finding(entry.tag, "state_tracker", NoFrames, {}, NoFrames)

(* scan: findings are passed on, a state tracker is translated, anything   *)
(* else is searched.                                                       *)
ScanPayload(payload) ==
  IF payload.layout = "findings" THEN payload.open
  ELSE IF payload.layout = "tracker" THEN {Translate(e) : e \in payload.open}
  ELSE Detect(CellsOf(payload))

-----------------------------------------------------------------------------
(* The history of ideas: a sequence of [tick, conviction].                 *)

(* Mutant: the first entries are kept. *)
Appended_Oldest(history, tick, ideas) ==
  LET all == history \o [i \in DOMAIN ideas |-> [tick |-> tick, conviction |-> ideas[i].conviction]]
  IN SubSeq(all, 1, IF Len(all) > Cap THEN Cap ELSE Len(all))

(* append_tick: at most the last Cap entries are kept.                     *)
Appended(history, tick, ideas) ==
  LET all == history \o [i \in DOMAIN ideas |-> [tick |-> tick, conviction |-> ideas[i].conviction]]
  IN SubSeq(all, IF Len(all) > Cap THEN Len(all) - Cap + 1 ELSE 1, Len(all))

TicksIn(history) == {history[i].tick : i \in DOMAIN history}
FirstAt(history, tick) == Min({i \in DOMAIN history : history[i].tick = tick})

(* The last Window ticks, in the order of their first entries.             *)
RecentTicks(history) ==
  {t \in TicksIn(history) :
     Cardinality({u \in TicksIn(history) : FirstAt(history, u) > FirstAt(history, t)}) < Window}

NoChop == [low |-> 0, count |-> 0]

(* chop_score_from_history: how many of the ideas of the last Window ticks *)
(* have a conviction of at most two; nothing before there are that many.   *)
Chop(history) ==
  LET recent == {i \in DOMAIN history : history[i].tick \in RecentTicks(history)}
  IN IF Cardinality(TicksIn(history)) < Window THEN NoChop
     ELSE [low |-> Cardinality({i \in recent : history[i].conviction <= 2}), count |-> Cardinality(recent)]
============================================================================
