-------------------------- MODULE BacktestPipeline --------------------------
(***************************************************************************)
(* The nightly backtest pipeline (skills/backtest-pipeline/scripts/run.py) *)
(* and the conviction gate that reads what it writes                       *)
(* (analysis/signals/conviction_thresholds.py).                            *)
(*                                                                         *)
(* A night loads the rolling state, measures every (interval, strategy,    *)
(* ticker) pair in a child process, appends a run record, writes six       *)
(* artifacts one after the other and saves the state last.  Nothing takes  *)
(* a lock and no file is replaced atomically: a manual run may overlap the *)
(* cron run, and a kill may truncate the file being written.               *)
(*                                                                         *)
(* An artifact is abstracted to the night whose results it was computed    *)
(* from; Floors, Keep and Empty say what the properties need of its        *)
(* payload.  A pair's metrics are abstracted to the classes of Outcomes.   *)
(***************************************************************************)
EXTENDS Integers, SequencesExt

CONSTANTS
  Runs,        \* processes that may run the pipeline: the cron job, an operator
  Combos,      \* grid entries: [key, strategy, interval, prefix, symbol]
  Grids,       \* what --baskets and the watchlist may select; {} is a broken watchlist
  Offer,       \* Offer[c]: the outcomes the market may offer for combo c
  MinTrades,   \* MARKET_SKILLS_BACKTEST_PIPELINE_MIN_TRADES
  Window,      \* nights kept per pair in the rolling baseline (7 in the code)
  Conviction,  \* the highest conviction a strategy gives an idea
  Providers,   \* provider prefixes an emit path may put before a symbol
  MaxNights,   \* bound: nights started
  MaxKills     \* bound: runs killed

ASSUME PipelineAssumption ==
  /\ \A c \in Combos : Offer[c] # {} /\ c.prefix \in Providers
  /\ Grids \subseteq SUBSET Combos
  /\ MinTrades \in Nat /\ MaxKills \in Nat
  /\ Window \in Nat \ {0} /\ MaxNights \in Nat \ {0}
  /\ Conviction \in 1..98

VARIABLES
  nights,   \* nights started so far
  pc,       \* the phase each run is in
  own,      \* the night each run is working on
  loaded,   \* the rolling baseline each run read when it began
  state,    \* the rolling baseline on disk, or how its file is damaged
  disk,     \* the night each artifact was written from, or Absent, Blank, Torn
  log,      \* the nights recorded in runs.jsonl
  results,  \* the run record's results of each measured night
  market,   \* what the market offered that night (ghost)
  disturbed,\* nights killed or overlapped by another run (ghost)
  kills     \* runs killed so far

vars == <<nights, pc, own, loaded, state, disk, log, results, market,
          disturbed, kills>>

Night == 1..MaxNights
Absent == 0    \* there is no such file
Blank == -1    \* the file was opened for writing and holds nothing
Torn == -2     \* the file holds a prefix of its text

Order == <<"thresholds", "matrix", "regime", "skip", "hold", "brief">>
Artifacts == ToSet(Order)
Guarded == Artifacts \ {"regime", "hold"}

-----------------------------------------------------------------------------
(* What one engine child reports: no record at all (error or timeout), too *)
(* few forward bars to count, a destroyed curve, or a Sharpe and a number  *)
(* of trades, which are fewer than the guard asks for, none, or enough.    *)
(* Sharpe ratios are in tenths.                                            *)

NoRecord == {"error"}
Outcomes == {"error", "short", "bankrupt", "few", "silent", "losing", "weak",
             "strong"}

Sharpe == [few |-> 10, silent |-> 0, losing |-> -5, weak |-> 2, strong |-> 5,
           short |-> 0]
Trades == [few |-> MinTrades - 1, silent |-> 0, losing |-> MinTrades,
           weak |-> MinTrades, strong |-> MinTrades, short |-> 0,
           bankrupt |-> MinTrades]

(* The pairs of a night that carry evidence: a record that is not          *)
(* insufficient_data, and among those the ones with a number for a Sharpe. *)
Measured(res) == {c \in DOMAIN res : res[c] \notin NoRecord \cup {"short"}}
Numbered(res) == {c \in Measured(res) : res[c] # "bankrupt"}

(* A minimum of 0 switches the guard off. *)
Withheld(res) ==
  {c \in Measured(res) : MinTrades > 0 /\ Trades[res[c]] < MinTrades}

FloorOf(res, c) ==
  IF res[c] = "bankrupt" \/ c \in Withheld(res) THEN 99
  ELSE IF Sharpe[res[c]] >= 5 THEN 1 ELSE IF Sharpe[res[c]] > 0 THEN 4 ELSE 99

(* Two watchlist keys may name one provider ticker; the table is keyed by  *)
(* the provider ticker and the smaller floor stays.                        *)
Entry(c) == [strategy |-> c.strategy, interval |-> c.interval,
             prefix |-> c.prefix, symbol |-> c.symbol]

Floors(res) ==
  [e \in {Entry(c) : c \in Measured(res)} |->
     Min({FloorOf(res, c) : c \in {d \in Measured(res) : Entry(d) = e}})]

Ticker(c) == <<c.prefix, c.symbol>>

(* Mutant: a ticker is kept only when every pair of it was profitable. *)
Keep_AllPositive(res) ==
  {Ticker(c) : c \in {d \in Numbered(res) :
     \A x \in Numbered(res) : Ticker(x) = Ticker(d) => Sharpe[res[x]] > 0}}

Keep(res) == {Ticker(c) : c \in {d \in Numbered(res) : Sharpe[res[d]] > 0}}

-----------------------------------------------------------------------------
(* The consumer: lookup_min_conviction over the thresholds file.           *)

GlobalMin == 1

(* A query holds a provider prefix or "none".  Stored keys with its symbol *)
(* are candidates; the query's own prefix is preferred; candidates that    *)
(* disagree are never guessed between.                                     *)
Lookup(table, s, i, prefix, symbol) ==
  LET same == {e \in DOMAIN table :
                 e.strategy = s /\ e.interval = i /\ e.symbol = symbol}
      mine == {e \in same : e.prefix = prefix}
      distinct == {table[e] : e \in IF mine # {} THEN mine ELSE same}
  IN IF Cardinality(distinct) = 1 THEN CHOOSE v \in distinct : TRUE
     ELSE GlobalMin

(* Mutant: the child keeps this pipeline's own environment. *)
ChildGate_Inherited == "on"

(* The environment of the engine child switches the gate off. *)
ChildGate == "off"

ChildFloor(c) ==
  IF ChildGate = "off" \/ disk["thresholds"] \notin Night THEN GlobalMin
  ELSE Lookup(Floors(results[disk["thresholds"]]), c.strategy, c.interval,
              c.prefix, c.symbol)

(* With a floor no idea reaches, the child emits none and trades nothing. *)
ChildResult(c, offered) ==
  IF offered \in {"error", "short"} \/ ChildFloor(c) <= Conviction
  THEN offered ELSE "silent"

-----------------------------------------------------------------------------
(* The rolling baseline. *)

(* Mutant: the oldest nights are kept and the newest dropped. *)
Recent_Oldest(h) == SubSeq(h, 1, Min({Window, Len(h)}))

Recent(h) == SubSeq(h, Max({1, Len(h) - Window + 1}), Len(h))

Updated(base, res, n) ==
  [c \in Combos |->
     IF c \in DOMAIN res /\ c \in Numbered(res)
     THEN Recent(Append(base[c], [night |-> n, sharpe |-> Sharpe[res[c]]]))
     ELSE base[c]]

-----------------------------------------------------------------------------
(* _is_empty_artifact: emptiness is judged artifact by artifact. *)
Empty(a, res) ==
  CASE a = "thresholds" -> Measured(res) = {}
    [] a = "matrix" -> Numbered(res) = {}
    [] a = "skip" -> Numbered(res) = {}
    [] a = "brief" -> Numbered(res) = {}
    [] OTHER -> FALSE

(* Mutant: the payload is written whatever it holds. *)
KeepsPrevious_Never(a, res) == FALSE

KeepsPrevious(a, res) == Empty(a, res) /\ disk[a] \notin {Absent, Blank}

Init ==
  /\ nights = 0
  /\ pc = [r \in Runs |-> "off"]
  /\ own = [r \in Runs |-> 0]
  /\ loaded = [r \in Runs |-> [c \in Combos |-> <<>>]]
  /\ state = [ok |-> TRUE, base |-> [c \in Combos |-> <<>>]]
  /\ disk = [a \in Artifacts |-> Absent]
  /\ log = {}
  /\ results = [n \in Night |-> <<>>]
  /\ market = [n \in Night |-> <<>>]
  /\ disturbed = {}
  /\ kills = 0

Active == {r \in Runs : pc[r] # "off"}

(* main: the state file is read before anything else, then the watchlist.  *)
(* A run that starts while another is active disturbs both.                *)
Begin(r, grid) ==
  /\ pc[r] = "off" /\ nights < MaxNights
  /\ state.ok /\ grid # {}
  /\ nights' = nights + 1
  /\ own' = [own EXCEPT ![r] = nights + 1]
  /\ loaded' = [loaded EXCEPT ![r] = state.base]
  /\ results' = [results EXCEPT ![nights + 1] = [c \in grid |-> "error"]]
  /\ pc' = [pc EXCEPT ![r] = "measure"]
  /\ disturbed' = IF Active = {} THEN disturbed
                  ELSE disturbed \cup {nights + 1} \cup {own[q] : q \in Active}
  /\ UNCHANGED <<state, disk, log, market, kills>>

(* A damaged state file ends the run with a traceback; an unavailable      *)
(* watchlist or an empty grid ends it with exit code 1.  Neither has       *)
(* written anything.                                                       *)
Refused(r) ==
  /\ pc[r] = "off" /\ nights < MaxNights
  /\ ~state.ok \/ {} \in Grids
  /\ nights' = nights + 1
  /\ UNCHANGED <<pc, own, loaded, state, disk, log, results, market,
                 disturbed, kills>>

(* The grid loop: one child per pair, hours between the first and the last. *)
Measure(r) ==
  LET n == own[r] IN
  /\ pc[r] = "measure"
  /\ \E offered \in {f \in [DOMAIN results[n] -> Outcomes] :
                       \A c \in DOMAIN f : f[c] \in Offer[c]} :
       /\ market' = [market EXCEPT ![n] = offered]
       /\ results' = [results EXCEPT ![n] =
                        [c \in DOMAIN offered |-> ChildResult(c, offered[c])]]
  /\ pc' = [pc EXCEPT ![r] = "log"]
  /\ UNCHANGED <<nights, own, loaded, state, disk, log, disturbed, kills>>

(* _append_run_log, before any artifact. *)
AppendLog(r) ==
  /\ pc[r] = "log"
  /\ log' = log \cup {own[r]}
  /\ pc' = [pc EXCEPT ![r] = Order[1]]
  /\ UNCHANGED <<nights, own, loaded, state, disk, results, market,
                 disturbed, kills>>

NextPhase(a) ==
  LET k == CHOOSE j \in 1..Len(Order) : Order[j] = a
  IN IF k = Len(Order) THEN "save" ELSE Order[k + 1]

(* One artifact writer.  The regime file and the hold-regime file are      *)
(* rewritten every night; the others keep a previous file rather than      *)
(* replace it by an empty payload.                                         *)
WriteArtifact(r, a) ==
  /\ pc[r] = a
  /\ disk' = IF KeepsPrevious(a, results[own[r]]) THEN disk
             ELSE [disk EXCEPT ![a] = own[r]]
  /\ pc' = [pc EXCEPT ![r] = NextPhase(a)]
  /\ UNCHANGED <<nights, own, loaded, state, log, results, market,
                 disturbed, kills>>

(* _update_baseline on the copy read at the start, then _save_state. *)
SaveState(r) ==
  /\ pc[r] = "save"
  /\ state' = [ok |-> TRUE,
               base |-> Updated(loaded[r], results[own[r]], own[r])]
  /\ pc' = [pc EXCEPT ![r] = "off"]
  /\ loaded' = [loaded EXCEPT ![r] = [c \in Combos |-> <<>>]]
  /\ own' = [own EXCEPT ![r] = 0]
  /\ UNCHANGED <<nights, disk, log, results, market, disturbed, kills>>

(* The process is killed.  The file it is writing may be left as it was,   *)
(* truncated to nothing, or cut short.                                     *)
Kill(r) ==
  /\ r \in Active /\ kills < MaxKills
  /\ kills' = kills + 1
  /\ \/ UNCHANGED <<disk, state>>
     \/ /\ pc[r] \in Artifacts /\ ~KeepsPrevious(pc[r], results[own[r]])
        /\ \E left \in {Blank, Torn} : disk' = [disk EXCEPT ![pc[r]] = left]
        /\ UNCHANGED state
     \/ /\ pc[r] = "save"
        /\ state' = [ok |-> FALSE, base |-> [c \in Combos |-> <<>>]]
        /\ UNCHANGED disk
  /\ disturbed' = disturbed \cup {own[r]}
  /\ pc' = [pc EXCEPT ![r] = "off"]
  /\ loaded' = [loaded EXCEPT ![r] = [c \in Combos |-> <<>>]]
  /\ own' = [own EXCEPT ![r] = 0]
  /\ UNCHANGED <<nights, log, results, market>>

Next ==
  \E r \in Runs :
    \/ \E grid \in Grids : Begin(r, grid)
    \/ Refused(r) \/ Measure(r) \/ AppendLog(r)
    \/ \E a \in Artifacts : WriteArtifact(r, a)
    \/ SaveState(r) \/ Kill(r)

Spec == Init /\ [][Next]_vars

-----------------------------------------------------------------------------
(* Types.  An artifact's content is the night whose results it holds.      *)

Phases == {"off", "measure", "log", "save"} \cup Artifacts
Baselines == [Combos -> Seq([night : Night, sharpe : Int])]

TypeOK ==
  /\ nights \in 0..MaxNights /\ kills \in Nat
  /\ pc \in [Runs -> Phases] /\ own \in [Runs -> 0..MaxNights]
  /\ loaded \in [Runs -> Baselines] /\ state \in [ok : BOOLEAN, base : Baselines]
  /\ disk \in [Artifacts -> Night \cup {Absent, Blank, Torn}]
  /\ log \subseteq Night /\ disturbed \subseteq Night
  /\ \A f \in {results, market} : DOMAIN f = Night /\ \A n \in Night :
       DOMAIN f[n] \subseteq Combos /\ \A c \in DOMAIN f[n] : f[n][c] \in Outcomes

-----------------------------------------------------------------------------
(* What a class is worth, stated of the market and not of the records: a   *)
(* destroyed curve, silence and a loss never trade, and a handful of       *)
(* trades only when no guard was asked for.                                *)
Worth(o) ==
  CASE o = "strong" -> 1
    [] o = "weak" -> 4
    [] o = "few" -> IF MinTrades = 0 THEN 1 ELSE 99
    [] OTHER -> 99

(* The gate decides by the market of the night that wrote the table.  A    *)
(* query that names a measured provider gets the best of what that ticker  *)
(* was worth; any other notation of the symbol gets the floor all its      *)
(* providers agree on, and the permissive floor only when they disagree.   *)
(* In particular last night's floor of 99 never silences tonight's         *)
(* measurement (the loop _engine_child_env exists to break).               *)
GateFollowsTheMarket ==
  disk["thresholds"] \in Night =>
    LET n == disk["thresholds"]
        table == Floors(results[n])
        seen == {c \in DOMAIN market[n] : market[n][c] \notin {"error", "short"}}
        worth(s) == Min({Worth(market[n][c]) : c \in s})
        of(c, p) == Lookup(table, c.strategy, c.interval, p, c.symbol)
    IN \A c \in seen :
         LET twin(d) == d.strategy = c.strategy /\ d.interval = c.interval
                          /\ d.symbol = c.symbol
             mine(p) == {d \in seen : twin(d) /\ d.prefix = p}
             all == {worth(mine(d.prefix)) : d \in {x \in seen : twin(x)}}
         IN \A p \in Providers \cup {"none"} :
              of(c, p) = IF mine(p) # {} THEN worth(mine(p))
                         ELSE IF Cardinality(all) = 1
                         THEN CHOOSE v \in all : TRUE ELSE GlobalMin

(* Two consumers, two files: the conviction gate reads the thresholds and  *)
(* swing-scan reads the skip list.  While no run is active and both files  *)
(* come from nights that ran to the end alone, a ticker some strategy may  *)
(* trade is on the keep list, even when a degraded night made one of the   *)
(* files keep an older night than the other.                               *)
TradeableIsKept ==
  /\ Active = {}
  /\ {disk["thresholds"], disk["skip"]} \subseteq Night \ disturbed
  => \A e \in DOMAIN Floors(results[disk["thresholds"]]) :
       Floors(results[disk["thresholds"]])[e] < 99 =>
         <<e.prefix, e.symbol>> \in Keep(results[disk["skip"]])

(* A baseline that holds, per pair, nights in order with the Sharpe their  *)
(* run recorded, and that misses a measured night only when that night was *)
(* killed or overlapped, or when a full window of later nights pushed it   *)
(* out.                                                                    *)
Accounts(base) ==
  \A c \in Combos :
    LET h == base[c]
        has == {h[k].night : k \in DOMAIN h}
        numbered == {n \in log \ {own[r] : r \in Runs} :
                       c \in DOMAIN results[n] /\ c \in Numbered(results[n])}
    IN /\ \A j, k \in DOMAIN h : j < k => h[j].night < h[k].night
       /\ has \subseteq numbered
       /\ \A k \in DOMAIN h : h[k].sharpe = Sharpe[results[h[k].night][c]]
       /\ \A n \in numbered \ (has \cup disturbed) :
            Len(h) = Window /\ \A m \in has : m > n

(* The state file is such a baseline unless a kill has damaged it.         *)
BaselineMissesOnlyDisturbed == state.ok => Accounts(state.base)

(* A degraded night never destroys the last good file: a guarded artifact  *)
(* with content is only ever replaced by one with content, unless a kill   *)
(* cuts the writing short.                                                 *)
LastGoodSurvives ==
  [][\A a \in Guarded :
       disk[a] \in Night /\ ~Empty(a, results[disk[a]]) =>
         \/ disk'[a] \in Night /\ ~Empty(a, results'[disk'[a]])
         \/ kills' > kills]_vars
=============================================================================
