# market-skills: TLA+ models and proofs

market-skills is a set of Python command-line "skills" driven by an LLM agent and
by cron. Signals are computed from candles, a strategy turns them into ideas, a
risk engine vets an intent, a submit places it with a venue and books the fill,
a sync copies the holdings into a watchdog's file, the watchdog reports stops and
levels, and a nightly pipeline of backtests sets the floors the strategies are
held to. There is no daemon: every part is a short-lived process, and several of
them share a venue, a SQLite database and a few JSON files with no other
coordination than what those give them. This directory models those parts, what
they write, and what they decide.

Run a model with `tlc -config <cfg> <module>` and the proofs with
`tlapm <module>Proofs.tla`; `FoldTheorems` is checked the same way.

## Inventory

| Component | State it keeps | Operations | What is hard | What makes it correct | Here |
|---|---|---|---|---|---|
| `execution-kraken-spot submit` (`skills/execution-kraken-spot`, `analysis/providers/execution/kraken_spot.py`) | none of its own; the venue's orders, the ledger | gates, place order, poll, book, exit code; cancel | lost and late replies, retries, kills, poll deadline, failed writes, concurrent submits | one row per order with its final volume, decision trace with the row, an exit code that tells what the ledger holds, termination | `SpotSubmit`, `FillLedger` |
| `execution-kraken-perps submit` (`skills/execution-kraken-perps`, `kraken_perps.py`) | the venue's position and protective orders | open, stop, rollback, take-profit | a multi-leg protocol where each leg can be lost, refused or answered late | no position left unprotected silently, errors that name the open order, termination | `PerpsBracket` |
| Portfolio ledger (`portfolio/db`) | portfolios, transactions, decisions | create, delete, add, add with decision, remove; FIFO, cash row, P&L, replay | rows inserted out of order and removed, over-sells, failed deletes, views over several portfolios | lots are the latest purchases, equity equals what explains it, two FIFOs agree | `Ledger` |
| `portfolio-mgmt` (`skills/portfolio-mgmt`) | the price cache | the reading commands | each computes its view on its own | the views agree, and belong to the portfolio asked for | `Reports` |
| Open-positions sync (`portfolio/sync.py`) | the watchdog's JSON config | read, plan, atomic replace | torn snapshots, lost updates against editors and other syncs | drops only flat positions, leaves nothing held unwatched and unreported, repairs what a race left | `OpenPositionsSync` over `Ledger` |
| `position-watchdog` | one JSON state file per watch | tick: fetch, staleness, levels, strategy signals, venue stop fills, save, exit code | outages, kills between alert and save, dedup across restarts, recreated watches | what the file calls alerted was heard, once; an outage is fatal exactly when it is one | `Watchdog` |
| Risk engine (`analysis/risk`, `skills/risk-engine`) and the drawdown peak (`portfolio/db/positions.py`) | the high-water mark | build the context, maintain the mark, twelve policies, verdict merge | torn reads, an unlocked mark, missing data, several scaling policies | the context is one picture, the mark is an equity that was, a suggested volume passes | `RiskEngine` |
| Backtest pipeline and conviction thresholds (`skills/backtest-pipeline`, `analysis/signals/conviction_thresholds.py`) | rolling state, six artifacts, `runs.jsonl` | measure the grid, write, save; look up a floor | a feedback loop through the child's environment, degraded nights, overlap, kills | floors follow the market, good files survive, two consumers agree | `BacktestPipeline` |
| L1 trend, L2 detectors (`skills/market-*`) | none | classify a bar | thresholds and weights in six files | see the strategies and bug-scan | `Signals` |
| L3 strategies, idea contract (`skills/strategy-*`, `analysis/contracts.py`) | none | build, round, ladder, gate an idea | rounding and clamping after validation | every idea can be traded as documented | `Strategies` |
| Backtest engine (`skills/backtest-engine`) | none | replay, fills, metrics, drill | look-ahead, both levels in one bar, several exits in one bar | nothing depends on later bars, fills are conservative, the metrics agree | `Backtest` |
| Batch runners (`run-all-l2`, `run-all-l3`, `run-watchlist`, `l3-conviction-scan`, the strategies' own CLIs), `bug-scan` and the chop score | history of ideas, last result for the home view | resolve, fetch, run skills, cap and rank, detect, rewrite files | two argument parsers in turn, files rewritten in place, thresholds repeated in another file | the ranking keeps the strongest, no ticker disappears, the score is that of the window, detectors and bug-scan agree | `Scan`, `Anomalies` |
| Watchlist (`analysis/watchlist*.py`, `market-watchlist`) | a JSON registry, read only | list, show, tickers, resolve, validate, alias expansion | ambiguous aliases, a ticker in two baskets | scopes are covered, tiers 1 and 2 never skipped | `Watchlist` |
| Notes (`analysis/notes*.py`, `market-notes`) | `notes.json` | add, list, remove, prune, migrate | whole-file rewrites through one temporary name, positions as handles, legacy fields | no partial book is published, the listed note is the removed one | `Notes` |
| AFK gates and circuit breaker (`analysis/risk/afk.py`) | one JSON file | gate, record, reset | check before use | | not modelled, see below |
| Data providers, indicators, macro, valuation, movers, heatmap, formatting | caches of one process | fetch, compute, print | numeric | numeric | not modelled, see below |

How they interact. `Scan` composes `Watchlist`, `Notes` and `Anomalies`, which
rests on `Strategies` and `Signals`; `Backtest` replays `Strategies`; the sync
extends `Ledger`, whose actions are its environment; `SpotSubmit` implements
`FillLedger`, and its committed row is `Ledger`'s `AddTransactionWithDecision`.
`BacktestPipeline` and `Strategies` meet in the conviction floor: the pipeline
decides it, a strategy is gated by it (`plan.floor`, `Floor`). `RiskEngine` has
its own fills and prices because its subject is what a vet sees while they change.
Every interaction in the code is through the venue, the database, or a file that
is read, changed and replaced.

`PROJECT.json` lists the hazards, each at its line, with the property that
covers it or the reason none does.

## Modules

| Module | What it is |
|---|---|
| `FillLedger` | abstract specification: an order executes, settles, and is then booked at most once and in full |
| `SpotSubmit`, `SpotSubmitProofs` | the spot submit path with the venue and the caller as environment, a refinement of `FillLedger`; theorems |
| `PerpsBracket`, `PerpsBracketProofs` | the perps submit path; theorems |
| `Ledger`, `Reports` | the transaction stream and every view of it; the reading commands |
| `OpenPositionsSync`, `LedgerProofs` | the sync, an extension of `Ledger`; theorems about both and about `Reports` |
| `Watchdog`, `WatchdogProofs` | the scheduled tick; theorems |
| `RiskEngine`, `RiskEngineProofs` | context, high-water mark, policies, verdict; theorems |
| `BacktestPipeline`, `BacktestPipelineProofs` | the night, its artifacts, and the floor lookup; theorems |
| `Signals`, `Strategies`, `Backtest` | detectors and strategies as functions of a bar; the backtest engine |
| `Watchlist`, `Notes`, `Anomalies`, `Scan` | registry, notebook, bug-scan's detectors and the chop score, and the runners that use them |
| `SignalProofs` | theorems about the strategies, the backtest engine, the runners and the notebook |
| `FoldTheorems` | what sums over finite sets and folds over sequences compute, and the inductions the other proofs use |
| `MC*` | model values, instances and symmetry for TLC |

### SpotSubmit

`pc[r]` is where invocation `r` of `submit` is. The steps follow the code:
`preflight` is everything up to the venue call (the gates' verdicts are free:
`Refuse`, `Decline`, `Proceed`); `send`/`sent` is the one `kraken order` call;
`poll` is `_poll_fill`'s loop, `polls[r]` the iterations that still fit before the
deadline (how many fit is not known in advance, so any number up to `MaxPolls`);
`confirmed` is `cmd_submit` with a `FillConfirmation` in hand (`conf[r]`, its
status after `normalise_venue_status` and its filled volume); `begin`,
`decision`, `row`, `commit` are the statements of `add_transaction_with_decision`
inside `BEGIN IMMEDIATE`, `txn` the uncommitted transaction; `report` is the
held-file sync and the output. `ended` carries the exit code `rc[r]`; `lost` is a
process that was killed. A ledger row is `[run, intent, qty]`: the row's timestamp
is the invocation's own clock, which is why two invocations of one order never
collide on the table's uniqueness constraint and why the row can be named by
the invocation.

The environment: a request may reach the venue at any later time or never
(`inflight`), even after its sender has given up; a client order id already
known gives the original order back; an open order executes unit by unit and
ends under any label of `EndLabels`, whatever it has executed (a cancel is one
such end). The caller starts an invocation of an intent only when every earlier
invocation of it is `Retryable`: status `error` or `rejected`, or exit 2, which
is what `LLM-ORCHESTRATION.md` section 3 lets it retry. With `RetryLost` the caller
also retries an invocation whose output it never saw.

### PerpsBracket

`pc[r]` names the leg the invocation is at; a leg is first sent (`asked`, `wire`),
then acknowledged (`placed`), refused (`refused`) or neither, and an invocation
may take a call for failed in all three cases, because a timeout looks the same
from inside. `pos`, `stops` and `tps` are the venue's position and resting
reduce-only orders in units of the order volume, for one symbol and long
brackets. The rollback order is not reduce-only, so `pos` can become negative.
`RefusalExits` says whether the CLI turns a refused order into a non-zero exit
(then the code sees a failure) or may answer with an error envelope and exit 0.

### Ledger and Reports

`txs` is the transactions table, a set of rows with AUTOINCREMENT ids; a decision
row is only the fact that its portfolio is referenced (`decided`), which is what
makes `DeletePortfolio` fail as a whole. The views are operators of a set of rows:
`Fifo` folds the stream in `(ts, id)` order into lots, realized profit, proceeds
and fees per key, `CashBalances` is the derived cash row, `Positions`, `Pnl`,
`Summary`, `Lots` and `ReplayFifo` are the functions of the same names, each as the
code computes it and not from another view. A command of `Reports` is its token
resolved as `get_portfolio` does (id first, then name), its price map, and its
view, or `Refused`.

### OpenPositionsSync

A sync reads the file, the transactions and the positions in three steps over
separate connections (`ReadConfig`, `ReadLedgerAssets`, `ReadPositions`), plans with
`Plan` and replaces the file whatever it is by then. `ElementState` decides one watch
(parked, ambiguous, unmatched, over-sold, flat, corrected), `Unwatched` is the
report. Fills, removals, an editor and another sync run in between. `clean[s]`
remembers whether anything did. The module extends `Ledger`: `SyncInit` is its
state with a first file, `SyncNext` a step of `Ledger`, of a sync or of an editor.

### Watchdog

`tick` is the running process: the watches still to do, what it has evaluated and
the alerts in its output buffer (`out`), which reach the reader (`heard`) when it
exits and die with it when it is killed (`lost`). `file[w]` is the saved state:
alerted levels, the recovery streak, the previous price, the venue fills seen, the
closure marker, the anchor `created`, the fetch window. `Evaluate` is
`_process_watch` whole, with the staleness rule that drops level alerts but not
venue fills; `FetchFails`/`RecordFailure` the failed fetch that re-stamps the
file; `Finish` the exit code. `tick.orders` is the venue's list of closed orders
(`ClosedOrder`) as the tick fetched it, once for all its watches. `past[w]` is
what really happened, against which the properties are stated.

### RiskEngine

A vet's reads are steps (`ReadLots`, `ReadCash`, and both again inside
`compute_portfolio_drawdown`, `SelectPeak`, `Rebase`, `RaisePeak`, `ReadTrades`),
between which fills, prices and other vets run. `Context` builds what
`build_context` returns, `Limits` lays the overrides of `policies.yaml` over the
defaults (`Applied`: a key that is there replaces the one below; global first,
then the portfolio's, then the pair's), `Fragments` evaluates the twelve policies,
`Suggested` and `Worst` merge them.

### BacktestPipeline

`pc[r]` walks a run through load, measure, log, six artifacts and save.
`ChildGate` is the floor the engine child applies while measuring; `Floors`,
`Keep` and `Empty` say what a night's results become (a result has its number of
trades relative to `MinTrades`, and the trade guard is off at 0, as in the code);
`KeepsPrevious` is the guard on empty payloads; `Lookup` is
`lookup_min_conviction`. Files are truncated and then written, so a kill leaves
`Torn`; `disturbed` marks nights that were killed or overlapped.

### Signals, Strategies and Backtest

A bar carries the candle and what the indicators say of the series up to it, as
facts on the detectors' side of their thresholds; `Signals` turns it into trend,
votes, weights, classifications and confidences, `Strategies` into ideas with
integer prices (millionths), including the decimal rounding, the target ladder
and its floors, the stop distance and the conviction gate. Both were compared with
the Python on 4,500 random rows: the two differ only where a binary fraction breaks
a decimal tie (`TiesUp` is that choice) and at one float boundary of the
trend-quality score. `Backtest` reads prefixes bar by bar, collects the windows,
simulates fills from the next bar's open to the first level touched, and computes
curve, benchmark and drawdown; `RunAgain` repeats the command on a series one bar
longer, which is how `NoLookahead` compares two runs.

### Watchlist, Notes, Anomalies and Scan

A runner goes from `Launch` (its whole command line, the fetch and the skills: pure
until the first write) through the writes its line asks for to `PrintReport`. The
history of ideas is read, truncated and written in three steps (`LoadHistory`,
`OpenHistory`, `WriteHistory`) and read again for the score (`ReadHistory`); the
home-view copy is truncated and written (`OpenView`, `CopyView`). `AxiStripped` is
`parse_axi_flags`, which runs before each skill's own parser. A cell is what was
said of one ticker on one timeframe; `Detect` is bug-scan over cells. `ticks`
remembers every run's convictions and `smudged` whether updates overlapped or one
was killed half-way. In `Notes` a file is an inode with a directory entry, because
`open` on the fixed temporary name truncates whatever is there, and the rename
moves whoever's content it has become; `ideal` is what the completed commands
amount to, one after the other. The notebook is edited while runners read it.

## Runs

| Run | Instance | Distinct states | Shows |
|---|---|---|---|
| `spot_submit` | 2 intents, 2 invocations, volume 2, 1 poll, labels filled and canceled, fair | 986,749 | types; rows are final fills; rows and decisions together; one row per order; the exit code tells the ledger; refinement of `FillLedger`; every submit ends |
| `spot_lost_retry` | `RetryLost`, volume 1 | until found | violation: a second row for one order |
| `perps_bracket` | 2 intents, 2 invocations, `RefusalExits`, fair | 834,113 | no unprotected position behind a reported bracket or rollback; every submit ends |
| `perps_refused_close` | `RefusalExits` false | until found | violation: a refused rollback reported as closed |
| `ledger` | 8 entries of two portfolios, one with a cash row and named by the digits of the other's id, up to 4 rows, 2 price maps | 35,984 | lots, replay, equity, views of all portfolios, and every reading command against every other |
| `sync` | 2 syncs, two starting ledgers and files, up to 3 rows, 1 edit or removal | 127,439 | nothing held is dropped, or left unwatched and unreported; an undisturbed sync is exact |
| `watchdog` | configurations of one held watch, one idea, or an idle one and an idea; clock to 2; 1 mishap; lookback 3, threshold 2 | 3,029,767 | alerts are heard, once, and only of this lifetime's orders; recoveries are confirmed; a fatal tick is an outage |
| `risk` | 2 vets, 2 assets, 1 fill, 1 quote, 3 first books, 12 policies | 1,637,523 | one picture in an undisturbed vet; an honest mark; a suggested volume passes; missing data is a concern |
| `pipeline` | 2 nights, a cron and a manual run, 1 kill, window 1, combos with alias and full keys | 1,564,322 | the gate follows the market, the keep list follows the gate, baselines miss only disturbed nights, good files survive |
| `backtest` | seven strategies over combinations of the facts they read; trend-follow over series of up to 5 bars of 7 shapes | 953,737 | ideas are tradeable; fills are conservative unless the bar gaps; no look-ahead; the metrics agree |
| `scan` | bug-scan over some 1,300 bars and 36 two-timeframe markets; 2 runners, 3 launches; every kind of command line over 4 registries and 24 markets; offline documents; 2 clerks, 3 errands | 168,596 | the chop score is the window's; bug-scan accuses no detector but one; the ranking keeps the strongest; a basket is covered; the notebook is exact; the listed note is removed |
| `scan_top` | run-all-l3 with `--top` 0, 1 and 2 | until found | violation: `--top=1` shows two ideas of a ticker |

The three violations are findings in `PROJECT.json` with the text each contradicts.

Bounds. Two invocations, syncs, vets, runs, runners or clerks are the least that
overlap, and every interleaving hazard here is between two of them; a third adds
a repetition of a race that is there. Two intents separate a retry from an
unrelated order; volume 2 is the least with a partial fill; one poll gives both a
poll that continues and a deadline; `filled` may come with nothing executed,
`canceled` with something, which is where label and volume disagree. Four rows
let a sale be over-sold, booked late and repaired; three in the sync are enough
for two keys of one ticker and a sale. In the watchdog two clock steps with
`StaleAfter` 1 make a fresh, a stale and a re-stamped file; a lookback of 3 with
threshold 2 lets a failure leave the window. One fill and one quote are each enough
to overtake a vet's reads between any two of them. Two nights and a window of 1
push a night out of the baseline. Five bars hold an entry, both exits and two
overlapping trades after the warm-up. Window 2 and cap 5 let a third run push the
first out of the score and the cap cut into a run. Deadlock is checked in `risk`,
where the clock goes on, and elsewhere not: the system stops when every process
has ended and every bound is used.

Fairness. Only the steps of a started submit are weakly fair: each subprocess
call has a timeout (30 s, 10 s in the poll), the poll loop has a monotonic deadline
and SQLite a busy timeout, so the process always gets on. The question to the operator has no timeout; it is
taken to be answered (`Decline` or `Proceed`). Nothing is assumed of the
venue, the caller, or kills. The other modules state no liveness: nothing in the
code promises that a cron job runs again, that a provider ever answers, or that a
person calls the sync, and their processes are straight-line code between
bounded calls.

## Theorems

All theorems hold for every value of the constants that satisfies the named
assumptions of the modules: every set of intents, invocations, watches, assets,
portfolios, vets, combos, runners and clerks, every number of polls, nights, bars,
rows and fills, every market, registry and command line. Every inductive invariant was first checked by TLC on the run of its
module.

| Module | Theorems |
|---|---|
| `SpotSubmitProofs` | `TypeCorrect`, `RowsAreFinalFills`, `RowsCarryDecisions`, `ExitCodesTellLedger`, `BookedOnce`, `ImplementsLedger` |
| `PerpsBracketProofs` | `TypeCorrect`, `LegsOrdered`, `ErrorsNameOrder`, `Protected` |
| `WatchdogProofs` | `TypeCorrect`, `NothingIsSwallowed`, `FillsAreReportedOnce`, `FillsAreNotForeign`, `RecoveriesAreConfirmed`, `FatalMeansOutage` |
| `BacktestPipelineProofs` | `TypeCorrect`, `BaselineIsComplete`, `DegradedNightsKeepTheLastGood`, `TradeableTickersAreKept`, `TheGateFollowsTheMarket` |
| `RiskEngineProofs` | `TypeCorrect`, `ThePeakIsHonest`, `AnUndisturbedVetIsExact`, `TheScaledIsAccepted`, `MissingDataIsNoLicence` |
| `SignalProofs` | `ReplayIsDetermined`, `IdeasTradeable`, `FillsAreConservative`, `ReplayDoesNotLookAhead`, `ReportedMetricsAgree`; `RemovedAsListed`, `NotebookStaysExact`; `AnomaliesOpposed`, `StrongestAreShown`, `TickersAreAccountedFor`, `ChopTellsTheWindow` |
| `LedgerProofs` | `TypeCorrect`, `LatestBuysAreHeld`, `ReplayTellsFifo`, `EquityIsAccountedFor`, `PortfoliosAreApart`, `CommandsTellOneStory`; `SyncTypeCorrect`, `HeldIsNeverDropped`, `HeldIsAccountedFor`, `AnUndisturbedSyncIsExact` |

### SpotSubmit

The safety properties are not inductive: that a row carries the final volume
depends on what the invocation's confirmation was when it was written. `IInv` adds
`TxnInv` (who holds the write transaction and what it has inserted so far),
`ConfInv` (a confirmation with a filled volume belongs to a finished order and
equals its execution, and only such a confirmation reaches the ledger steps),
`RowInv` (a row belongs to an invocation past its commit that exits 0, and such an
invocation has a row) and `RetryInv` (of two invocations of one intent one is
retryable, so has no row). One lemma per conjunct shows that every action
preserves it. From `IInv` follow `TypeCorrect`, `RowsAreFinalFills`,
`RowsCarryDecisions`, `ExitCodesTellLedger`; with the contract's retry rule
(`RetryLost = FALSE`) also `BookedOnce` and `ImplementsLedger`: a commit maps to
`Book`, an execution to `Execute`, an end to `Settle` and every other step to a
stutter, with `settled` mapped to "the order has left the book".

### PerpsBracket

`LegInv` says which legs an invocation at a given step can have sent; with it
`TypeCorrect`, `LegsOrdered` (a take-profit only behind an acknowledged stop,
never with a rollback), `ErrorsNameOrder` and, when the CLI fails on refused
orders, `Protected` follow. `MoveStep` proves once what all steps that only move
an invocation have in common.

### Watchdog

`IInv` relates the file, the running tick and the past. `TickInv`: a tick works at
the time it started, with orders as the venue has them. `HeldInv`: a fill or level
that the state about to be saved marks as new is in the tick's output or muted.
`FillInv`: a fill that was heard, or is in the output buffer, is among those the
file has seen or is about to save, or a save of this watch failed, so no later
tick chooses it again. `BirthInv`: a state does not reach back beyond the first
tick that looked at the watch. `StreakInv` and `WindowInv`: a saved recovery
streak was counted by prices above the entry, and the saved window is what
happened to the last fetches. A step preserves these watch by watch, so each
action has one lemma for the watch it treats and the rest is unchanged. `CountInv`
counts the failures of the watches already done; it needs that two enabled watches
have different names (`NamesAreUnique`, the hypothesis of `FatalMeansOutage`),
which `position-watchdog/SKILL.md:178` states and the code does not check: of
two of one name the tick counts one.

### BacktestPipeline

`NightInv`: each run works on a night of its own, logged before anything is
written, and a logged night's record is what the market offered. `TableInv`: while
an undisturbed night's floor table is on disk, the skip list is as old or that
night had nothing to keep. `BaseInv`: the baseline on disk and the copy a run
works on have nights in order, with the figures they had, and lack only nights
that left the window or were disturbed. The window is a sequence cut at the front,
and `Shifted` says how two nights' histories of one combo correspond. Given `IInv`
the four properties are about one night's results: the floor table and the keep
list are functions of them, so agreement is a property of `Floors`, `Keep` and
`Lookup`, including the alias prefixes two providers share.

### RiskEngine

`ReadInv` says what a vet has read at each of its steps (`Complete`), that what it
read is still true while it is undisturbed (`Fresh`), and that the drawdown's cash
is absent exactly when there is no cash row (`Booked`). `PeakInv` bounds the mark
by the best equity so far, unless reads were overtaken. `AnUndisturbedVetIsExact`
groups the sum over assets by tier (`SumGroups`): the total is the cash plus the
exposures of the tiers and what is held in assets without one (`Untiered`).
`TheScaledIsAccepted` shows for each policy that it is
monotone in the volume (what a smaller volume meets is no worse) and that its own
suggestion fits its own cap, in whole-number arithmetic with the code's rounding
down; the merged suggestion is the least of them, so it fits all. It needs that
limits are not negative and drawdown and budget at least 1 (`PolicyAssumption`),
which is about the user's `policies.yaml` and not enforced by the loader.

### Strategies and Backtest

`ReplayInv` says that what the engine holds is a function of the bars: the windows
are the proposals of the strategy on each prefix (`Proposals`), the trades those
windows filled (`Replayed`), the report that of the trades, and what `RunAgain`
keeps of the run before is the same of the shorter series. The properties are then
about those functions, for every bar, series, plan, fee and slippage:

- `IdeasTradeable`: every strategy builds its ideas with one constructor, from an
  integer entry and stop (`Brackets`). Rounding keeps the order of two prices
  (`Rounds`), so what the validation accepts of the unrounded prices, and what the
  ladder and its floors make of them, holds of the rounded ones; an idea let out is
  one nobody complained of (`FinalizeIsGood`).
- `FillsAreConservative`: a trade leaves on the first bar that touches a level, at
  the worse of the two when both are touched (`SimulateIs`), so no path through
  that bar leaves it with less.
- `ReplayDoesNotLookAhead`: one bar more adds at most one window at the end
  (`FiredAtGrows`), the trades are listed in the order of the windows, and a trade
  closed before the last bar does not see it (`ReplayRepeats`).
- `ReportedMetricsAgree`: each trade books its gain on one bar, so summing per bar
  regroups the sum over trades; the drawdown is bounded because a quotient falls
  with its peak (`Below`).

### Notes and Scan

`NotebookInv` says whose content the temporary name has (of the clerk at work, or
left by a killed one and truncated by the next `open`), that the version of the
file tells the age of a listing (`ListInv`), and that until two commands overlap
the book on disk is the ideal one (`Quiet`). `NotebookStaysExact` assumes
`DamageIsNoBook`, that no book equals the model's markers for an empty or a
garbled file. Runners only read the notebook (`RunnerInv`).

`BatchInv`: what a runner carries, and what it has printed, is what one of the
session's command lines makes of one of its markets and registries (`Warranted`),
whatever became of the history, the home view and the notebook meanwhile; of its
result the history changes the chop score only (`Rescored`). What is left are
statements about the functions of a run:

- `AnomaliesOpposed`: each detector's weights add up to a whole (`WeightsAddUp`),
  so no row drifts, and a detector without a pattern is not corroborated, except
  that market-trend-quality says none for two votes of opposite sign
  (`RowsAreSound`).
- `StrongestAreShown`: the rows of a scan are what each strategy makes of each
  ticker of the baskets that has candles (`ScansSurface`). The five components of
  `Order` are integers and tell every two rows apart (`RowsAreOrdered`), so
  `Outranks` is a total order (`OutrankingOrders`), the number of rows above one is
  its place, and exactly `top` rows have a place below `top` if one has not
  (`FirstsCount`); what is left out is outranked by all of them (`RankKeeps`).
- `TickersAreAccountedFor`: a scan has a cell for every ticker and timeframe of
  its scope (`CellsAre`), and the scope is a list also where aliases were expanded
  and doubles taken out (`DistinctIs`).

`ChopTellsTheWindow` is about the history of ideas and needs an invariant of its
own, `HistoryInv`: until updates overlap or one is killed half-way, at most one run
is between its reading and its writing (`Exclusive`), and what it has read (`Held`)
or, between updates, the file (`Filed`) remembers all ticks. To remember
(`Remembers`) is to hold their latest entries: `Laid` gives the place at which each
tick ends, below zero where its entries were evicted, and nothing was evicted while
there was room. Appending moves the places down by what is evicted
(`HistoryGrows`). The score groups the entries by timestamp in the order of first
appearance; of a history so laid out the last `Window` groups are the last
`Window` ticks (`WindowIs`), and as long as the window's ideas fit into the
history their entries are all there (`TailAddsUp`, `ChopTells`). It assumes
`DamageIsNoHistory`, as above.

### FoldTheorems

The models sum over sets with `SumFunction` and fold over sequences with
`FoldLeft`, which the library defines by recursive functions. The library's
induction theorems take an operator as a parameter and cannot be used, so
induction is made first-order: a set of counterexamples in the numbers has a least
element (`Least`), and `Shrinking`, `Climbing` and `Recursion` are the three forms
in use, with the induction hypothesis a set and not an operator. From them come
that a sum exists, splits, groups, is renamed, grows and vanishes (`SumUnfolds`
... `SumBumps`) and that a fold is a walk of accumulators, one per row
(`WalkExists`).

### Ledger

The views are folds over the stream, so their properties are not about steps but
about every set of well-formed rows; the state machine's share is `TypeOK` (ids
are handed out once, rows are finite) and the foreign key (`KeyInv`: a row's
portfolio exists). Every fold is followed row by row in the `(ts, id)` order, with
an invariant of the accumulator:

- `LatestBuysAreHeld`: a sale has a closed form (`ConsumeIs`: of each lot what the
  sale leaves after the older ones). `LatestBy` says the lots are the latest
  purchases, all but the first whole, and as many units as the rows leave open;
  the open units are the net position less its lowest point so far.
- `ReplayTellsFifo`: the two passes are walked together (`Together`): same lots,
  and the events' profits and costs per key sum up to the book's.
- `EquityIsAccountedFor`: `Balanced` says of a book that open cost plus the cost
  of what was sold is what was invested, and that invested less proceeds is what
  was paid; `Settled` says of the derived cash that the balance is the cash paid
  in, less what was charged to it and the fees. Each asset's value and gain are
  then written as sums over its rows (`StandsAt`, `GainAt`) and joined over all
  assets of the portfolio. The residue the property names (sales without a lot,
  rows before the cash row) is where those two disagree.
- `PortfoliosAreApart`: the walk over the whole stream, thinned to one portfolio's
  rows, is the walk over that portfolio (`Thinned`).
- `CommandsTellOneStory`: every view is a function of the scope's rows, so the
  comparisons are between functions: pnl's rows are performance's
  (`PerformanceIsPnl`), view and allocation add up to the positions' value
  (`ViewAddsUp`, `AllocationAddsUp`), a position is its lots (`PositionIsItsLots`),
  the export is what replay read (`ExportIsReplay`), and a ledger reconciles with
  its own holdings (`ReconcilesWithItself`). The state machine's share is
  `StoryInv`: the foreign key, and that there are never more than `MaxTx` rows,
  which stands for `list` without `--limit`.

### OpenPositionsSync

`ReadInv` says that what an undisturbed sync holds in memory is what the file and
the ledger still say. `HeldIsNeverDropped` and `HeldIsAccountedFor` hold of the
plan for any file and any ledger, so they need only the types; the lemma under
both is which keys match a watch. `AnUndisturbedSyncIsExact` is an action
property: the step that replaces the file, or finds nothing to write.

### Assumptions

| Assumption | Why the code justifies it |
|---|---|
| `ConstantsAssumption`, `BracketAssumption` | volumes and polls are positive, labels are among the venue's (`partial` among them, which no run uses) |
| `WatchdogAssumption`, `NoneAssumption` | a configured watch has typed levels and prices, durations are not negative, window and threshold at least 1; an absent value is no value |
| `PipelineAssumption` | every combo can come out somehow, a bound on nights; a default floor between the permissive 1 and the forbidding 99 |
| `RiskAssumption` | whole quantities, a finite set of assets; a book that starts re-based starts with a peak it had |
| `PolicyAssumption` | see RiskEngine; volumes and limit prices are not negative |
| `PidAssumption`, `CashAssumption`, `EntryAssumption`, `ValueAssumption` | AUTOINCREMENT ids; a cash row is one of the portfolio's assets; what `add` accepts; the mark of a missing price is no number |
| `BoundAssumption` | `MaxTx`, the bound on inserted rows, is a number, any number |
| `SyncAssumption`, `FirstAssumption` | a file the loader accepts and a ledger the database can hold |
| `BacktestAssumption` | a plan warms up, has a floor of 1 to 99 and a strategy of the registry; its feed brings bars; fee and slippage are not negative, the capital is positive |
| `SessionsAssumption` | a session starts with a book or no file, and with no history or one that does not parse; arguments, baskets and registries are lists, at least one timeframe is asked for, one by all but bug-scan; a command line without any argument has no tickers and baskets; every ticker of the registry has a place in the sorting order; what a market says of a ticker is a bar, for every timeframe asked |

### Only model-checked

Liveness: `EveryRunEnds` in both submit modules; fairness is out of the proof
system's reach. The three violations. Every other property of a passing run is
stated by a theorem.

## Not modelled, and why

- AFK gates and breaker: their verdict is a free refusal in the submit modules. The
  breaker's recorder has no caller in the repository, so the file is only read or
  reset. The position cap cannot bite because `total_value` is passed as 0
  (`execution-kraken-spot/scripts/run.py:64`), which the gate takes as unknown.
- Perps: the account's leverage setting, order types other than the bracket's, and
  the ledger write, unreachable because no confirmation `place_order` builds has
  status `filled` or `partial`. A retry duplicates the protective legs, which carry
  no client id; the module has that behaviour, the code promises nothing about it.
- A no-wait or timed-out submit leaves its fill to the watchdog and the operator;
  no component promises that the ledger becomes complete, so nothing is checked.
- Ledger: edit and rename change notes, references and names, which no view reads.
- Sync: the price and zone reports and the byte-preserving splice (modelled by the
  list it yields).
- Watchdog: `--dry-run` and `--status`, which write nothing, configuration
  validation, the regime annotation, and two overlapping ticks.
- Pipeline: the content of the regime, hold and brief files and the printed decay.
- Backtest: Sharpe, Sortino, annualised return and profit factor (floating point;
  the pipeline takes their outcome as a choice).
- How an average, an oscillator or a swing point is computed: a bar carries the
  outcome. Reasoning texts, informational tags, and liquidity-sweep's non-default
  conviction modes.
- Runners: the macro regime that run-all-l3 prints, field projection, TOON, text.
- Notes: `validate`, which only reads; texts and level syntax are good or bad; an
  `expires` without a time zone, which only an editor can write and at which
  `is_active` raises (`notes_format.py:160`).
- Pipeline: the floor table is keyed by canonical prefix and symbol, the code's by
  the provider's own ticker; the lookups of the configured combos are the same.
- Offline arguments of bug-scan separated by other options: `argv` keeps only the
  options that matter by their place.
- Data providers and the OHLC cache, macro cache and history, valuation, movers,
  fitness heatmap, journal report: fetches, files of one process and printing.

## Divergences noticed

Besides the three findings, seen while modelling. The models have the code's
behaviour, and properties exclude the case by a named condition where it would
break them.

Execution and ledger
- Exit 2 is "rejected before any venue call" (`execution-kraken-spot/SKILL.md:363`),
  but `--portfolio` is resolved after the fill (`scripts/run.py:284-294`).
- `wait=True` "blocks until the open order reaches a terminal status"
  (`kraken_perps.py:298-301`), but the code calls `self._poll_open`, which no class
  defines (`kraken_perps.py:467`): a placed bracket ends in a traceback.
- `cmd_portfolio_rename` exits 0 when the portfolio has vanished; `reconcile`
  without a portfolio merges portfolios by asset, the last one winning; `--asset` of
  `positions` and `pnl` is parsed and ignored; `refresh_prices` ignores the cache when a
  provider fails; a digit-only name changes its target when a portfolio with that
  id is created.
- A sync overwrites an entry price an operator writes while it runs, although a
  hand-authored one is never to be touched.

Watchdog
- After a failed first tick the anchor is re-derived (`SKILL.md:299` calls it frozen).
- A kill after the save loses alerts still in the output buffer.
- `--status` reads keys the state does not have (`lib.py:613`); two partial exits
  never set the closure marker.

Risk engine
- Tier metadata is never populated outside tests (`analysis/risk/spot.py:167` against
  `SKILL.md:71`), so the tier cap does not bite; portfolio overrides are dropped when
  the portfolio is given by id (`scripts/run.py:208`); `build_context` "reads only" but
  the drawdown call writes the mark; a sell without a portfolio is rejected on
  missing data (`lib.py:136-139`); the cooldown sees trades since midnight UTC only;
  the drawdown policy rejects exits too.
- A mark computed from torn reads stays; two first calls re-base twice.

Pipeline and backtest
- A combo that errors or has too few trades loses its floor of 99 and falls to 1
  (`run.py:480-488`); a partial `--baskets` run drops the other baskets' floors;
  providers that disagree give an alias the permissive floor.
- State and artifacts are written in place: a kill leaves torn files that every
  later reader fails on.
- The fill simulator takes a stop the bar opened beyond at the stop's price, called
  conservative (`backtest-engine/lib.py:245-255, 388-416`); `_run_metrics` documents a
  base capital of 1.0 and the same for the benchmark, the code has 100,000 and one
  unit.
- A failed fetch returns an empty list, so provider auto-detection never falls back.

Signals and strategies
- With fewer than four EMAs `market-trend` labels ascending ones PARTIAL_BULL, the
  reverse of its manual (`market-ema/SKILL.md:53`, `market-trend/SKILL.md:84`).
- `detect_crossover` returns the oldest cross of the last five bars.
- breakout-confirm gates on the pattern's direction even when the detector found
  none; trend-follow's breakout boost, Pattern S's chase-risk and entry-edge branches
  and the "strong downtrend" branch of `market-ema` cannot be reached; Pattern S's
  downgrade is turned into a veto by the conviction gate; liquidity-sweep goes long on
  a resistance sweep; accumulation-swing accepts a weakening downtrend.
- An entry between about 0.9524 and 1 has its third target rounded back under the 5%
  floor, and is rejected; with a large ATR targets and stops can become negative; the
  six-decimal tier of `round_price` distorts prices below 1e-4.
- bug-scan's calibration-skew rule wants six ideas of one strategy, which never has
  more than one: the two branches of mean-reversion need an RSI of at most 30 and of
  at least 70 (`strategy-mean-reversion/lib.py:76-77`). So `--top` of run-all-l3,
  which cuts each strategy's list, cuts nothing from 1 on.

Runners, notes
- `bug-scan/SKILL.md:68-72` shows the offline forms `--from-state` and `--from-json
  PATH`. `parse_axi_flags` takes the first out of the arguments before bug-scan
  looks for it (`output.py:383-394`), so with no ticker the run shows the home view
  and exits 0; the second is read as a bare flag and a ticker, and exits 2
  (`bug-scan/scripts/run.py:126-134`). Only `--from-json=PATH` works. `Scan` has this
  behaviour (`AxiStripped`, `BugScan`).
- `run-watchlist` without arguments shows the home view; its help and docstring say
  it scans all baskets (`run.py:70, 90-92`). Its envelope has the keys `l2`/`l3`,
  which bug-scan's `envelope_from_json` does not look for although it says so, nor for
  the `data` wrapper every runner prints.
- The strategies' `--asset-class=` exits 2: one parser refuses it before the other
  reads it (`strategy_runner.py:147-152`). The text form of run-all ignores `--top` and
  `--fired-only`; run-all-l3 mislabels rejections.
- The 200-entry cap of the chop history can cut a run, or drop it: one run of more
  than 200 ideas is never scored. A kill between truncation and write empties it.
- Overlapping note commands publish mixtures; a note removed by position after
  another process changed the file may be another note; `list --json` positions are not
  the indices `remove` takes; a legacy tag is lost when its field is stored as null or
  already set; `migrate` may succeed where `validate` still fails.

## Plan

1. `SpotSubmit`, `FillLedger`, `PerpsBracket` with proofs: done.
2. `Ledger`, `Reports`, `OpenPositionsSync`, `Watchdog`, `RiskEngine`,
   `BacktestPipeline`, `Signals`, `Strategies`, `Backtest`, `Watchlist`, `Notes`,
   `Anomalies`, `Scan` with their runs: done.
3. Proofs of the state machines, the ledger's folds and reports, the strategies,
   the backtest engine, the runners and the history of ideas: done; no safety
   property of a passing run is left (see Theorems).
4. Overlapping watchdog ticks, and a composition of submit, sync and watchdog.
5. The macro cache and its history ring.
