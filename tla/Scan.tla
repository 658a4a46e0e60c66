-------------------------------- MODULE Scan --------------------------------
(***************************************************************************)
(* The batch runners: run-all-l2, run-all-l3, run-watchlist,               *)
(* l3-conviction-scan, the strategies' own command lines and bug-scan.     *)
(* Each resolves its tickers, fetches their candles, runs the skills in    *)
(* process and prints what they say; bug-scan also keeps a history of the  *)
(* ideas it saw, and every runner a copy of its last result for its home   *)
(* view.  Both files are rewritten in place.  The notes come from the      *)
(* notebook of module Notes, which other processes edit meanwhile.         *)
(***************************************************************************)
EXTENDS Watchlist, Anomalies, Notes

CONSTANTS
  Runners,       \* processes that run a batch
  Sessions,      \* what is run: command lines, errands, initial files
  Markets(_),    \* the candles that may be fetched, by name
  Alphabet,      \* every ticker, in the order tickers sort
  NoData,        \* no candles
  NoReport,      \* nothing printed yet
  NoTop,         \* no --top
  DefaultState,  \* the state tracker's findings at their default path
  Floor          \* the conviction gate's floor

(* Command lines, registries and markets as they come.                     *)
IsLine(line) ==
  /\ line.argv \in Seq(Range(line.argv)) /\ line.baskets \in Seq(Range(line.baskets))
  /\ line.frames \in Seq(Range(line.frames)) /\ line.frames # <<>>
  /\ line.skill # "bug-scan" => Len(line.frames) = 1
  /\ line.top \in Nat \cup {NoTop}
  /\ line.bare => line.argv = <<>> /\ line.baskets = <<>>
IsRegistry(reg) ==
  reg # Unavailable =>
    /\ reg \in Seq(Range(reg)) /\ \A i \in DOMAIN reg : reg[i].members \in Seq(Range(reg[i].members))
    /\ \A i \in DOMAIN reg : \A m \in Range(reg[i].members) : m.ticker \in Range(Alphabet)
IsMarket(market) ==
  \A t \in DOMAIN market : \A f \in DOMAIN market[t] :
    market[t][f] # NoData => market[t][f].bar \in Bar /\ market[t][f].lowest \in Int

ASSUME SessionsAssumption ==
  /\ Floor \in Nat /\ NoTop \notin Nat /\ Alphabet \in Seq(Range(Alphabet))
  /\ \A s \in Sessions :
       /\ IsBook(s.book)
       /\ s.history \in {Blank, Garbled}
       /\ \A line \in s.lines : IsLine(line)
       /\ \A reg \in s.registries : IsRegistry(reg)
       /\ \A market \in Markets(s.feed) :
            /\ IsMarket(market)
            /\ \A line \in s.lines : \A t \in DOMAIN market : Range(line.frames) \subseteq DOMAIN market[t]

VARIABLES
  session,       \* the chosen session
  launches,      \* how many runs may still be started
  runner,        \* what each process is doing
  printout,      \* what each process's last run printed
  history,       \* l3_idea_history.json: Blank, Garbled or a sequence
  views,         \* _last.json of each skill
  ticks,         \* the ticks ever recorded: the convictions of each
  smudged        \* did two history updates overlap, or was one killed?

scanVars == <<session, launches, runner, printout, history, views, ticks, smudged>>
batchVars == <<notesVars, scanVars>>

-----------------------------------------------------------------------------
(* Command lines.  argv holds, in their order, the positional arguments    *)
(* (flag "") and the offline inputs: --from-state= and --from-json= with a *)
(* document, or --from-state and --from-json without; any other option     *)
(* that matters only by its place is an "option".                          *)

(* parse_axi_flags takes --from-state out of the arguments, and with a     *)
(* bare one the argument right after it, unless that is an option.         *)
AxiStripped(argv) ==
  LET eaten(i) == i > 1 /\ argv[i].flag = "" /\ argv[i - 1].flag = "--from-state"
      taken(i) == argv[i].flag \in {"--from-state", "--from-state="} \/ eaten(i)
  IN FlattenSeq([i \in DOMAIN argv |-> IF taken(i) THEN <<>> ELSE <<argv[i]>>])

Flagged(argv, flags) == Among(argv, {a \in ToSet(argv) : a.flag \in flags})
Positional(argv) ==
  LET words == Flagged(argv, {""})
  IN [i \in DOMAIN words |-> words[i].value]

-----------------------------------------------------------------------------
(* What the skills say of a market *)

(* The strategies in the order of the registry.                            *)
Registered == <<"trend_follow", "mean_reversion", "breakout_confirm", "accumulation_swing",
                "exhaustion_fade", "funding_carry", "liquidity_sweep">>

L2Rows(b, m) == [k \in L2Skill |-> SkillRow(k, b, m)]

StrategyIdeas(b, m, lowest, class) ==
  LET r == Readings(b, m)
  IN [k \in Strategy |-> Analyze(k, b, r, lowest, class, Floor)]

(* What a fetch brings; nothing for a ticker no provider knows.            *)
Candles(market, ticker, frame) == IF ticker \in DOMAIN market THEN market[ticker][frame] ELSE NoData

(* One ticker on one timeframe: l2 and strategies say which skills are run. *)
Cell(market, ticker, frame, class, l2, strategies) ==
  LET quote == Candles(market, ticker, frame)
  IN IF quote = NoData
     THEN [ticker |-> ticker, frame |-> frame, skills |-> <<>>, strategies |-> <<>>]
     ELSE [ticker |-> ticker, frame |-> frame,
           skills |-> IF l2 THEN L2Rows(quote.bar, MarketTrend(quote.bar)) ELSE <<>>,
           strategies |-> IF strategies = {} THEN <<>>
                          ELSE Restrict(StrategyIdeas(quote.bar, MarketTrend(quote.bar), quote.lowest, class), strategies)]

HasData(market, ticker, frame) == Candles(market, ticker, frame) # NoData

(* _cap_ideas: of one strategy's ideas the first `top` by conviction; 0 is *)
(* no cap either.                                                          *)
Ahead(ideas, i, j) ==
  ideas[i].conviction > ideas[j].conviction \/ (ideas[i].conviction = ideas[j].conviction /\ i < j)
CapIdeas(ideas, top) ==
  IF top \in {NoTop, 0} THEN ideas
  ELSE [n \in 1..Min({top, Len(ideas)}) |->
          ideas[CHOOSE j \in DOMAIN ideas : Cardinality({i \in DOMAIN ideas : Ahead(ideas, i, j)}) = n - 1]]

CapCell(cell, top, firedOnly) ==
  LET capped == [k \in DOMAIN cell.strategies |-> CapIdeas(cell.strategies[k], top)]
  IN [cell EXCEPT
        !.skills = IF firedOnly THEN Restrict(@, {k \in DOMAIN @ : Fired(@[k])}) ELSE @,
        !.strategies = IF firedOnly THEN Restrict(capped, {k \in DOMAIN capped : capped[k] # <<>>}) ELSE capped]

(* extract_ideas and rank_ideas: a row per basket, ticker, strategy and    *)
(* idea; by conviction, then ticker, then as they were found, the first    *)
(* `top` of all rows, none when top is 0.                                  *)
Position(seq, x) == CHOOSE i \in DOMAIN seq : seq[i] = x
RowsOf(cells) ==
  UNION {UNION {{[cell |-> n, strategy |-> k, index |-> i, ticker |-> cells[n].ticker,
                  idea |-> cells[n].strategies[k][i]] : i \in DOMAIN cells[n].strategies[k]} :
                  k \in DOMAIN cells[n].strategies} : n \in DOMAIN cells}
Order(x) ==
  <<0 - x.idea.conviction, Position(Alphabet, x.ticker), x.cell, Position(Registered, x.strategy), x.index>>
Outranks(x, y) ==
  \E i \in 1..5 : Order(x)[i] < Order(y)[i] /\ \A j \in 1..(i - 1) : Order(x)[j] = Order(y)[j]

(* Mutant: the weakest come first. *)
RankIdeas_Ascending(rows, top) == {y \in rows : top = NoTop \/ Cardinality({x \in rows : Outranks(y, x)}) < top}

RankIdeas(rows, top) == {y \in rows : top = NoTop \/ Cardinality({x \in rows : Outranks(x, y)}) < top}

-----------------------------------------------------------------------------
(* One run: what a command line prints of a market and a registry, up to   *)
(* the files it writes.                                                    *)

Outcome(line, market, reg, code) ==
  [line |-> line, market |-> market, registry |-> reg, code |-> code, scanned |-> FALSE,
   cells |-> <<>>, skipped |-> {}, rows |-> {}, findings |-> {}, notes |-> <<>>, unread |-> FALSE,
   chop |-> NoChop, recent |-> <<>>, shown |-> Blank]

(* No ticker: the home view, whatever else was asked, and a success; it    *)
(* shows the last result kept, unless it does not parse or with --json.    *)
Home(line, market, reg) ==
  [Outcome(line, market, reg, 0) EXCEPT !.shown = IF line.json THEN Blank ELSE views[line.skill]]

ClassOf(reg, ticker) == MetadataFor(reg, ticker).class

(* Every ticker of a scope on every timeframe.                             *)
Cells(market, tickers, frames, class, l2, strategies) ==
  FlattenSeq([i \in DOMAIN tickers |->
    [j \in DOMAIN frames |-> Cell(market, tickers[i], frames[j], class[tickers[i]], l2, strategies)]])

NotesOf(tickers) ==
  [t \in ToSet(tickers) |-> IF Readable /\ t \in Pairs THEN FilterActive(OnDisk[t]) ELSE <<>>]

Fetched(market, tickers, frame) == Among(tickers, {t \in ToSet(tickers) : HasData(market, t, frame)})
Classless(tickers) == [t \in ToSet(tickers) |-> "other"]
Classes(reg, tickers) == [t \in ToSet(tickers) |-> ClassOf(reg, t)]

(* What a line scans: its tickers (of run-watchlist those given or of a    *)
(* basket, less the skip list; of l3-conviction-scan those of its baskets  *)
(* that have candles, a ticker of two baskets twice), with or without the  *)
(* L2 skills, with which strategies.  Only bug-scan and run-all-l2 do      *)
(* without the registry.                                                   *)
Basket(line) == IF line.baskets = <<>> THEN "" ELSE line.baskets[1]
Scope(line, reg) ==
  LET words == Positional(line.argv)
  IN IF words # <<>> THEN ExpandTickers(reg, words) ELSE ByCategory(reg, Basket(line))
TickersIn(line, market, reg) ==
  CASE line.skill = "run-watchlist" ->
         LET scope == Scope(line, reg) IN Among(scope, ToSet(scope) \ Skipped(reg, scope, line.skip))
    [] line.skill = "l3-conviction-scan" ->
         Fetched(market, FlattenSeq([i \in DOMAIN line.baskets |-> ByCategory(reg, line.baskets[i])]), line.frames[1])
    [] OTHER -> Positional(AxiStripped(line.argv))

Basketed == {"run-watchlist", "l3-conviction-scan"}
Unclassed == {"bug-scan", "run-all-l2"}
SkillsIn(line) == line.skill \in Unclassed \/ (line.skill = "run-watchlist" /\ line.half # "l3")
StrategiesIn(line) ==
  IF line.skill = "run-all-l2" \/ (line.skill = "run-watchlist" /\ line.half = "l2") THEN {}
  ELSE IF line.skill \in Strategy THEN {line.skill} ELSE Strategy

Scanned(line, market, reg) ==
  IF line.skill = "market-watchlist" \/ (line.skill \in Basketed /\ ~Usable(reg)) THEN <<>>
  ELSE LET tickers == TickersIn(line, market, reg)
           class == IF line.skill \in Unclassed \/ ~Usable(reg) THEN Classless(tickers) ELSE Classes(reg, tickers)
       IN Cells(market, tickers, line.frames, class, SkillsIn(line), StrategiesIn(line))

(* run-all-l2, run-all-l3 and a strategy.  Notes that do not parse end the *)
(* run with a usage error.  The text form ignores --top and --fired-only.  *)
RunAll(line, market, reg, found) ==
  LET tickers == Positional(AxiStripped(line.argv))
      fetched == Fetched(market, tickers, line.frames[1])
  IN IF ~line.valid THEN Outcome(line, market, reg, 2)
     ELSE IF tickers = <<>> THEN Home(line, market, reg)
     ELSE IF fetched # <<>> /\ line.skill \notin Unclassed /\ ~Usable(reg) THEN Outcome(line, market, reg, 1)
     ELSE IF fetched # <<>> /\ line.notes /\ ~Readable
     THEN [Outcome(line, market, reg, 2) EXCEPT !.unread = TRUE]
     ELSE [Outcome(line, market, reg, 0) EXCEPT
             !.scanned = TRUE,
             !.cells = [i \in DOMAIN found |-> IF line.json THEN CapCell(found[i], line.top, line.fired) ELSE found[i]],
             !.notes = IF line.notes THEN NotesOf(fetched) ELSE <<>>]

(* run-watchlist: notes that do not parse are reported as none.            *)
RunWatchlist(line, market, reg, found) ==
  LET fetched == Fetched(market, TickersIn(line, market, reg), line.frames[1])
  IN IF line.half = "neither" THEN Outcome(line, market, reg, 2)
     ELSE IF Positional(line.argv) = <<>> /\ line.baskets = <<>> THEN Home(line, market, reg)
     ELSE IF ~line.valid THEN Outcome(line, market, reg, 2)
     ELSE IF ~Usable(reg) \/ Scope(line, reg) = <<>> THEN Outcome(line, market, reg, 1)
     ELSE [Outcome(line, market, reg, 0) EXCEPT
             !.scanned = TRUE, !.cells = found, !.skipped = Skipped(reg, Scope(line, reg), line.skip),
             !.notes = IF line.notes THEN NotesOf(fetched) ELSE <<>>,
             !.unread = line.notes /\ ~Readable /\ fetched # <<>>]

(* l3-conviction-scan: the ranked ideas.  Only a command line without any  *)
(* argument shows the home view.                                           *)
ConvictionScan(line, market, reg, found) ==
  IF line.bare THEN Home(line, market, reg)
  ELSE IF line.baskets = <<>> \/ ~line.valid THEN Outcome(line, market, reg, 2)
  ELSE IF ~Usable(reg) THEN Outcome(line, market, reg, 1)
  ELSE [Outcome(line, market, reg, 0) EXCEPT
          !.scanned = TRUE, !.cells = found, !.rows = RankIdeas(RowsOf(found), line.top)]

(* bug-scan: a document given with --from-json=, or a fresh fetch of every *)
(* ticker on every timeframe.  One period serves all timeframes; any other *)
(* number of them has to match.                                            *)
BugScan(line, market, reg, found) ==
  LET argv == AxiStripped(line.argv)
      state == Flagged(argv, {"--from-state", "--from-state="})
      json == Flagged(argv, {"--from-json", "--from-json="})
      given == IF state # <<>> THEN Last(state) ELSE Last(json)
      document == IF given.flag = "--from-state" THEN DefaultState ELSE given.value
  IN IF Positional(argv) = <<>> /\ state = <<>> /\ json = <<>> THEN Home(line, market, reg)
     ELSE IF state = <<>> /\ json # <<>> /\ given.flag = "--from-json" THEN Outcome(line, market, reg, 2)
     ELSE IF state # <<>> \/ json # <<>>
     THEN [Outcome(line, market, reg, 0) EXCEPT !.scanned = TRUE, !.findings = ScanPayload(document)]
     ELSE IF ~line.valid THEN Outcome(line, market, reg, 2)
     ELSE IF line.periods \notin {1, Len(line.frames)} THEN Outcome(line, market, reg, 1)
     ELSE [Outcome(line, market, reg, 0) EXCEPT
             !.scanned = TRUE, !.cells = found, !.findings = Detect(ToSet(found))]

Ask(line, market, reg) ==
  LET words == Positional(line.argv)
  IN [Outcome(line, market, reg, 0) EXCEPT
        !.code = Answer(reg, line.question, Basket(line), IF words = <<>> THEN Alphabet[1] ELSE words[1]).code]

Run(line, market, reg, found) ==
  CASE line.skill = "bug-scan" -> BugScan(line, market, reg, found)
    [] line.skill = "run-watchlist" -> RunWatchlist(line, market, reg, found)
    [] line.skill = "l3-conviction-scan" -> ConvictionScan(line, market, reg, found)
    [] line.skill = "market-watchlist" -> Ask(line, market, reg)
    [] OTHER -> RunAll(line, market, reg, found)

-----------------------------------------------------------------------------
(* Processes *)

(* _collect_ideas: in the order the strategies are registered.             *)
CollectIdeas(cells) ==
  FlattenSeq([n \in DOMAIN cells |->
    FlattenSeq([i \in DOMAIN Registered |->
      IF Registered[i] \in DOMAIN cells[n].strategies THEN cells[n].strategies[Registered[i]] ELSE <<>>])])

(* cache_run_result: a strategy unless it had no candles; a batch only     *)
(* with --json, a conviction scan only when it found ideas.                *)
Caches(result) ==
  /\ result.scanned
  /\ IF result.line.skill \in Strategy
     THEN HasData(result.market, result.cells[1].ticker, result.line.frames[1])
     ELSE /\ result.line.json
          /\ result.line.skill = "l3-conviction-scan" => RowsOf(result.cells) # {}

AfterScan(result) == IF Caches(result) THEN "cache" ELSE "print"
FirstStage(result) ==
  IF result.line.skill = "bug-scan" /\ result.line.chop /\ result.scanned
  THEN IF CollectIdeas(result.cells) # <<>> THEN "load" ELSE "read"
  ELSE AfterScan(result)

Resting == [stage |-> "idle", result |-> NoReport, loaded |-> <<>>]
Busy(stages, r) == \E q \in Runners \ {r} : runner[q].stage \in stages
KeepsNotes == UNCHANGED notesVars

Launch(r) ==
  /\ launches > 0 /\ runner[r].stage = "idle"
  /\ launches' = launches - 1
  /\ \E line \in session.lines, market \in Markets(session.feed), reg \in session.registries :
     \E found \in {Scanned(line, market, reg)} : \E result \in {Run(line, market, reg, found)} :
       runner' = [runner EXCEPT ![r] = [stage |-> FirstStage(result), result |-> result, loaded |-> <<>>]]
  /\ KeepsNotes /\ UNCHANGED <<session, printout, history, views, ticks, smudged>>

Parsed == IF history \in {Blank, Garbled} THEN <<>> ELSE history

(* append_tick: read, open for writing, write.                             *)
LoadHistory(r) ==
  /\ runner[r].stage = "load"
  /\ runner' = [runner EXCEPT ![r].stage = "open", ![r].loaded = Parsed]
  /\ smudged' = (smudged \/ Busy({"open", "write"}, r))
  /\ KeepsNotes /\ UNCHANGED <<session, launches, printout, history, views, ticks>>

OpenHistory(r) ==
  /\ runner[r].stage = "open"
  /\ history' = Blank
  /\ runner' = [runner EXCEPT ![r].stage = "write"]
  /\ KeepsNotes /\ UNCHANGED <<session, launches, printout, views, ticks, smudged>>

WriteHistory(r) ==
  LET ideas == CollectIdeas(runner[r].result.cells)
      whole == Appended(runner[r].loaded, Len(ticks) + 1, ideas)
  IN /\ runner[r].stage = "write"
     /\ \E content \in {whole} \cup (IF history = Blank THEN {} ELSE {Garbled}) : history' = content
     /\ ticks' = Append(ticks, [i \in DOMAIN ideas |-> ideas[i].conviction])
     /\ runner' = [runner EXCEPT ![r].stage = "read"]
     /\ KeepsNotes /\ UNCHANGED <<session, launches, printout, views, smudged>>

(* The last Window ticks ever recorded, beside what the file says of them. *)
LastTicks == SubSeq(ticks, IF Len(ticks) > Window THEN Len(ticks) - Window + 1 ELSE 1, Len(ticks))

ReadHistory(r) ==
  /\ runner[r].stage = "read"
  /\ runner' = [runner EXCEPT ![r].stage = AfterScan(runner[r].result), ![r].result.chop = Chop(Parsed),
                              ![r].result.recent = LastTicks]
  /\ smudged' = (smudged \/ Busy({"write"}, r))
  /\ KeepsNotes /\ UNCHANGED <<session, launches, printout, history, views, ticks>>

(* write_state_cache: best effort, in place.                               *)
OpenView(r) ==
  /\ runner[r].stage = "cache"
  /\ views' = [views EXCEPT ![runner[r].result.line.skill] = Blank]
  /\ runner' = [runner EXCEPT ![r].stage = "copy"]
  /\ KeepsNotes /\ UNCHANGED <<session, launches, printout, history, ticks, smudged>>

CopyView(r) ==
  LET result == runner[r].result
      skill == result.line.skill
  IN /\ runner[r].stage = "copy"
     /\ \E content \in {[tickers |-> Len(result.cells)]} \cup (IF views[skill] = Blank THEN {} ELSE {Garbled}) :
          views' = [views EXCEPT ![skill] = content]
     /\ runner' = [runner EXCEPT ![r].stage = "print"]
     /\ KeepsNotes /\ UNCHANGED <<session, launches, printout, history, ticks, smudged>>

PrintReport(r) ==
  /\ runner[r].stage = "print"
  /\ printout' = [printout EXCEPT ![r] = runner[r].result]
  /\ runner' = [runner EXCEPT ![r] = Resting]
  /\ KeepsNotes /\ UNCHANGED <<session, launches, history, views, ticks, smudged>>

(* A kill between the truncation and the write loses the history.          *)
KillRunner(r) ==
  /\ runner[r].stage # "idle"
  /\ runner' = [runner EXCEPT ![r] = Resting]
  /\ smudged' = (smudged \/ runner[r].stage = "write")
  /\ KeepsNotes /\ UNCHANGED <<session, launches, printout, history, views, ticks>>

ScanInit ==
  \E s \in Sessions :
    /\ session = s /\ launches = s.launches
    /\ runner = [r \in Runners |-> Resting]
    /\ printout = [r \in Runners |-> NoReport]
    /\ history = s.history
    /\ views = [k \in {l.skill : l \in s.lines} |-> Blank]
    /\ ticks = <<>> /\ smudged = FALSE
    /\ NotesInit(s.book, s.errands)

ScanNext ==
  \/ \E r \in Runners :
       \/ Launch(r) \/ LoadHistory(r) \/ OpenHistory(r) \/ WriteHistory(r) \/ ReadHistory(r)
       \/ OpenView(r) \/ CopyView(r) \/ PrintReport(r) \/ KillRunner(r)
  \/ NotesNext /\ UNCHANGED scanVars

ScanSpec == ScanInit /\ [][ScanNext]_batchVars

-----------------------------------------------------------------------------
(* Properties *)

Printed == {r \in Runners : printout[r] # NoReport}

(* The chop score bug-scan reports is that of the last Window runs that    *)
(* had ideas: the rewriting, the eviction of old entries and the grouping  *)
(* by timestamp (chop.py:112-150, 153-201) neither lose nor double a run,  *)
(* as long as updates do not overlap, none is killed between truncating    *)
(* and writing, and the window fits into the history's 200 entries.        *)
LowCount(tick) == Cardinality({i \in DOMAIN tick : tick[i] <= 2})
Total(recent) == SumFunction([i \in DOMAIN recent |-> Len(recent[i])])
ChopOf(recent) ==
  IF Len(recent) < Window THEN NoChop
  ELSE [low |-> SumFunction([i \in DOMAIN recent |-> LowCount(recent[i])]), count |-> Total(recent)]
ChopIsTheWindow ==
  ~smudged => \A r \in Printed :
    printout[r].recent # <<>> /\ Total(printout[r].recent) <= Cap => printout[r].chop = ChopOf(printout[r].recent)

(* A fresh scan accuses no detector but market-trend-quality, and that one *)
(* only where its two votes pull apart, the case it deliberately calls no  *)
(* pattern (trend-quality lib.py, bug-scan lib.py:250-311): thresholds and *)
(* weights of the five detectors and of bug-scan agree.                    *)
OpposedVotes(b) ==
  /\ On(QualityVote(b, MarketTrend(b))) = {"ema", "pullback"}
  /\ QualityShares(b, MarketTrend(b)).ema * QualityShares(b, MarketTrend(b)).pullback < 0
AnomaliesAreOpposedVotes ==
  \A r \in Printed : printout[r].cells # <<>> =>
    \A f \in printout[r].findings : f.tag \in {"BUG", "DRIFT"} =>
      /\ f.shape = "pattern_b_1" /\ f.skill = "quality"
      /\ \A frame \in f.frames : OpposedVotes(printout[r].market[f.ticker][frame].bar)

(* l3-conviction-scan's ranking (lib.py rank_ideas): of what the strategies *)
(* say of every ticker of the baskets that has candles, an idea is left    *)
(* out only where --top rows are shown, each at least as convinced; no     *)
(* more than --top are, and nothing is shown that no strategy said.        *)
Own(result, ticker, strategy) ==
  LET quote == Candles(result.market, ticker, result.line.frames[1])
  IN Analyze(strategy, quote.bar, Readings(quote.bar, MarketTrend(quote.bar)), quote.lowest,
             ClassOf(result.registry, ticker), Floor)
Named(result, ticker) == \E b \in Range(result.line.baskets) : ticker \in ToSet(ByCategory(result.registry, b))
Surfaced(result) ==
  LET tickers == {t \in Range(Alphabet) : Named(result, t) /\ HasData(result.market, t, result.line.frames[1])}
  IN UNION {{[ticker |-> t, strategy |-> k, idea |-> i] : i \in ToSet(Own(result, t, k))} :
              t \in tickers, k \in Strategy}
Said(rows) == {[ticker |-> x.ticker, strategy |-> x.strategy, idea |-> x.idea] : x \in rows}
Strongest(all, rows, top) ==
  /\ Said(rows) \subseteq all
  /\ top # NoTop => Cardinality(rows) <= top
  /\ \A x \in all \ Said(rows) :
       Cardinality(rows) = top /\ \A y \in rows : x.idea.conviction <= y.idea.conviction
RankingKeepsStrongest ==
  \A r \in Printed :
    printout[r].scanned /\ printout[r].line.skill = "l3-conviction-scan" =>
      Strongest(Surfaced(printout[r]), printout[r].rows, printout[r].line.top)

(* run-watchlist reports every ticker of its basket or names it as skipped *)
(* (lib.py:47-92), never both, and skips only what the skip list names and *)
(* the registry does not put at tier 1 or 2.                               *)
ScopeIsCovered ==
  \A r \in Printed :
    printout[r].scanned /\ printout[r].line.skill = "run-watchlist" =>
      LET result == printout[r]
          reported == {result.cells[n].ticker : n \in DOMAIN result.cells}
      IN /\ Positional(result.line.argv) = <<>> =>
              reported \cup result.skipped = ToSet(ByCategory(result.registry, Basket(result.line)))
         /\ reported \cap result.skipped = {}
         /\ \A t \in result.skipped : t \in result.line.skip /\ MetadataFor(result.registry, t).tier \notin {1, 2}

(* run-all-l3 with --top=N shows at most N ideas of a ticker, as its help  *)
(* says (run.py:198, 203).  It does not: _cap_ideas (run.py:98) cuts each  *)
(* strategy's list by itself.                                              *)
IdeasOf(result, n) == {x \in RowsOf(result.cells) : x.cell = n}
TopCapsTheTicker ==
  \A r \in Printed :
    LET line == printout[r].line
    IN printout[r].scanned /\ line.skill = "run-all-l3" /\ line.json /\ line.top \notin {NoTop, 0} =>
         \A n \in DOMAIN printout[r].cells : Cardinality(IdeasOf(printout[r], n)) <= line.top

(* Commands on the notes that do not overlap leave exactly the notes they  *)
(* were asked for, wherever one of them is killed, and no scan ever finds  *)
(* a notebook it cannot read: the temporary file and the rename            *)
(* (notes.py:70-77) never publish a part of a book.                        *)
NotebookIsExact == ~overlapped => OnDisk = ideal /\ \A r \in Printed : ~printout[r].unread
=============================================================================
