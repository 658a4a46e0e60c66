-------------------------------- MODULE Reports --------------------------------
(***************************************************************************)
(* The reading commands of portfolio-mgmt: each resolves its --portfolio   *)
(* token, takes its prices from the cache, the providers and the command   *)
(* line, and shows one view of the ledger.  A command is an operator of    *)
(* the ledger as it finds it; only the price cache is written by any.      *)
(***************************************************************************)
EXTENDS Ledger

CONSTANTS
  NoToken,      \* no --portfolio: all portfolios
  Tokens,       \* what may be given
  AsId,         \* AsId[k]: the ids of a digit-only token, {} for another
  NameOf,       \* NameOf[p]: the token that is the name of portfolio p
  Refused       \* the outcome of a command that exits with 1

ASSUME TokenAssumption ==
  /\ NoToken \notin Tokens
  /\ AsId \in [Tokens -> SUBSET Pid]
  /\ \A k \in Tokens : Cardinality(AsId[k]) <= 1
  /\ NameOf \in [Pid -> Tokens]
  /\ \A p, q \in Pid : NameOf[p] = NameOf[q] => p = q

-----------------------------------------------------------------------------
(* Portfolios and prices *)

(* get_portfolio: by id, and by exact name when no such id exists. *)
GetPortfolio(token) ==
  IF AsId[token] \cap portfolios # {}
    THEN AsId[token] \cap portfolios
    ELSE {p \in portfolios : NameOf[p] = token}

(* refresh_prices: live prices of every asset that was ever booked; an     *)
(* asset no provider answers for has none, whatever the cache holds.       *)
RefreshPrices(live) ==
  [a \in {t.asset : t \in txs} \cap DOMAIN live |-> live[a]]

(* _get_prices: --no-refresh takes the cache, and overrides always win. *)
GetPrices(noRefresh, cached, live, overrides) ==
  LET found == IF noRefresh THEN cached ELSE RefreshPrices(live)
  IN [a \in DOMAIN overrides \cup DOMAIN found |->
        IF a \in DOMAIN overrides THEN overrides[a] ELSE found[a]]

-----------------------------------------------------------------------------
(* Views *)

(* list_transactions, in the order of the stream *)
ListTransactions(R, asked) ==
  LET chosen == Stream({t \in R : /\ t.asset \in asked.assets
                                  /\ t.side \in asked.sides
                                  /\ t.ts >= asked.since})
  IN SubSeq(chosen, 1, Min({Len(chosen), asked.limit}))

Everything == [assets |-> Asset, sides |-> {"BUY", "SELL"}, since |-> 0, limit |-> MaxTx]

(* Mutant: what was realized is what the sales brought less what they cost. *)
Performance_Gross(R) ==
  LET books == Fifo(R) IN
  {[key |-> k, realized |-> books[k].proceeds - books[k].costOfSold,
    invested |-> books[k].invested, proceeds |-> books[k].proceeds,
    costOfSold |-> books[k].costOfSold, fees |-> books[k].fees] :
     k \in {KeyOf(t) : t \in R}}

(* compute_performance; the profit factor is proceeds over costOfSold. *)
Performance(R) ==
  LET books == Fifo(R) IN
  {[key |-> k, realized |-> books[k].realized, invested |-> books[k].invested,
    proceeds |-> books[k].proceeds, costOfSold |-> books[k].costOfSold,
    fees |-> books[k].fees] :
     k \in {KeyOf(t) : t \in R}}

(* compute_allocation: nothing, unless the priced positions are worth      *)
(* something together; a weight is the value over that total.              *)
Weighted(positions, total) ==
  IF total <= 0 THEN {}
  ELSE {[key |-> w.key, value |-> OrZero(w.value), of |-> total, qty |-> w.qty] :
          w \in positions}

Allocation(R, prices) ==
  LET positions == Positions(R, prices)
  IN Weighted(positions, SumFunction([w \in positions |-> OrZero(w.value)]))

(* reconcile: computed and external quantities by asset.  With several     *)
(* portfolios in view, the last one that holds an asset speaks for it.     *)
Status(computed, external) ==
  CASE computed = external -> "match"
    [] computed # external /\ computed = 0 -> "missing_computed"
    [] computed # external /\ computed # 0 /\ external = 0 -> "missing_external"
    [] OTHER -> "diff"

Compare(positions, balance) ==
  LET Holders(a) == {w \in positions : w.key[2] = a}
      Computed(a) == IF Holders(a) = {} THEN 0
                     ELSE (CHOOSE w \in Holders(a) :
                             \A v \in Holders(a) : v.key[1] <= w.key[1]).qty
      External(a) == IF a \in DOMAIN balance THEN balance[a] ELSE 0
  IN {[asset |-> a, delta |-> Computed(a) - External(a),
       status |-> Status(Computed(a), External(a))] :
        a \in {w.key[2] : w \in positions} \cup DOMAIN balance}

Reconcile(R, balance) == Compare(Positions(R, <<>>), balance)

-----------------------------------------------------------------------------
(* Commands.  A token that names nothing is refused: it must never widen   *)
(* the view to all portfolios.                                             *)

Scope(token) == IF token = NoToken THEN Pid ELSE GetPortfolio(token)

(* _resolve_portfolio_id and the check every command makes of it *)
Shown(token, report) ==
  IF token # NoToken /\ Scope(token) = {} THEN Refused ELSE report

RowsFor(token) == RowsOf(Scope(token))

CmdList(token, asked) == Shown(token, ListTransactions(RowsFor(token), asked))
CmdExport(token) == Shown(token, ListTransactions(RowsFor(token), Everything))
CmdView(token, prices) ==
  Shown(token, {[pid |-> p, of |-> Summary(p, RowsFor(token), prices)] :
                  p \in Scope(token) \cap portfolios})
CmdPositions(token, prices) == Shown(token, Positions(RowsFor(token), prices))
CmdPnl(token, prices) == Shown(token, Pnl(RowsFor(token), prices))
CmdLots(token, asset) == Shown(token, {l \in Lots(RowsFor(token)) : l.key[2] \in asset})
CmdReplay(token) == Shown(token, ReplayFifo(RowsFor(token)))
CmdReconcile(token, balance) == Shown(token, Reconcile(RowsFor(token), balance))
CmdAllocation(token, prices) == Shown(token, Allocation(RowsFor(token), prices))
CmdPerformance(token) == Shown(token, Performance(RowsFor(token)))

-----------------------------------------------------------------------------
(* Properties *)

(* What every command shows for one token, given live prices, or with      *)
(* --no-refresh and a cache that was never filled.                         *)
Session(token, live) ==
  LET prices == GetPrices(live = <<>>, <<>>, live, <<>>) IN
  [token |-> token,
   own |-> IF token = NoToken THEN portfolios
           ELSE {p \in portfolios : p \in AsId[token] \/ NameOf[p] = token},
   cash |-> DOMAIN CashBalances(txs),
   list |-> CmdList(token, Everything),
   export |-> CmdExport(token),
   replay |-> CmdReplay(token),
   positions |-> CmdPositions(token, prices),
   lots |-> CmdLots(token, Asset),
   pnl |-> CmdPnl(token, prices),
   performance |-> CmdPerformance(token),
   allocation |-> CmdAllocation(token, prices),
   view |-> CmdView(token, prices)]

Holdings(r) ==
  [a \in {w.key[2] : w \in r.positions} |-> (CHOOSE w \in r.positions : w.key[2] = a).qty]
Traded(w) == <<w.key, w.realized, w.invested, w.proceeds, w.fees>>

(* What makes one story of the answers in r.                               *)
OneStory(r) ==
  IF r.own = {} /\ r.token # NoToken
  THEN {r.list, r.export, r.replay, r.positions, r.lots, r.pnl, r.performance,
        r.allocation, r.view} = {Refused}
  ELSE /\ {w.key[1] : w \in r.performance \cup r.positions \cup r.lots} \subseteq r.own
       /\ {Traded(w) : w \in r.performance} = {Traded(w) : w \in r.pnl}
       /\ SumFunction([v \in r.view |-> v.of.currentValue])
            = SumFunction([w \in r.positions |-> OrZero(w.value)])
       /\ r.allocation # {} =>
            SumFunction([v \in r.view |-> v.of.currentValue])
              = SumFunction([w \in r.allocation |-> w.value])
       /\ \A w \in r.positions : w.key \notin r.cash =>
            w.qty = QtyOf({l.lot : l \in {m \in r.lots : m.key = w.key}})
       /\ r.list = r.export
       /\ ToSet(r.export) = {e.tx : e \in r.replay}
       /\ r.token # NoToken =>
            \A d \in CmdReconcile(r.token, Holdings(r)) : d.status = "match"

(* The commands, given one token, tell one story: performance and pnl      *)
(* realize the same, the view's values are the positions' and allocation   *)
(* distributes them, the open lots add up to the positions without a cash  *)
(* row, list, export and replay show the same rows, the holdings of one    *)
(* portfolio reconcile with themselves, and whatever is shown belongs to   *)
(* the portfolio the token names (cmd_* over compute_performance,          *)
(* compute_pnl, compute_allocation, get_portfolio_summary, compute_lots,   *)
(* reconcile and replay_fifo, which each read and compute on their own).   *)
ReportsAgree ==
  \A r \in {Session(token, live) : token \in Tokens \cup {NoToken}, live \in Prices} : OneStory(r)
=============================================================================
