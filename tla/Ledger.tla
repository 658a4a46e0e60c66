-------------------------------- MODULE Ledger --------------------------------
(***************************************************************************)
(* The portfolio ledger: portfolios, transactions and decision traces in   *)
(* SQLite, and the views computed from the transaction stream - FIFO lots, *)
(* the derived cash row, positions, P&L, summary and replay.  Rows may be  *)
(* booked with any timestamp and removed at any time, so every view is     *)
(* recomputed from the rows, ordered by (ts, id).                          *)
(***************************************************************************)
EXTENDS Integers, FiniteSets, SequencesExt

CONSTANTS
  Pid,          \* portfolio ids, handed out in order: 1..MaxPortfolios
  Asset,        \* asset keys
  CashAssets,   \* CashAssets[p]: the keys whose symbol is p's base currency
  Entries,      \* what may be booked: [pid, ts, side, asset, qty, price, fee, hash]
  NoHash,       \* tx_hash NULL: never equal to another hash
  NoValue,      \* the value of a position without a price
  Prices,       \* the price maps a view is asked with
  MaxTx         \* bound on inserted rows

ASSUME PidAssumption == IsFiniteSet(Pid) /\ Pid = 1..Cardinality(Pid)
ASSUME CashAssumption == CashAssets \in [Pid -> SUBSET Asset]
ASSUME BoundAssumption == MaxTx \in Nat

(* What can be booked, and the row it becomes. *)
Booking == [pid : Pid, ts : Nat, side : {"BUY", "SELL"}, asset : Asset,
            qty : Nat \ {0}, price : Nat, fee : Nat, hash : {NoHash} \cup STRING]
Transaction == [id : Nat, pid : Pid, ts : Nat, side : {"BUY", "SELL"}, asset : Asset,
                qty : Nat \ {0}, price : Nat, fee : Nat, hash : {NoHash} \cup STRING]

ASSUME EntryAssumption == Entries \subseteq Booking
ASSUME ValueAssumption ==
  /\ IsFiniteSet(Asset)
  /\ NoValue \notin Int
  /\ \A prices \in Prices : \A a \in DOMAIN prices : prices[a] \in Int

VARIABLES
  portfolios,   \* ids in the portfolios table
  nextPid,      \* its AUTOINCREMENT counter
  txs,          \* the transactions table
  nextId,       \* its AUTOINCREMENT counter
  decided       \* portfolios that a decision row references

vars == <<portfolios, nextPid, txs, nextId, decided>>

Keys == Pid \X Asset

(* Mutant: books keyed by the asset alone. *)
KeyOf_Asset(t) == <<1, t.asset>>

KeyOf(t) == <<t.pid, t.asset>>
Signed(t) == IF t.side = "BUY" THEN t.qty ELSE 0 - t.qty
IsCash(t) == t.asset \in CashAssets[t.pid]
Row(e, id) == [id |-> id, pid |-> e.pid, ts |-> e.ts, side |-> e.side, asset |-> e.asset,
               qty |-> e.qty, price |-> e.price, fee |-> e.fee, hash |-> e.hash]

-----------------------------------------------------------------------------
(* The transaction stream *)

Before(t, u) == t.ts < u.ts \/ (t.ts = u.ts /\ t.id < u.id)

(* Mutant: rows taken as they were booked. *)
Stream_Booked(R) ==
  [i \in 1..Cardinality(R) |->
     CHOOSE t \in R : Cardinality({u \in R : u.id < t.id}) = i - 1]

(* ORDER BY ts ASC, id ASC *)
Stream(R) ==
  [i \in 1..Cardinality(R) |->
     CHOOSE t \in R : Cardinality({u \in R : Before(u, t)}) = i - 1]

(* _fetch_transactions_sorted: one portfolio's rows; P = Pid is no filter. *)
RowsOf(P) == {t \in txs : t.pid \in P}

-----------------------------------------------------------------------------
(* FIFO cost basis *)

(* One lot of the while loop of a sale.                                    *)
TakeFrom(acc, lot) ==
  LET took == Min({lot.qty, acc.left}) IN
  [left |-> acc.left - took,
   lots |-> IF took < lot.qty
              THEN Append(acc.lots, [lot EXCEPT !.qty = @ - took])
              ELSE acc.lots,
   taken |-> IF took > 0
               THEN acc.taken \cup {[lot EXCEPT !.qty = took]}
               ELSE acc.taken]

(* The loop: lots are consumed from the front; what finds no lot (left) is *)
(* dropped.                                                                *)
Consume(lots, qty) ==
  FoldLeft(TakeFrom, [left |-> qty, lots |-> <<>>, taken |-> {}], lots)

CostOf(lots) == SumFunction([l \in lots |-> l.qty * l.price])
QtyOf(lots) == SumFunction([l \in lots |-> l.qty])

EmptyBook == [lots |-> <<>>, realized |-> 0, costOfSold |-> 0, bought |-> 0,
              sold |-> 0, invested |-> 0, proceeds |-> 0, fees |-> 0]

Bought(book, t) ==
  [book EXCEPT !.lots = Append(@, [id |-> t.id, qty |-> t.qty, price |-> t.price]),
               !.bought = @ + t.qty,
               !.invested = @ + t.qty * t.price,
               !.fees = @ + t.fee]

(* A sale of realized units at t.price, which took the lots in sale.taken. *)
Settle(book, t, sale, realized) ==
  [book EXCEPT !.lots = sale.lots,
               !.realized = @ + realized * t.price - CostOf(sale.taken),
               !.costOfSold = @ + CostOf(sale.taken),
               !.sold = @ + t.qty,
               !.proceeds = @ + t.qty * t.price,
               !.fees = @ + t.fee]

(* Mutant: the whole sale is realized, whatever found a lot. *)
Sold_Whole(book, t) == Settle(book, t, Consume(book.lots, t.qty), t.qty)

Sold(book, t) ==
  LET sale == Consume(book.lots, t.qty) IN Settle(book, t, sale, QtyOf(sale.taken))

(* compute_fifo: the books of all keys, in one pass over the stream. *)
Booked(books, t) ==
  [books EXCEPT ![KeyOf(t)] = IF t.side = "BUY" THEN Bought(@, t) ELSE Sold(@, t)]

Fifo(R) == FoldLeft(Booked, [k \in Keys |-> EmptyBook], Stream(R))

(* compute_lots *)
Lots(R) ==
  UNION {{[key |-> k, lot |-> l] : l \in ToSet(books[k].lots)} :
           k \in Keys, books \in {Fifo(R)}}

-----------------------------------------------------------------------------
(* The derived cash row *)

(* Mutant: the fee of a sale is not charged. *)
CashFlow_NoSaleFee(t) ==
  IF t.side = "BUY" THEN 0 - (t.qty * t.price + t.fee) ELSE t.qty * t.price

(* What a non-cash row moves the cash row by. *)
CashFlow(t) ==
  IF t.side = "BUY" THEN 0 - (t.qty * t.price + t.fee) ELSE t.qty * t.price - t.fee

(* The asset of a portfolio's first cash row. *)
FirstCash(stream, p) ==
  stream[Min({i \in DOMAIN stream : stream[i].pid = p /\ IsCash(stream[i])})].asset

(* One row: a cash row moves its own key, another is charged to the        *)
(* portfolio's first cash key once its first cash row has been seen.       *)
CashMoved(acc, t, stream) ==
  CASE IsCash(t) ->
         [seen |-> acc.seen \cup {KeyOf(t)},
          balance |-> [acc.balance EXCEPT ![KeyOf(t)] = @ + Signed(t) * t.price]]
    [] ~IsCash(t) /\ (\E k \in acc.seen : k[1] = t.pid) ->
         [acc EXCEPT !.balance[<<t.pid, FirstCash(stream, t.pid)>>] = @ + CashFlow(t)]
    [] OTHER -> acc

(* derive_cash_balances: the balance of every key with a cash row. *)
CashBalances(R) ==
  LET stream == Stream(R)
      end == FoldLeft(LAMBDA acc, t : CashMoved(acc, t, stream),
                      [seen |-> {}, balance |-> [k \in Keys |-> 0]], stream)
  IN [k \in end.seen |-> end.balance[k]]

-----------------------------------------------------------------------------
(* Views.  A position without a price has value NoValue. *)

OrZero(v) == IF v = NoValue THEN 0 ELSE v

(* compute_positions: one row per key with open lots, cash rows overriding *)
(* theirs and shown at any balance.                                        *)
CashRow(key, balance) ==
  [key |-> key, qty |-> balance, cost |-> balance, value |-> balance, unrealized |-> 0]

HeldRow(key, qty, cost, value) ==
  [key |-> key, qty |-> qty, cost |-> cost, value |-> value,
   unrealized |-> IF value = NoValue THEN NoValue ELSE value - cost]

PositionsOf(lots, cash, prices) ==
  LET Of(k) == {l.lot : l \in {m \in lots : m.key = k}} IN
  {CashRow(k, cash[k]) : k \in DOMAIN cash}
  \cup {HeldRow(k, QtyOf(Of(k)), CostOf(Of(k)),
                IF k[2] \in DOMAIN prices THEN QtyOf(Of(k)) * prices[k[2]] ELSE NoValue) :
          k \in {l.key : l \in lots} \ DOMAIN cash}

Positions(R, prices) == PositionsOf(Lots(R), CashBalances(R), prices)

(* compute_pnl: one row per key that was ever traded. *)
PnlRow(key, book, rows) ==
  [key |-> key, realized |-> book.realized, invested |-> book.invested,
   proceeds |-> book.proceeds, fees |-> book.fees,
   remaining |-> SumFunction([w \in rows |-> w.qty]),
   unrealized |-> IF rows = {} THEN NoValue ELSE (CHOOSE w \in rows : TRUE).unrealized]

PnlOf(keys, books, positions) ==
  {PnlRow(k, books[k], {w \in positions : w.key = k}) : k \in keys}

Pnl(R, prices) == PnlOf({KeyOf(t) : t \in R}, Fifo(R), Positions(R, prices))

(* get_portfolio_summary *)
SummaryOf(pnl, positions) ==
  [invested |-> SumFunction([w \in pnl |-> w.invested]),
   currentValue |-> SumFunction([w \in positions |-> OrZero(w.value)]),
   totalPnl |-> SumFunction([w \in pnl |-> w.realized + OrZero(w.unrealized)]),
   positions |-> Cardinality(positions)]

Summary(p, R, prices) ==
  SummaryOf({w \in Pnl(R, prices) : w.key[1] = p},
            {w \in Positions(R, prices) : w.key[1] = p})

(* The equity compute_portfolio_drawdown compares with the peak: positions *)
(* without a price count at cost.                                          *)
Equity(R, prices) ==
  SumFunction([w \in Positions(R, prices) |->
                 IF w.value = NoValue THEN w.cost ELSE w.value])

(* replay_fifo: the event of each row, with the lots a sale consumed and   *)
(* what remains of a purchase at the end.                                  *)
Replayed(acc, t) ==
  IF t.side = "BUY"
    THEN [lots |-> [acc.lots EXCEPT ![KeyOf(t)] =
                      Append(@, [id |-> t.id, qty |-> t.qty, price |-> t.price])],
          events |-> acc.events \cup {[tx |-> t, consumed |-> {}, pnl |-> 0]}]
    ELSE LET sale == Consume(acc.lots[KeyOf(t)], t.qty) IN
         [lots |-> [acc.lots EXCEPT ![KeyOf(t)] = sale.lots],
          events |-> acc.events \cup
            {[tx |-> t, consumed |-> sale.taken,
              pnl |-> QtyOf(sale.taken) * t.price - CostOf(sale.taken)]}]

ReplayFifo(R) ==
  LET end == FoldLeft(Replayed, [lots |-> [k \in Keys |-> <<>>], events |-> {}], Stream(R))
      Left(id) == QtyOf({l \in UNION {ToSet(end.lots[k]) : k \in Keys} : l.id = id})
  IN {[tx |-> e.tx, consumed |-> e.consumed, pnl |-> e.pnl,
       remain |-> IF e.tx.side = "BUY" THEN Left(e.tx.id) ELSE 0] : e \in end.events}

-----------------------------------------------------------------------------
Init ==
  /\ portfolios = {}
  /\ nextPid = 1
  /\ txs = {}
  /\ nextId = 1
  /\ decided = {}

(* A command resolves its portfolio in one connection and changes it in    *)
(* another, so the id it holds may be any that was ever handed out; ids    *)
(* are never reused.                                                       *)
Resolved == {p \in Pid : p < nextPid}

CmdPortfolioCreate ==
  /\ nextPid \in Pid
  /\ portfolios' = portfolios \cup {nextPid}
  /\ nextPid' = nextPid + 1
  /\ UNCHANGED <<txs, nextId, decided>>

(* Mutant: foreign keys off, SQLite's default. *)
Accepted_NoForeignKey(e) ==
  \A t \in txs : \/ e.hash = NoHash \/ t.hash # e.hash
                 \/ <<t.pid, t.ts, t.side, t.asset>> # <<e.pid, e.ts, e.side, e.asset>>

(* The table's constraints on an inserted row: the portfolio exists, and   *)
(* (portfolio_id, ts, tx_hash, side, asset) is unique.                     *)
Accepted(e) ==
  /\ e.pid \in portfolios
  /\ \A t \in txs : \/ e.hash = NoHash \/ t.hash # e.hash
                    \/ <<t.pid, t.ts, t.side, t.asset>> # <<e.pid, e.ts, e.side, e.asset>>

(* cmd_add *)
AddTransaction(e) ==
  /\ nextId <= MaxTx
  /\ e.pid \in Resolved
  /\ Accepted(e)
  /\ txs' = txs \cup {Row(e, nextId)}
  /\ nextId' = nextId + 1
  /\ UNCHANGED <<portfolios, nextPid, decided>>

(* A fill booked with its decision trace, in one database transaction. *)
AddTransactionWithDecision(e) ==
  /\ nextId <= MaxTx
  /\ e.pid \in Resolved
  /\ Accepted(e)
  /\ txs' = txs \cup {Row(e, nextId)}
  /\ nextId' = nextId + 1
  /\ decided' = decided \cup {e.pid}
  /\ UNCHANGED <<portfolios, nextPid>>

(* cmd_remove *)
RemoveTransaction(t) ==
  /\ txs' = txs \ {t}
  /\ UNCHANGED <<portfolios, nextPid, nextId, decided>>

(* cmd_portfolio_delete: the second statement fails on a portfolio that a  *)
(* decision references, and the first is then never committed.             *)
DeletePortfolio(p) ==
  /\ p \in Resolved
  /\ p \notin decided
  /\ txs' = {t \in txs : t.pid # p}
  /\ portfolios' = portfolios \ {p}
  /\ UNCHANGED <<nextPid, nextId, decided>>

Next ==
  \/ CmdPortfolioCreate
  \/ \E e \in Entries : AddTransaction(e) \/ AddTransactionWithDecision(e)
  \/ \E t \in txs : RemoveTransaction(t)
  \/ \E p \in Pid : DeletePortfolio(p)

Spec == Init /\ [][Next]_vars

-----------------------------------------------------------------------------
(* Properties *)

(* The type invariant: rows are well formed and no id is used twice.       *)
TypeOK ==
  /\ portfolios \subseteq Pid
  /\ decided \subseteq Pid
  /\ nextPid \in Nat \ {0}
  /\ nextId \in Nat \ {0}
  /\ txs \subseteq Transaction
  /\ IsFiniteSet(txs)
  /\ \A t \in txs : t.id < nextId /\ \A u \in txs : u.id = t.id => u = t

(* Reference for FIFO, without lots: what is open is the net quantity      *)
(* above its lowest point, and it is the units bought last.                *)
OpenQty(R) ==
  LET Sum(T) == SumFunction([t \in T |-> Signed(t)])
      Net(t) == Sum({u \in R : u = t \/ Before(u, t)})
  IN Sum(R) - Min({0} \cup {Net(t) : t \in R})

OpenCost(R) ==
  LET buys == {t \in R : t.side = "BUY"}
      Later(b) == QtyOf({u \in buys : Before(b, u)})
      Units(b) == Max({0, Min({b.qty, OpenQty(R) - Later(b)})})
  IN SumFunction([b \in buys |-> Units(b) * b.price])

(* The open lots of every key are its latest purchases, to the quantity    *)
(* the stream leaves open: a sale always takes the oldest lot, an          *)
(* over-sell is forgotten, and a row booked late is matched in its place   *)
(* (compute_fifo).                                                         *)
LotsAreLatestBuys ==
  LET books == Fifo(txs) IN
  \A k \in Keys :
    LET R == {t \in txs : KeyOf(t) = k}
        lots == ToSet(books[k].lots)
    IN /\ QtyOf(lots) = OpenQty(R)
       /\ CostOf(lots) = OpenCost(R)

(* The two implementations of FIFO agree: what replay_fifo shows per event *)
(* adds up to what compute_fifo realizes per key, and the purchases it     *)
(* shows as remaining are compute_fifo's open lots.                        *)
ReplayAgreesWithFifo ==
  LET books == Fifo(txs)
      events == ReplayFifo(txs)
      Of(k) == {e \in events : KeyOf(e.tx) = k}
  IN /\ \A k \in Keys :
          /\ books[k].realized = SumFunction([e \in Of(k) |-> e.pnl])
          /\ books[k].costOfSold = SumFunction([e \in Of(k) |-> CostOf(e.consumed)])
     /\ {<<l.key, l.lot.id, l.lot.qty>> : l \in Lots(txs)}
          = {<<KeyOf(e.tx), e.tx.id, e.remain>> : e \in {f \in events : f.remain > 0}}

(* Where a portfolio's equity comes from, for one with a cash row: net     *)
(* deposits, the P&L the summary reports, less the fees the cash row was   *)
(* charged, plus what sales without a lot brought in and what was spent    *)
(* before the row existed (derive_cash_balances, compute_positions and     *)
(* get_portfolio_summary together).                                        *)
EquityIsExplained ==
  \A p \in portfolios, prices \in Prices :
    LET R == RowsOf({p})
        cash == {t \in R : IsCash(t)}
        trades == R \ cash
        books == Fifo(R)
        charged == {t \in trades : \E c \in cash : Before(c, t)}
        SignedCost(T) == SumFunction([t \in T |-> Signed(t) * t.price])
        cashRealized == SumFunction([a \in CashAssets[p] |-> books[<<p, a>>].realized])
        uncovered == SumFunction([a \in Asset \ CashAssets[p] |->
          books[<<p, a>>].proceeds - books[<<p, a>>].realized - books[<<p, a>>].costOfSold])
    IN cash # {} =>
         Equity(R, prices) = SignedCost(cash)
                             + Summary(p, R, prices).totalPnl - cashRealized
                             - SumFunction([t \in charged |-> t.fee])
                             + uncovered
                             + SignedCost(trades \ charged)

(* A view of all portfolios is the union of the views of each: one pass    *)
(* over the mixed stream keeps lots, cash boundaries and books apart       *)
(* (the portfolio_id=None paths).                                          *)
AllIsTheUnion ==
  \A prices \in Prices :
    /\ Positions(txs, prices) = UNION {Positions(RowsOf({p}), prices) : p \in portfolios}
    /\ Pnl(txs, prices) = UNION {Pnl(RowsOf({p}), prices) : p \in portfolios}
=============================================================================
