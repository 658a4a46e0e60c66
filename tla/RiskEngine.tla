------------------------------ MODULE RiskEngine ------------------------------
(***************************************************************************)
(* The risk engine: a vet builds a context of one portfolio by a series of *)
(* separate reads (prices, lots, cash, lots and cash again, the persisted  *)
(* high-water mark, today's trades), maintains the high-water mark on the  *)
(* way, and evaluates the policies.  Fills, price refreshes and other vets *)
(* run between any two of those steps; nothing is locked.                  *)
(*                                                                         *)
(* Money is in whole units, volumes and costs in hundredths.               *)
(***************************************************************************)
EXTENDS Integers, FiniteSets, SequencesExt

CONSTANTS
  Vet,          \* vetting processes
  Asset,        \* assets other than the base currency
  Cost,         \* Cost[a]: what one unit of a is bought and sold for
  Quotes,       \* prices a refresh may put into the cache
  Intents,      \* records [asset, side, venue, vol, limit, lev, stop, entry]
  Outside,      \* what the portfolio is asked by, and what other services say:
                \* records [named, macro, perps, funding], funding as its magnitude
  Tier,         \* Tier[a]: its tier in the watchlist, or None
  Defaults,     \* the limits of RiskContext, a record
  Overrides,    \* [global, portfolio, pair |-> [Asset -> limits]] of policies.yaml
  FirstBooks,   \* records [held, cash, peak, rebased] the portfolio may start with
  None,
  MaxFills, MaxQuotes   \* bounds on the fills and the price refreshes

VARIABLES
  held,     \* held[a]: open quantity, in units
  cash,     \* the derived cash row, None before the allocation is booked
  price,    \* price[a]: what the price cache, or else a live quote, says; None
  peak,     \* portfolios.peak_value
  rebased,  \* portfolios.peak_model is stamped
  today,    \* today's trades, as [asset, side, n], n-th of the day
  fills, quotes,   \* so far
  vet,      \* vet[p]: what process p has read, and where it is
  best,     \* the highest equity the portfolio ever had
  blurred   \* a peak was written from reads that the ledger or the prices overtook

vars == <<held, cash, price, peak, rebased, today, fills, quotes, vet, best, blurred>>

Idle == [step |-> "idle", loaded |-> FALSE, prices |-> None, reference |-> None,
         held |-> None, cash |-> None, dheld |-> None, dcash |-> None, peak |-> None, rebased |-> None, trades |-> {},
         clean |-> TRUE]
-----------------------------------------------------------------------------
(* Valuation *)

(* Positions at their cached price, at cost without one. *)
Worth(h, prices) == [a \in Asset |-> h[a] * (IF prices[a] # None THEN prices[a] ELSE Cost[a])]

(* Mutant: the cash row is valued with the positions and added once more. *)
Value_CashTwice(h, c, prices) == SumFunction(Worth(h, prices)) + IF c = None THEN 0 ELSE 2 * c

(* The positions and the cash row. *)
Value(h, c, prices) == SumFunction(Worth(h, prices)) + IF c = None THEN 0 ELSE c

Equity == Value(held, cash, price)

Init ==
  /\ \E b \in FirstBooks :
       held = b.held /\ cash = b.cash /\ peak = b.peak /\ rebased = b.rebased
  /\ price = [a \in Asset |-> None]
  /\ today = {}
  /\ fills = 0 /\ quotes = 0
  /\ vet = [p \in Vet |-> Idle]
  /\ best = Equity
  /\ blurred = FALSE

-----------------------------------------------------------------------------
(* The context a vet has built *)

NoQuantity == [a \in Asset |-> 0]
NoTier == [a \in Asset |-> None]
NoLimits == [x \in {} |-> 0]

(* RiskContext: without a portfolio, or with the one that was read.  The   *)
(* tier of the held assets goes into the exposure; the metadata that the   *)
(* tier policy looks the intent's tier up in is never filled in.           *)
Context(v, o) ==
  LET empty == ~v.loaded
      h == IF empty THEN NoQuantity ELSE v.held
      equity == IF empty THEN 0 ELSE Value(v.dheld, v.dcash, v.prices)
      mark == IF empty THEN 0 ELSE Max({v.peak, equity})
  IN [held |-> h,
      quote |-> [a \in Asset |-> IF h[a] > 0 THEN v.prices[a] ELSE None],
      reference |-> v.reference,
      cash |-> IF empty \/ v.cash = None THEN 0 ELSE v.cash,
      total |-> IF empty THEN 0 ELSE Value(v.held, v.cash, v.prices),
      lost |-> IF equity >= mark THEN 0 ELSE mark - equity,
      mark |-> mark,
      exposure |-> [t \in Range(Tier) \ {None} |->
                      SumFunctionOnSet(Worth(h, v.prices), {a \in Asset : Tier[a] = t})],
      metadata |-> NoTier,
      named |-> v.loaded /\ o.named,
      trades |-> v.trades,
      macro |-> o.macro, perps |-> o.perps, funding |-> o.funding]

Overlay(own, base) ==
  [x \in DOMAIN own \cup DOMAIN base |-> IF x \in DOMAIN own THEN own[x] ELSE base[x]]

(* _apply_dict_overrides: what the block sets wins, for the caps tier by tier. *)
Applied(lim, block) ==
  [x \in DOMAIN lim |->
     IF x \notin DOMAIN block THEN lim[x]
     ELSE IF x = "tierPct" THEN Overlay(block[x], lim[x]) ELSE block[x]]

(* apply_global_, apply_portfolio_ and apply_pair_overrides, in this order;   *)
(* the portfolio's block is found by name only.                               *)
Limits(i, c) ==
  LET general == Applied(Defaults, Overrides.global)
      mine == IF c.named THEN Applied(general, Overrides.portfolio) ELSE general
  IN Applied(mine, Overrides.pair[i.asset])

(* Mutant: an order without any price is costed at zero. *)
UnitPrice_Zero(i, c) ==
  IF i.limit # None THEN i.limit
  ELSE IF c.quote[i.asset] # None THEN c.quote[i.asset] ELSE 0

(* resolve_reference_price: the limit or the intent's own hint, else the   *)
(* held position's price, else the reference price, which is only looked up *)
(* for a spot buy.                                                         *)
UnitPrice(i, c) ==
  IF i.limit # None THEN i.limit
  ELSE IF c.quote[i.asset] # None THEN c.quote[i.asset]
  ELSE IF i.side = "buy" /\ i.venue = "spot" THEN c.reference[i.asset] ELSE None

-----------------------------------------------------------------------------
(* The policies: each returns [status] or a SCALE with the volume it suggests *)

Verdict(s) == [status |-> s, vol |-> None]
Scale(cost, unit) == [status |-> "SCALE", vol |-> cost \div unit]
Approved == Verdict("APPROVED")
Concern == Verdict("CONCERN")
Reject == Verdict("REJECT")

(* Within the cap, up to a tenth above it, up to three times it, beyond. *)
Oversized(cost, cap, unit) ==
  IF cost <= cap THEN Approved
  ELSE IF cost > 3 * cap THEN Reject
  ELSE IF cost * 10 <= cap * 11 THEN Concern ELSE Scale(cap, unit)

PositionSize(i, c, lim) ==
  LET unit == UnitPrice(i, c)
  IN IF c.total <= 0 THEN Approved
     ELSE IF i.side = "sell" /\ c.held[i.asset] <= 0 THEN Concern
     ELSE IF unit = None THEN Concern
     ELSE Oversized(i.vol * unit, c.total * lim.positionPct, unit)

PortfolioDrawdown(i, c, lim) ==
  IF c.lost * 100 >= c.mark * lim.drawdownPct /\ (c.mark > 0 \/ lim.drawdownPct = 0) THEN Reject
  ELSE IF c.lost * 400 >= c.mark * lim.drawdownPct * 3 /\ c.mark > 0 THEN Concern
  ELSE Approved

PerTierExposure(i, c, lim) ==
  LET t == c.metadata[i.asset]
      unit == UnitPrice(i, c)
      room == c.total * lim.tierPct[t] - c.exposure[t] * 100
  IN IF lim.tierPct = NoLimits THEN Approved
     ELSE IF t = None THEN Concern
     ELSE IF t \notin DOMAIN lim.tierPct \/ i.side = "sell" THEN Approved
     ELSE IF unit = None THEN Concern
     ELSE IF c.total <= 0 \/ i.vol * unit <= room THEN Approved
     ELSE IF room <= 0 THEN Reject ELSE Scale(room, unit)

DailyBudget(i, c, lim) ==
  LET after == Cardinality(c.trades) + 1
  IN IF after > lim.budget THEN Reject ELSE IF after = lim.budget THEN Concern ELSE Approved

InsufficientFunds(i, c, lim) ==
  LET unit == UnitPrice(i, c)
  IN IF i.side = "sell"
       THEN IF i.vol > c.held[i.asset] * 100 THEN Reject ELSE Approved
     ELSE IF unit = None THEN Concern
     ELSE IF i.vol * unit > c.cash * 100
       THEN IF c.total > 0 \/ c.cash > 0 THEN Reject ELSE Concern
     ELSE IF i.vol * unit * 2 > c.cash * 100 THEN Concern ELSE Approved

(* The cooldown is taken to span the day: only today's trades are read. *)
PerPairCooldown(i, c, lim) ==
  IF lim.cooldown > 0 /\ \E t \in c.trades : t.asset = i.asset /\ t.side = i.side
  THEN Concern ELSE Approved

RegimeConsistency(i, c, lim) ==
  LET fits == IF i.side = "buy" THEN {"RISK_ON", "NEUTRAL"} ELSE {"RISK_OFF", "CRISIS"}
  IN IF c.macro = None \/ c.macro \in fits \/ (i.side = "sell" /\ c.held[i.asset] > 0)
     THEN Approved ELSE Concern

LeverageCap(i, c, lim) == IF i.lev > lim.leverage THEN Reject ELSE Approved

(* The move to liquidation is taken as 1/leverage + the maintenance margin. *)
LiquidationDistance(i, c, lim) ==
  IF i.entry = None THEN Concern
  ELSE IF 100 + lim.marginPct * i.lev < lim.liquidationPct * i.lev THEN Reject ELSE Approved

StopDistance(i, c, lim) ==
  LET gap == 100 * (IF i.stop < i.entry THEN i.entry - i.stop ELSE i.stop - i.entry)
  IN IF i.entry = None THEN Concern
     ELSE IF gap < lim.stopMinPct * i.entry \/ gap > lim.stopMaxPct * i.entry
     THEN Reject ELSE Approved

FundingDrag(i, c, lim) ==
  IF c.funding = None \/ 3 * lim.holdDays * c.funding >= lim.fundingPct THEN Concern ELSE Approved

DuplicatePerpsPosition(i, c, lim) ==
  IF [asset |-> i.asset, side |-> i.side] \in c.perps THEN Reject ELSE Approved

(* select_policies: a perps intent goes through the spot policies as well. *)
Fragments(i, c, lim) ==
  {PositionSize(i, c, lim), PortfolioDrawdown(i, c, lim), PerTierExposure(i, c, lim),
   DailyBudget(i, c, lim), InsufficientFunds(i, c, lim), PerPairCooldown(i, c, lim),
   RegimeConsistency(i, c, lim)}
  \cup IF i.venue # "perps" THEN {}
       ELSE {LeverageCap(i, c, lim), LiquidationDistance(i, c, lim), StopDistance(i, c, lim),
             FundingDrag(i, c, lim), DuplicatePerpsPosition(i, c, lim)}

Rank == [APPROVED |-> 0, CONCERN |-> 1, SCALE |-> 2, REJECT |-> 3]
Worst(F) == Max({Rank[f.status] : f \in F})

(* Mutant: the largest suggestion wins. *)
Suggested_Largest(F) == Max({f.vol : f \in {g \in F : g.status = "SCALE"}})
(* vet: the worst status counts, and the smallest of the suggested volumes. *)
Suggested(F) == Min({f.vol : f \in {g \in F : g.status = "SCALE"}})

-----------------------------------------------------------------------------
(* build_context, read by read *)

At(p, step) == vet[p].step = step
Then(p, step, v) == vet' = [vet EXCEPT ![p] = [v EXCEPT !.step = step]]
world == <<held, cash, price, today, fills, quotes>>

(* The assets held now, their prices, and the reference price of the pair; *)
(* without a portfolio only the latter, and the vet is ready.              *)
Begin(p, loaded) ==
  /\ At(p, "idle")
  /\ Then(p, IF loaded THEN "lots" ELSE "vetted",
          [Idle EXCEPT !.loaded = loaded, !.reference = price,
                       !.prices = [a \in Asset |-> IF loaded /\ held[a] > 0
                                                   THEN price[a] ELSE None]])
  /\ UNCHANGED <<world, peak, rebased, best, blurred>>

ReadLots(p) ==
  /\ At(p, "lots")
  /\ Then(p, "cash", [vet[p] EXCEPT !.held = held])
  /\ UNCHANGED <<world, peak, rebased, best, blurred>>

ReadCash(p) ==
  /\ At(p, "cash")
  /\ Then(p, "drawdown lots", [vet[p] EXCEPT !.cash = cash])
  /\ UNCHANGED <<world, peak, rebased, best, blurred>>

(* compute_portfolio_drawdown reads the positions once more. *)
ReadLotsAgain(p) ==
  /\ At(p, "drawdown lots")
  /\ Then(p, "drawdown cash", [vet[p] EXCEPT !.dheld = held])
  /\ UNCHANGED <<world, peak, rebased, best, blurred>>

ReadCashAgain(p) ==
  /\ At(p, "drawdown cash")
  /\ Then(p, "select", [vet[p] EXCEPT !.dcash = cash])
  /\ UNCHANGED <<world, peak, rebased, best, blurred>>

SelectPeak(p) ==
  /\ At(p, "select")
  /\ Then(p, IF rebased THEN "raise" ELSE "rebase",
          [vet[p] EXCEPT !.peak = peak, !.rebased = rebased])
  /\ UNCHANGED <<world, peak, rebased, best, blurred>>

(* Mutant: the marker is stamped, the old peak is kept. *)
Rebase_StampOnly(p) ==
  /\ At(p, "rebase")
  /\ rebased' = TRUE
  /\ Then(p, "raise", vet[p])
  /\ UNCHANGED <<world, peak, best, blurred>>

(* The one-time re-baseline: the old peak is dropped if there is a cash row. *)
Rebase(p) ==
  /\ At(p, "rebase")
  /\ rebased' = TRUE
  /\ IF vet[p].dcash = None
       THEN peak' = peak /\ Then(p, "raise", vet[p])
       ELSE peak' = 0 /\ Then(p, "raise", [vet[p] EXCEPT !.peak = 0])
  /\ UNCHANGED <<world, best, blurred>>

NewPeak(old, equity) == Max({old, equity})

RaisePeak(p) ==
  LET new == NewPeak(vet[p].peak, Value(vet[p].dheld, vet[p].dcash, vet[p].prices)) IN
  /\ At(p, "raise")
  /\ IF new # vet[p].peak
       THEN peak' = new /\ blurred' = (blurred \/ ~vet[p].clean)
       ELSE UNCHANGED <<peak, blurred>>
  /\ Then(p, "trades", [vet[p] EXCEPT !.peak = new])
  /\ UNCHANGED <<world, rebased, best>>

ReadTrades(p) ==
  /\ At(p, "trades")
  /\ Then(p, "vetted", [vet[p] EXCEPT !.trades = today])
  /\ UNCHANGED <<world, peak, rebased, best, blurred>>

(* The verdict is printed; the next vet starts afresh. *)
Answer(p) ==
  /\ At(p, "vetted")
  /\ vet' = [vet EXCEPT ![p] = Idle]
  /\ UNCHANGED <<world, peak, rebased, best, blurred>>

-----------------------------------------------------------------------------
(* The portfolio moves *)

Overtake ==
  vet' = [p \in Vet |-> IF At(p, "idle") THEN vet[p] ELSE [vet[p] EXCEPT !.clean = FALSE]]

(* A buy or a sell of one unit is booked: one row, seen by lots and cash. *)
Fill(a, side) ==
  /\ fills < MaxFills
  /\ side = "sell" => held[a] > 0
  /\ held' = [held EXCEPT ![a] = @ + IF side = "buy" THEN 1 ELSE -1]
  /\ cash' = IF cash = None THEN None ELSE cash - IF side = "buy" THEN Cost[a] ELSE -Cost[a]
  /\ fills' = fills + 1
  /\ today' = today \cup {[asset |-> a, side |-> side, n |-> fills']}
  /\ best' = Max({best, Value(held', cash', price)})
  /\ Overtake
  /\ UNCHANGED <<price, quotes, peak, rebased, blurred>>

(* refresh_prices *)
Quote(a, x) ==
  /\ quotes < MaxQuotes
  /\ price[a] # x
  /\ price' = [price EXCEPT ![a] = x]
  /\ quotes' = quotes + 1
  /\ best' = Max({best, Value(held, cash, price')})
  /\ Overtake
  /\ UNCHANGED <<held, cash, today, fills, peak, rebased, blurred>>

Midnight ==
  /\ today # {}
  /\ today' = {}
  /\ Overtake
  /\ UNCHANGED <<held, cash, price, fills, quotes, peak, rebased, best, blurred>>

Next ==
  \/ \E p \in Vet :
       \/ \E loaded \in BOOLEAN : Begin(p, loaded)
       \/ ReadLots(p) \/ ReadCash(p) \/ ReadLotsAgain(p) \/ ReadCashAgain(p)
       \/ SelectPeak(p) \/ Rebase(p) \/ RaisePeak(p)
       \/ ReadTrades(p) \/ Answer(p)
  \/ \E a \in Asset, side \in {"buy", "sell"} : Fill(a, side)
  \/ \E a \in Asset, x \in Quotes : Quote(a, x)
  \/ Midnight

Spec == Init /\ [][Next]_vars

-----------------------------------------------------------------------------
(* What the constants are, and the types *)

(* Quantities and costs are whole and not negative, every asset has an     *)
(* entry in the watchlist or None, and a portfolio that starts re-based    *)
(* starts with a peak that is not above its positions at cost and cash.    *)
ASSUME RiskAssumption ==
  /\ IsFiniteSet(Asset) /\ DOMAIN Tier = Asset
  /\ Cost \in [Asset -> Nat]
  /\ \A x \in Quotes : x \in Nat
  /\ None \notin Int
  /\ MaxFills \in Nat /\ MaxQuotes \in Nat
  /\ \A b \in FirstBooks :
       /\ b.held \in [Asset -> Nat] /\ b.cash \in Nat \cup {None}
       /\ b.peak \in Nat /\ b.rebased \in BOOLEAN
       /\ b.rebased /\ b.cash # None => b.peak <= Value(b.held, b.cash, [a \in Asset |-> None])

(* Volumes and limit prices are not negative; caps are percentages; a day  *)
(* has room for one trade and a drawdown of nothing is no drawdown.        *)
IsIntent(i) ==
  /\ i = [asset |-> i.asset, side |-> i.side, venue |-> i.venue, vol |-> i.vol, limit |-> i.limit,
          lev |-> i.lev, stop |-> i.stop, entry |-> i.entry]
  /\ i.asset \in Asset /\ i.vol \in Nat /\ i.limit \in Nat \cup {None}

AreLimits(b) ==
  /\ "positionPct" \in DOMAIN b => b.positionPct \in Nat
  /\ "drawdownPct" \in DOMAIN b => b.drawdownPct \in Nat \ {0}
  /\ "budget" \in DOMAIN b => b.budget \in Nat \ {0}
  /\ "tierPct" \in DOMAIN b => \A t \in DOMAIN b.tierPct : b.tierPct[t] \in Nat

ASSUME PolicyAssumption ==
  /\ \A i \in Intents : IsIntent(i)
  /\ {"positionPct", "drawdownPct", "budget", "tierPct"} \subseteq DOMAIN Defaults
  /\ AreLimits(Defaults) /\ AreLimits(Overrides.global) /\ AreLimits(Overrides.portfolio)
  /\ \A a \in Asset : AreLimits(Overrides.pair[a])

Quantities == [Asset -> Nat]
Prices == [Asset -> Quotes \cup {None}]
Money == Int \cup {None}
Trades == [asset : Asset, side : {"buy", "sell"}, n : 1..MaxFills]
Steps == {"idle", "lots", "cash", "drawdown lots", "drawdown cash", "select", "rebase", "raise",
          "trades", "vetted"}

VetState ==
  [step : Steps, loaded : BOOLEAN, clean : BOOLEAN,
   prices : Prices \cup {None}, reference : Prices \cup {None},
   held : Quantities \cup {None}, dheld : Quantities \cup {None},
   cash : Money, dcash : Money, peak : Money, rebased : BOOLEAN \cup {None},
   trades : SUBSET Trades]

TypeOK ==
  /\ held \in Quantities /\ cash \in Money /\ price \in Prices
  /\ peak \in Int /\ rebased \in BOOLEAN /\ best \in Int /\ blurred \in BOOLEAN
  /\ today \subseteq Trades /\ fills \in 0..MaxFills /\ quotes \in 0..MaxQuotes
  /\ vet \in [Vet -> VetState]

-----------------------------------------------------------------------------
(* Properties *)

(* The contexts a vet that has finished its reads may judge with.  Tier    *)
(* instead of NoTier as metadata is the context the policies' tests build. *)
Contexts(p, metadata) == {[Context(vet[p], o) EXCEPT !.metadata = metadata] : o \in Outside}
Judged(i, c) == Fragments(i, c, Limits(i, c))

(* A vet keeps its context while the others finish theirs, so looking at   *)
(* it when all the others are idle misses no context.                      *)
Judging == {p \in Vet : At(p, "vetted") /\ \A q \in Vet \ {p} : At(q, "idle")}

(* When neither a fill nor a price came in while a vet of a portfolio was  *)
(* reading, its separate reads make one picture: the total is the cash,    *)
(* what the tiers hold and what is in none, it is what the drawdown was    *)
(* computed from, and nothing of the portfolio is left out or counted      *)
(* twice.                                                                  *)
Untiered(c, prices) == SumFunctionOnSet(Worth(c.held, prices), {a \in Asset : Tier[a] = None})
UndisturbedVetIsExact ==
  \A p \in Vet : At(p, "vetted") /\ vet[p].clean /\ vet[p].loaded =>
    \A c \in Contexts(p, NoTier) :
      /\ c.total = c.cash + SumFunction(c.exposure) + Untiered(c, vet[p].prices)
      /\ c.lost = IF c.total >= c.mark THEN 0 ELSE c.mark - c.total
      /\ c.held = held /\ c.trades = today

(* Once the peak is re-based for a portfolio with a cash row it is an      *)
(* equity the portfolio really had, unless a vet computed it from reads    *)
(* that a fill or a price overtook; then the phantom stays for good.       *)
PeakIsHonest ==
  rebased /\ cash # None /\ ~blurred => peak <= best

(* A volume the verdict suggests is itself not scaled down or rejected when *)
(* it is put to the same policies in the same context.                      *)
ScaledIsAccepted ==
  \A p \in Judging :
    \A metadata \in {NoTier, Tier} : \A c \in Contexts(p, metadata), i \in Intents :
      LET F == Judged(i, c) IN
      Worst(F) = Rank.SCALE /\ Suggested(F) > 0 =>
        Worst(Judged([i EXCEPT !.vol = Suggested(F)], c)) <= Rank.CONCERN

(* Missing data is a concern, neither a licence nor a refusal ("never a    *)
(* silent APPROVED", "never REJECT on missing data"): a buy no source has  *)
(* a price for is never waved through, and without a portfolio a spot buy  *)
(* is not rejected.  For a sell the code does not keep the second half.    *)
MissingDataIsAConcern ==
  \A p \in Judging :
    \A c \in Contexts(p, NoTier) : \A i \in {j \in Intents : j.side = "buy"} :
      /\ i.limit = None /\ (~vet[p].loaded \/ vet[p].prices[i.asset] = None)
         /\ (i.venue = "perps" \/ vet[p].reference[i.asset] = None)
         => Worst(Judged(i, c)) >= Rank.CONCERN
      /\ ~vet[p].loaded /\ i.venue = "spot" => Worst(Judged(i, c)) <= Rank.CONCERN
=============================================================================
