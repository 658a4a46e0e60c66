--------------------------- MODULE OpenPositionsSync ---------------------------
(***************************************************************************)
(* The sync that re-derives the watchdog's held file from the ledger:      *)
(* read the file, read the transactions, read the positions, plan, replace *)
(* the file.  Nothing is locked: fills, removals, the operator's editor    *)
(* and other syncs run between any two of those steps.  A file is a        *)
(* sequence of watches; an entry that is not an object is a watch without  *)
(* a ticker, which is treated alike, and the audit note is left out.       *)
(***************************************************************************)
EXTENDS Ledger

CONSTANTS
  Name,           \* what watches are called
  Sync,           \* sync processes: after a fill, or on demand
  Scopes,         \* the sets of portfolios a sync may be asked for
  First,          \* what it may start with: [rows, file], ledger and held file
  Ticker,         \* Ticker[k]: _normalize_ticker of an asset key or monitor
  NoTicker,       \* what an empty monitor normalizes to
  Null,           \* a member that is absent or null
  HandPrice,      \* the entry prices an operator writes
  MaxEdits        \* bound on the operator's changes to file and ledger

VARIABLES
  file,         \* the held file
  edits,        \* the operator's changes so far
  pc,           \* pc[s]: where sync s is
  scope,        \* scope[s]: the portfolios it was asked for
  text,         \* text[s]: the file as it read it
  assets,       \* assets[s]: what _ledger_assets returned
  costs,        \* costs[s]: the positions compute_positions returned
  clean         \* clean[s]: nobody else changed the ledger or the file since s began

(* An entry of the held file, and a price: what was paid for how much. *)
Price == [cost : Int, qty : Int]
Watch == [name : Name, monitor : DOMAIN Ticker, enabled : BOOLEAN,
          size : Int \cup {Null}, price : Price \cup {Null}]

ASSUME SyncAssumption ==
  /\ Scopes \subseteq SUBSET Pid
  /\ HandPrice \subseteq Price
  /\ Null \notin Price
ASSUME FirstAssumption ==
  \A first \in First :
    /\ first.file \in Seq(Watch)
    /\ first.rows \subseteq Transaction
    /\ IsFiniteSet(first.rows)
    /\ {t.id : t \in first.rows} = 1..Cardinality(first.rows)

syncVars == <<pc, scope, text, assets, costs>>
allVars == <<vars, file, edits, syncVars, clean>>

-----------------------------------------------------------------------------
(* Matching a watch with the ledger *)

(* _ledger_assets: bought minus sold, of every key that was ever traded. *)
LedgerAssets(R) ==
  {[pid |-> k[1], asset |-> k[2], net |-> books[k].bought - books[k].sold] :
     k \in {KeyOf(t) : t \in R}, books \in {Fifo(R)}}

KeysOf(H) == {h.asset : h \in H}

(* Mutant: keys of the same ticker are claimed even on an exact match. *)
ClaimedKeys_Ticker(w, H) == {a \in KeysOf(H) : Ticker[a] = Ticker[w.monitor]}

(* _claimed_ledger_keys: the key the watch names, else those of its ticker. *)
ClaimedKeys(w, H) ==
  IF w.monitor \in KeysOf(H) THEN {w.monitor}
                           ELSE {a \in KeysOf(H) : Ticker[a] = Ticker[w.monitor]}

(* _find_ledger_match: the entry of the one key, in the one portfolio that *)
(* holds it, or the only one that ever traded it.                          *)
FindLedgerMatch(w, H) ==
  LET exact == {w.monitor} \cap KeysOf(H)
      alike == {a \in KeysOf(H) : Ticker[a] = Ticker[w.monitor] /\ Ticker[a] # NoTicker}
      keys == IF exact # {} THEN exact ELSE alike
      entries == {h \in H : h.asset \in keys}
      holders == {h \in entries : h.net > 0}
      Matched(S) == [status |-> "matched", entry |-> CHOOSE h \in S : TRUE]
  IN CASE keys = {} -> [status |-> "unmatched"]
       [] Cardinality(keys) > 1 \/ Cardinality(holders) > 1 -> [status |-> "ambiguous"]
       [] Cardinality(keys) = 1 /\ Cardinality(holders) = 1 -> Matched(holders)
       [] Cardinality(keys) = 1 /\ holders = {} /\ Cardinality(entries) = 1 -> Matched(entries)
       [] OTHER -> [status |-> "ambiguous"]

-----------------------------------------------------------------------------
(* The plan *)

(* The positions of compute_positions with their average cost, a fraction. *)
AvgCosts(R) ==
  {[pid |-> p.key[1], asset |-> p.key[2],
    avg |-> IF p.key[2] \in CashAssets[p.key[1]]
              THEN [cost |-> 1, qty |-> 1] ELSE [cost |-> p.cost, qty |-> p.qty]] :
     p \in Positions(R, <<>>)}

(* The cost to write for a matched key: that of its position, if it cost   *)
(* something.                                                              *)
AvgCost(h, C) ==
  {c.avg : c \in {x \in C : x.pid = h.pid /\ x.asset = h.asset /\ x.avg.cost > 0}}

(* Mutant: a size that is there is left alone, like a price. *)
Corrected_FillsSize(w, h, C) ==
  [w EXCEPT !.size = IF @ = Null THEN h.net ELSE @,
            !.price = IF @ = Null /\ AvgCost(h, C) # {}
                        THEN CHOOSE c \in AvgCost(h, C) : TRUE ELSE @]

(* The corrections of a held watch: the size always, the price only when   *)
(* the entry has none.                                                     *)
Corrected(w, h, C) ==
  [w EXCEPT !.size = h.net,
            !.price = IF @ = Null /\ AvgCost(h, C) # {}
                        THEN CHOOSE c \in AvgCost(h, C) : TRUE ELSE @]

(* Mutant: a parked watch is treated like any other. *)
ElementState_Parked(w, H, C) ==
  LET m == FindLedgerMatch(w, H) IN
  CASE m.status # "matched" -> <<w>>
    [] m.status = "matched" /\ m.entry.net < 0 -> <<w>>
    [] m.status = "matched" /\ m.entry.net = 0 -> <<>>
    [] OTHER -> <<Corrected(w, m.entry, C)>>

(* What becomes of one watch: kept as it is, removed, or corrected. *)
ElementState(w, H, C) ==
  LET m == FindLedgerMatch(w, H) IN
  CASE ~w.enabled \/ m.status # "matched" -> <<w>>
    [] w.enabled /\ m.status = "matched" /\ m.entry.net < 0 -> <<w>>
    [] w.enabled /\ m.status = "matched" /\ m.entry.net = 0 -> <<>>
    [] OTHER -> <<Corrected(w, m.entry, C)>>

(* _plan and the splice: the surviving elements, in file order. *)
Plan(f, H, C) == FlattenSeq([i \in DOMAIN f |-> ElementState(f[i], H, C)])

(* The report of held keys that no watch claims. *)
Unwatched(f, H) ==
  {h.asset : h \in {g \in H : g.net > 0}} \ UNION {ClaimedKeys(f[i], H) : i \in DOMAIN f}

-----------------------------------------------------------------------------
SyncInit ==
  /\ portfolios = Pid
  /\ nextPid = Cardinality(Pid) + 1
  /\ \E first \in First : txs = first.rows /\ file = first.file
  /\ nextId = Cardinality(txs) + 1
  /\ decided = {}
  /\ edits = 0
  /\ pc = [s \in Sync |-> "idle"]
  /\ scope = [s \in Sync |-> Pid]
  /\ text = [s \in Sync |-> <<>>]
  /\ assets = [s \in Sync |-> {}]
  /\ costs = [s \in Sync |-> {}]
  /\ clean = [s \in Sync |-> FALSE]

ReadConfig(s) ==
  /\ pc[s] = "idle"
  /\ pc' = [pc EXCEPT ![s] = "assets"]
  /\ \E P \in Scopes : scope' = [scope EXCEPT ![s] = P]
  /\ text' = [text EXCEPT ![s] = file]
  /\ clean' = [clean EXCEPT ![s] = TRUE]
  /\ UNCHANGED <<vars, file, edits, assets, costs>>

ReadLedgerAssets(s) ==
  /\ pc[s] = "assets"
  /\ pc' = [pc EXCEPT ![s] = "positions"]
  /\ assets' = [assets EXCEPT ![s] = LedgerAssets(RowsOf(scope[s]))]
  /\ UNCHANGED <<vars, file, edits, scope, text, costs, clean>>

ReadPositions(s) ==
  /\ pc[s] = "positions"
  /\ pc' = [pc EXCEPT ![s] = "plan"]
  /\ costs' = [costs EXCEPT ![s] = AvgCosts(RowsOf(scope[s]))]
  /\ UNCHANGED <<vars, file, edits, scope, text, assets, clean>>

(* A sync that is done forgets what it read. *)
Forget(s) ==
  /\ pc' = [pc EXCEPT ![s] = "idle"]
  /\ scope' = [scope EXCEPT ![s] = Pid]
  /\ text' = [text EXCEPT ![s] = <<>>]
  /\ assets' = [assets EXCEPT ![s] = {}]
  /\ costs' = [costs EXCEPT ![s] = {}]

Planned(s) == Plan(text[s], assets[s], costs[s])

(* The ledger or the file changed under every sync that is running. *)
Disturb == clean' = [s \in Sync |-> FALSE]

(* The planned text replaces the file, whatever the file is by now. *)
ReplaceFile(s) ==
  /\ pc[s] = "plan"
  /\ Planned(s) # text[s]
  /\ file' = Planned(s)
  /\ Forget(s)
  /\ Disturb
  /\ UNCHANGED <<vars, edits>>

NothingToWrite(s) ==
  /\ pc[s] = "plan"
  /\ Planned(s) = text[s]
  /\ Forget(s)
  /\ clean' = [clean EXCEPT ![s] = FALSE]
  /\ UNCHANGED <<vars, file, edits>>

(* A dry run, an error or a kill: the file is left as it is. *)
EndWithoutWrite(s) ==
  /\ pc[s] # "idle"
  /\ Forget(s)
  /\ clean' = [clean EXCEPT ![s] = FALSE]
  /\ UNCHANGED <<vars, file, edits>>

Fill(e) ==
  /\ AddTransaction(e)
  /\ Disturb
  /\ UNCHANGED <<file, edits, syncVars>>

Removal(t) ==
  /\ edits < MaxEdits
  /\ edits' = edits + 1
  /\ RemoveTransaction(t)
  /\ Disturb
  /\ UNCHANGED <<file, syncVars>>

(* The operator's editor saves the file with one member changed. *)
Edit(i) ==
  /\ edits < MaxEdits
  /\ edits' = edits + 1
  /\ \/ \E b \in BOOLEAN : file' = [file EXCEPT ![i].enabled = b]
     \/ \E p \in HandPrice : file' = [file EXCEPT ![i].price = p]
  /\ Disturb
  /\ UNCHANGED <<vars, syncVars>>

Run(s) ==
  \/ ReadConfig(s) \/ ReadLedgerAssets(s) \/ ReadPositions(s)
  \/ ReplaceFile(s) \/ NothingToWrite(s) \/ EndWithoutWrite(s)

SyncNext ==
  \/ \E s \in Sync : Run(s)
  \/ \E e \in Entries : Fill(e)
  \/ \E t \in txs : Removal(t)
  \/ \E i \in DOMAIN file : Edit(i)

SyncSpec == SyncInit /\ [][SyncNext]_allVars

-----------------------------------------------------------------------------
(* Types *)

(* What _ledger_assets and compute_positions return.                       *)
Holding == [pid : Pid, asset : Asset, net : Int]
Costs == [pid : Pid, asset : Asset, avg : Price]

(* The type invariant: each answer is there once it has been read.         *)
SyncTypeOK ==
  /\ TypeOK
  /\ file \in Seq(Watch)
  /\ edits \in Nat
  /\ pc \in [Sync -> {"idle", "assets", "positions", "plan"}]
  /\ scope \in [Sync -> SUBSET Pid]
  /\ text \in [Sync -> Seq(Watch)]
  /\ assets \in [Sync -> SUBSET Holding]
  /\ \A s \in Sync : IsFiniteSet(assets[s])
  /\ costs \in [Sync -> SUBSET Costs]
  /\ clean \in [Sync -> BOOLEAN]

-----------------------------------------------------------------------------
(* Properties *)

(* What a sync of the portfolios P that reads everything now would see:    *)
(* the two answers of the ledger, and the quantity every key still holds   *)
(* by its FIFO lots.                                                       *)
View(P) ==
  CHOOSE v \in {[assets |-> LedgerAssets(R), costs |-> AvgCosts(R),
                 open |-> [k \in P \X Asset |->
                   QtyOf({l.lot : l \in {m \in lots : m.key = k}})]] :
                R \in {RowsOf(P)}, lots \in {Lots(RowsOf(P))}} : TRUE

Views == {View(P) : P \in Scopes}

(* The keys some portfolio sold more of than it had. *)
Oversold(v) == {h.asset : h \in {g \in v.assets : g.net # v.open[<<g.pid, g.asset>>]}}

(* No plan drops an enabled watch whose key still has open FIFO lots in    *)
(* its scope, unless that key was over-sold: the sync's own net (bought    *)
(* minus sold) and the lots every other view shows agree on what is held.  *)
(* A watch that is parked is never dropped.                                *)
NeverDropsHeld ==
  \A v \in Views : \A i \in DOMAIN file :
    ElementState(file[i], v.assets, v.costs) = <<>> =>
      /\ file[i].enabled
      /\ \A a \in ClaimedKeys(file[i], v.assets) \ Oversold(v) :
           \A k \in DOMAIN v.open : k[2] = a => v.open[k] = 0

(* Every key the ledger holds is named by a watch that the plan keeps or   *)
(* reported as unwatched: no position falls between the two, even when the *)
(* watch of another key of the same ticker is removed in the same plan.    *)
HeldIsWatchedOrReported ==
  \A v \in Views : \A after \in {Plan(file, v.assets, v.costs)} :
    \A h \in {g \in v.assets : g.net > 0} :
      \/ h.asset \in Unwatched(file, v.assets)
      \/ \E i \in DOMAIN after : h.asset \in ClaimedKeys(after[i], v.assets)

(* What a held file says when it agrees with the ledger: of the enabled    *)
(* watches of one key that one portfolio traded, none is flat, each has    *)
(* the open quantity for its size and a price if the position cost         *)
(* something.                                                              *)
Agrees(f, v) ==
  \A i \in DOMAIN f :
    \A h \in {g \in v.assets : g.asset = f[i].monitor /\ g.asset \notin Oversold(v)} :
      (f[i].enabled /\ \A g \in v.assets : g.asset = h.asset => g = h) =>
        /\ v.open[<<h.pid, h.asset>>] > 0
        /\ f[i].size = v.open[<<h.pid, h.asset>>]
        /\ AvgCost(h, v.costs) # {} => f[i].price # Null

(* When a sync ends that no fill, removal, edit or other sync came into,   *)
(* the file agrees with the ledger, however an earlier race left it.       *)
UndisturbedSyncIsExact ==
  [][\A s \in Sync :
       clean[s] /\ (ReplaceFile(s) \/ NothingToWrite(s)) =>
         Agrees(file', View(scope[s]))]_allVars
=============================================================================
