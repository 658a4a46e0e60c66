----------------------------- MODULE SpotSubmit -----------------------------
(***************************************************************************)
(* `execution-kraken-spot submit`: one CLI invocation gates an intent,     *)
(* sends it to the venue under the intent id as client order id, polls the *)
(* order until it is terminal or a deadline passes, and books the executed *)
(* volume with its decision trace in one SQLite transaction.               *)
(*                                                                         *)
(* Several invocations run at once, each may be killed between any two     *)
(* steps, requests reach the venue late or not at all, replies are lost,   *)
(* and the caller retries.  The venue (Kraken behind its CLI) and SQLite's *)
(* commit are external: they are modelled from what the code asks of them. *)
(***************************************************************************)
EXTENDS Naturals

CONSTANTS
  Intent,      \* intent ids, the idempotency keys of the orders
  Run,         \* CLI invocations of submit
  NoIntent,    \* the intent of an invocation that has not started
  NoRun,       \* nobody holds SQLite's write lock
  Volume,      \* the volume every intent requests
  MaxPolls,    \* query-orders calls that fit before the poll deadline
  EndLabels,   \* the status strings the venue reports for a finished order
  RetryLost    \* TRUE: the caller also retries an invocation it lost

(* Those it may have; what the code does not know is "other".             *)
VenueLabels == {"closed", "filled", "partial", "canceled", "expired", "rejected", "other"}

ASSUME ConstantsAssumption ==
  /\ Volume \in Nat \ {0}
  /\ MaxPolls \in Nat
  /\ RetryLost \in BOOLEAN
  /\ EndLabels \subseteq VenueLabels
  /\ NoIntent \notin Intent
  /\ NoRun \notin Run

VARIABLES
  order,       \* order[i]: the venue's order for client id i, by its status
  exec,        \* exec[i]: its executed volume
  inflight,    \* intents with a submit request on its way to the venue
  pc,          \* pc[r]: the step invocation r is at
  args,        \* args[r]: what r was called with
  polls,       \* polls[r]: iterations left before r's poll deadline
  conf,        \* conf[r]: the FillConfirmation place_order returned to r
  rc,          \* rc[r]: r's exit code
  rows,        \* committed rows of the transactions table
  decisions,   \* committed intent_ids of the decisions table
  txn          \* the open write transaction: its holder and its inserts

venueVars == <<order, exec, inflight>>
runVars == <<pc, args, polls, conf, rc>>
dbVars == <<rows, decisions, txn>>
vars == <<venueVars, runVars, dbVars>>

Statuses == {"none", "error", "submitted", "open", "filled", "partial",
             "cancelled", "expired", "rejected", "unknown"}
Portfolios == {"omitted", "known", "unknown"}
Steps == {"idle", "preflight", "send", "sent", "poll", "confirmed", "begin",
          "decision", "row", "commit", "report", "ended", "lost"}

Row == [run : Run, intent : Intent, qty : 0..Volume]
NoTxn == [owner |-> NoRun, decisions |-> {}, rows |-> {}]
NoConf == [status |-> "none", filled |-> 0]
NoArgs == [intent |-> NoIntent, portfolio |-> "omitted", wait |-> FALSE]

TypeOK ==
  /\ order \in [Intent -> {"none", "open"} \cup EndLabels]
  /\ exec \in [Intent -> 0..Volume]
  /\ inflight \subseteq Intent
  /\ pc \in [Run -> Steps]
  /\ args \in [Run -> [intent : Intent \cup {NoIntent},
                       portfolio : Portfolios, wait : BOOLEAN]]
  /\ polls \in [Run -> 0..MaxPolls]
  /\ conf \in [Run -> [status : Statuses, filled : 0..Volume]]
  /\ rc \in [Run -> 0..2]
  /\ rows \subseteq Row
  /\ decisions \subseteq Intent
  /\ txn \in [owner : Run \cup {NoRun}, decisions : SUBSET Intent,
              rows : SUBSET Row]

Init ==
  /\ order = [i \in Intent |-> "none"]
  /\ exec = [i \in Intent |-> 0]
  /\ inflight = {}
  /\ pc = [r \in Run |-> "idle"]
  /\ args = [r \in Run |-> NoArgs]
  /\ polls = [r \in Run |-> 0]
  /\ conf = [r \in Run |-> NoConf]
  /\ rc = [r \in Run |-> 0]
  /\ rows = {}
  /\ decisions = {}
  /\ txn = NoTxn

-----------------------------------------------------------------------------
(* The venue *)

(* A request arrives.  A client order id already in use names the original *)
(* order, so a second request for it creates nothing.                      *)
VenueAccept(i) ==
  /\ i \in inflight
  /\ inflight' = inflight \ {i}
  /\ order' = [order EXCEPT ![i] = IF @ = "none" THEN "open" ELSE @]
  /\ UNCHANGED <<exec, runVars, dbVars>>

(* The request is refused (funds, pair, ...) or never arrives. *)
VenueDrop(i) ==
  /\ i \in inflight
  /\ inflight' = inflight \ {i}
  /\ UNCHANGED <<order, exec, runVars, dbVars>>

VenueExecute(i) ==
  /\ order[i] = "open"
  /\ exec[i] < Volume
  /\ exec' = [exec EXCEPT ![i] = @ + 1]
  /\ UNCHANGED <<order, inflight, runVars, dbVars>>

(* The order has left the book: it executes no more. *)
Dead(i) == order[i] \in EndLabels

(* The order leaves the book: complete, or cancelled (cmd_cancel, the      *)
(* venue), expired or killed with whatever it has executed so far.         *)
VenueEnd(i, l) ==
  /\ order[i] = "open"
  /\ order' = [order EXCEPT ![i] = l]
  /\ UNCHANGED <<exec, inflight, runVars, dbVars>>

Venue ==
  \E i \in Intent :
    \/ VenueAccept(i) \/ VenueDrop(i) \/ VenueExecute(i)
    \/ \E l \in EndLabels : VenueEnd(i, l)

-----------------------------------------------------------------------------
(* The caller *)

(* What the orchestration contract lets the caller retry: a confirmation   *)
(* that says error or rejected, or an exit for bad input.  RetryLost adds  *)
(* the invocation whose output never came back.                            *)
Retryable(r) ==
  \/ pc[r] = "ended" /\ (rc[r] = 2 \/ conf[r].status \in {"error", "rejected"})
  \/ pc[r] = "lost" /\ RetryLost

Start(r, i, pf, w) ==
  /\ pc[r] = "idle"
  /\ \A s \in Run : args[s].intent = i => Retryable(s)
  /\ pc' = [pc EXCEPT ![r] = "preflight"]
  /\ args' = [args EXCEPT ![r] = [intent |-> i, portfolio |-> pf, wait |-> w]]
  /\ UNCHANGED <<venueVars, polls, conf, rc, dbVars>>

(* The process dies, or its caller gives up on it and kills it; SQLite     *)
(* rolls its open transaction back.                                        *)
Crash(r) ==
  /\ pc[r] \notin {"idle", "ended", "lost"}
  /\ pc' = [pc EXCEPT ![r] = "lost"]
  /\ txn' = IF txn.owner = r THEN NoTxn ELSE txn
  /\ UNCHANGED <<venueVars, args, polls, conf, rc, rows, decisions>>

-----------------------------------------------------------------------------
(* cmd_submit up to the venue call *)

Exit(r, code) ==
  /\ pc' = [pc EXCEPT ![r] = "ended"]
  /\ rc' = [rc EXCEPT ![r] = code]

(* Extras gate, REJECT status, AFK gate: exit 2 before any venue call. *)
Refuse(r) ==
  /\ pc[r] = "preflight"
  /\ Exit(r, 2)
  /\ UNCHANGED <<venueVars, args, polls, conf, dbVars>>

(* Dry run (1 when the CLI is missing or slow), or a no at the prompt. *)
Decline(r) ==
  /\ pc[r] = "preflight"
  /\ \E code \in {0, 1} : Exit(r, code)
  /\ UNCHANGED <<venueVars, args, polls, conf, dbVars>>

Proceed(r) ==
  /\ pc[r] = "preflight"
  /\ pc' = [pc EXCEPT ![r] = "send"]
  /\ UNCHANGED <<venueVars, args, polls, conf, rc, dbVars>>

-----------------------------------------------------------------------------
(* place_order *)

Confirm(r, status, filled) ==
  /\ pc' = [pc EXCEPT ![r] = "confirmed"]
  /\ conf' = [conf EXCEPT ![r] = [status |-> status, filled |-> filled]]

Send(r) ==
  /\ pc[r] = "send"
  /\ pc' = [pc EXCEPT ![r] = "sent"]
  /\ inflight' = inflight \cup {args[r].intent}
  /\ UNCHANGED <<order, exec, args, polls, conf, rc, dbVars>>

(* The order cannot be expressed (before the call), or the CLI times out,  *)
(* exits non-zero or prints no txid; then the request may still be on its  *)
(* way, or may have been accepted.                                         *)
SubmitFails(r) ==
  /\ pc[r] \in {"send", "sent"}
  /\ Confirm(r, "error", 0)
  /\ UNCHANGED <<venueVars, args, polls, rc, dbVars>>

(* The venue answers with the order's txid.  How many polls fit before the *)
(* deadline depends on how long each call takes.                           *)
SubmitReply(r) ==
  /\ pc[r] = "sent"
  /\ args[r].intent \notin inflight
  /\ order[args[r].intent] # "none"
  /\ IF args[r].wait
     THEN /\ pc' = [pc EXCEPT ![r] = "poll"]
          /\ \E n \in 0..MaxPolls : polls' = [polls EXCEPT ![r] = n]
          /\ UNCHANGED conf
     ELSE /\ Confirm(r, "submitted", 0)
          /\ UNCHANGED polls
  /\ UNCHANGED <<venueVars, args, rc, dbVars>>

(* normalise_venue_status: executed volume decides the positive statuses. *)
Normalise(l, vol) ==
  IF vol > 0
  THEN IF l # "canceled" /\ vol >= Volume THEN "filled" ELSE "partial"
  ELSE CASE l = "filled" -> "filled"
         [] l \in {"closed", "canceled"} -> "cancelled"
         [] l = "other" -> "unknown"
         [] OTHER -> l

(* Mutant: the deadline is computed anew for every query. *)
PollAgain_NoDeadline(r) ==
  /\ pc[r] = "poll"
  /\ polls[r] > 0
  /\ UNCHANGED vars

(* Mutant: one iteration more than the deadline allows. *)
PollAgain_OneMore(r) ==
  /\ pc[r] = "poll"
  /\ polls' = [polls EXCEPT ![r] = @ - 1]
  /\ UNCHANGED <<venueVars, pc, args, conf, rc, dbVars>>

(* The query fails, does not know the order yet, or finds it still open. *)
PollAgain(r) ==
  /\ pc[r] = "poll"
  /\ polls[r] > 0
  /\ polls' = [polls EXCEPT ![r] = @ - 1]
  /\ UNCHANGED <<venueVars, pc, args, conf, rc, dbVars>>

PollTerminal(r) ==
  LET i == args[r].intent IN
  /\ pc[r] = "poll"
  /\ polls[r] > 0
  /\ Dead(i)
  /\ Confirm(r, Normalise(order[i], exec[i]), exec[i])
  /\ polls' = [polls EXCEPT ![r] = 0]
  /\ UNCHANGED <<venueVars, args, rc, dbVars>>

(* Mutant: at the deadline, report what a working order has executed. *)
PollDeadline_Snapshot(r) ==
  /\ pc[r] = "poll"
  /\ polls[r] = 0
  /\ Confirm(r, "open", exec[args[r].intent])
  /\ UNCHANGED <<venueVars, args, polls, rc, dbVars>>

(* The deadline: status open, filled 0, whatever the order has executed. *)
PollDeadline(r) ==
  /\ pc[r] = "poll"
  /\ polls[r] = 0
  /\ Confirm(r, "open", 0)
  /\ UNCHANGED <<venueVars, args, polls, rc, dbVars>>

-----------------------------------------------------------------------------
(* Booking the fill *)

NeedsLedger(r) ==
  /\ args[r].portfolio # "omitted"
  /\ conf[r].filled > 0 \/ conf[r].status \in {"filled", "partial"}

(* Nothing to book: report; only an error confirmation exits 1. *)
FinishUnbooked(r) ==
  /\ pc[r] = "confirmed"
  /\ ~NeedsLedger(r)
  /\ Exit(r, IF conf[r].status = "error" THEN 1 ELSE 0)
  /\ UNCHANGED <<venueVars, args, polls, conf, dbVars>>

(* --portfolio names no portfolio: found out only now, exit 2. *)
PortfolioUnknown(r) ==
  /\ pc[r] = "confirmed"
  /\ NeedsLedger(r)
  /\ args[r].portfolio = "unknown"
  /\ Exit(r, 2)
  /\ UNCHANGED <<venueVars, args, polls, conf, dbVars>>

(* write_fill_to_portfolio refuses a zero-volume fill: ledger failure. *)
ZeroVolume(r) ==
  /\ pc[r] = "confirmed"
  /\ NeedsLedger(r)
  /\ args[r].portfolio = "known"
  /\ conf[r].filled = 0
  /\ Exit(r, 1)
  /\ UNCHANGED <<venueVars, args, polls, conf, dbVars>>

StartWrite(r) ==
  /\ pc[r] = "confirmed"
  /\ NeedsLedger(r)
  /\ args[r].portfolio = "known"
  /\ conf[r].filled > 0
  /\ pc' = [pc EXCEPT ![r] = "begin"]
  /\ UNCHANGED <<venueVars, args, polls, conf, rc, dbVars>>

(* BEGIN IMMEDIATE takes the database's one write lock. *)
BeginImmediate(r) ==
  /\ pc[r] = "begin"
  /\ txn.owner = NoRun
  /\ txn' = [NoTxn EXCEPT !.owner = r]
  /\ pc' = [pc EXCEPT ![r] = "decision"]
  /\ UNCHANGED <<venueVars, args, polls, conf, rc, rows, decisions>>

(* Mutant: the decision is committed on its own, as the perps path does. *)
InsertDecision_OwnCommit(r) ==
  /\ pc[r] = "decision"
  /\ decisions' = decisions \cup {args[r].intent}
  /\ pc' = [pc EXCEPT ![r] = "row"]
  /\ UNCHANGED <<venueVars, args, polls, conf, rc, rows, txn>>

(* INSERT OR IGNORE on the unique intent_id: the first decision stays. *)
InsertDecision(r) ==
  /\ pc[r] = "decision"
  /\ txn' = [txn EXCEPT !.decisions = @ \cup {args[r].intent}]
  /\ pc' = [pc EXCEPT ![r] = "row"]
  /\ UNCHANGED <<venueVars, args, polls, conf, rc, rows, decisions>>

(* Mutant: the row takes the requested volume. *)
InsertRow_Requested(r) ==
  /\ pc[r] = "row"
  /\ txn' = [txn EXCEPT !.rows = @ \cup {[run |-> r, intent |-> args[r].intent,
                                         qty |-> Volume]}]
  /\ pc' = [pc EXCEPT ![r] = "commit"]
  /\ UNCHANGED <<venueVars, args, polls, conf, rc, rows, decisions>>

(* The row is stamped with the current time, so the table's uniqueness     *)
(* constraint never identifies two invocations' rows for one order.        *)
InsertRow(r) ==
  /\ pc[r] = "row"
  /\ txn' = [txn EXCEPT !.rows = @ \cup {[run |-> r, intent |-> args[r].intent,
                                         qty |-> conf[r].filled]}]
  /\ pc' = [pc EXCEPT ![r] = "commit"]
  /\ UNCHANGED <<venueVars, args, polls, conf, rc, rows, decisions>>

Commit(r) ==
  /\ pc[r] = "commit"
  /\ rows' = rows \cup txn.rows
  /\ decisions' = decisions \cup txn.decisions
  /\ txn' = NoTxn
  /\ pc' = [pc EXCEPT ![r] = "report"]
  /\ UNCHANGED <<venueVars, args, polls, conf, rc>>

(* Mutant: the exception handler closes the connection but has committed. *)
WriteFails_NoRollback(r) ==
  /\ pc[r] \in {"begin", "decision", "row", "commit"}
  /\ rows' = IF txn.owner = r THEN rows \cup txn.rows ELSE rows
  /\ decisions' = IF txn.owner = r THEN decisions \cup txn.decisions ELSE decisions
  /\ txn' = IF txn.owner = r THEN NoTxn ELSE txn
  /\ Exit(r, 1)
  /\ UNCHANGED <<venueVars, args, polls, conf>>

(* Any exception on the way: the lock times out, the disk is full, a       *)
(* constraint fails.  Roll back and exit 1 with LEDGER WRITE FAILED.       *)
WriteFails(r) ==
  /\ pc[r] \in {"begin", "decision", "row", "commit"}
  /\ txn' = IF txn.owner = r THEN NoTxn ELSE txn
  /\ Exit(r, 1)
  /\ UNCHANGED <<venueVars, args, polls, conf, rows, decisions>>

(* Mutant: an exit raised by the held-file sync becomes the exit code. *)
FinishBooked_SyncExits(r) ==
  /\ pc[r] = "report"
  /\ \E code \in {0, 2} : Exit(r, code)
  /\ UNCHANGED <<venueVars, args, polls, conf, dbVars>>

(* Held-file sync (never raises, never changes the code), then exit 0. *)
FinishBooked(r) ==
  /\ pc[r] = "report"
  /\ Exit(r, 0)
  /\ UNCHANGED <<venueVars, args, polls, conf, dbVars>>

-----------------------------------------------------------------------------
Submit(r) ==
  \/ Refuse(r) \/ Decline(r) \/ Proceed(r)
  \/ Send(r) \/ SubmitFails(r) \/ SubmitReply(r)
  \/ PollAgain(r) \/ PollTerminal(r) \/ PollDeadline(r)
  \/ FinishUnbooked(r) \/ PortfolioUnknown(r) \/ ZeroVolume(r) \/ StartWrite(r)
  \/ BeginImmediate(r) \/ InsertDecision(r) \/ InsertRow(r) \/ Commit(r)
  \/ WriteFails(r) \/ FinishBooked(r)

Caller(r) ==
  \/ \E i \in Intent, pf \in Portfolios, w \in BOOLEAN : Start(r, i, pf, w)
  \/ Crash(r)

Next == Venue \/ \E r \in Run : Submit(r) \/ Caller(r)

Spec == Init /\ [][Next]_vars

(* Every subprocess call has a timeout, the poll loop a monotonic deadline *)
(* and SQLite a busy timeout, so a started invocation keeps stepping.  The *)
(* caller, crashes and the venue owe nothing.                              *)
FairSpec == Spec /\ \A r \in Run : WF_vars(Submit(r))

-----------------------------------------------------------------------------
(* Properties *)

(* A ledger row is the final word on its order: the order can execute no   *)
(* more and the row carries exactly what it executed, never a snapshot of  *)
(* an order still working (_poll_fill keeps polling open orders and drops  *)
(* what it saw at the deadline).                                           *)
RowIsFinalFill ==
  \A w \in rows :
    /\ Dead(w.intent)
    /\ w.qty = exec[w.intent]
    /\ w.qty > 0

(* The transaction row and the decision trace are committed together or    *)
(* not at all, across crashes, failed inserts and other writers.           *)
RowsAndDecisionsTogether == decisions = {w.intent : w \in rows}

(* However often the caller retries, an order's fill is booked once.  True *)
(* when the caller only retries what the contract says it may.             *)
OneRowPerOrder ==
  \A v, w \in rows : v.intent = w.intent => v = w

(* The exit code tells the caller what the ledger holds: a positive        *)
(* confirmation with exit 0 has its row, and an exit for a failed ledger   *)
(* write (or an unknown portfolio) has none, so recording the fill by hand *)
(* as the message asks never books it twice.                               *)
ExitCodeTellsLedger ==
  \A r \in Run : (pc[r] = "ended" /\ NeedsLedger(r)) =>
    (rc[r] = 0 <=> \E w \in rows : w.run = r)

(* A started invocation ends, however the venue and the database behave.   *)
EveryRunEnds ==
  \A r \in Run : pc[r] = "preflight" ~> pc[r] \in {"ended", "lost"}

-----------------------------------------------------------------------------
(* The inductive invariant behind the safety properties *)

(* Who holds the write transaction, and what it has inserted so far. *)
TxnInv ==
  /\ txn.owner = NoRun => txn = NoTxn
  /\ \A r \in Run :
       /\ pc[r] \in {"decision", "row", "commit"} <=> txn.owner = r
       /\ pc[r] = "decision" => txn.rows = {} /\ txn.decisions = {}
       /\ pc[r] = "row" => txn.rows = {} /\ txn.decisions = {args[r].intent}
       /\ pc[r] = "commit" =>
            /\ txn.rows = {[run |-> r, intent |-> args[r].intent,
                            qty |-> conf[r].filled]}
            /\ txn.decisions = {args[r].intent}

(* A confirmed fill is the final execution of a finished order. *)
ConfInv ==
  \A r \in Run :
    /\ pc[r] # "idle" <=> args[r].intent \in Intent
    /\ conf[r].filled > 0 =>
         /\ conf[r].status \in {"filled", "partial"}
         /\ Dead(args[r].intent)
         /\ conf[r].filled = exec[args[r].intent]
    /\ pc[r] \in {"begin", "decision", "row", "commit", "report"} =>
         conf[r].filled > 0 /\ NeedsLedger(r)
    /\ pc[r] \in {"idle", "preflight", "send", "sent", "poll"} => conf[r] = NoConf

(* A committed row belongs to an invocation past its commit, and back. *)
RowInv ==
  /\ \A w \in rows :
       /\ pc[w.run] \in {"report", "ended", "lost"}
       /\ pc[w.run] = "ended" => rc[w.run] = 0
       /\ w.intent = args[w.run].intent
       /\ w.qty = conf[w.run].filled
       /\ w.qty > 0
  /\ \A r \in Run :
       (pc[r] = "report" \/ (pc[r] = "ended" /\ rc[r] = 0 /\ NeedsLedger(r)))
       => \E w \in rows : w.run = r

(* Of two invocations of one intent, one has ended without a row. *)
RetryInv ==
  \A r, s \in Run :
    (r # s /\ args[r].intent \in Intent /\ args[r].intent = args[s].intent)
    => Retryable(r) \/ Retryable(s)

IInv ==
  TypeOK /\ TxnInv /\ ConfInv /\ RowInv /\ RetryInv /\ RowsAndDecisionsTogether

-----------------------------------------------------------------------------
(* The abstract ledger: an order settles when it leaves the book. *)
Ledger == INSTANCE FillLedger WITH
  Source <- Run,
  settled <- [i \in Intent |-> Dead(i)]

(* Behind the protocol, the polling and the retries, orders execute,       *)
(* settle and are then booked once and in full.                            *)
BooksOnceAndInFull == Ledger!Spec
=============================================================================
