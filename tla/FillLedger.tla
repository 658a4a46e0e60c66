----------------------------- MODULE FillLedger -----------------------------
(***************************************************************************)
(* What the execution path promises about the portfolio ledger, with the   *)
(* venue protocol, the polling, the database transaction and the retries   *)
(* left out: an order executes, it settles, and afterwards its executed    *)
(* volume is booked at most once and in full.                              *)
(***************************************************************************)
EXTENDS Naturals

CONSTANTS
  Intent,     \* the orders, named by their idempotency key
  Source,     \* what may write a ledger row
  Volume      \* the volume every order requests

VARIABLES
  settled,    \* settled[i]: the venue will execute no more of i
  exec,       \* exec[i]: the volume of i the venue has executed
  rows        \* the ledger

vars == <<settled, exec, rows>>

Row == [run : Source, intent : Intent, qty : 0..Volume]

Init ==
  /\ settled = [i \in Intent |-> FALSE]
  /\ exec = [i \in Intent |-> 0]
  /\ rows = {}

(* The venue executes one more unit of a working order. *)
Execute(i) ==
  /\ ~settled[i]
  /\ exec[i] < Volume
  /\ exec' = [exec EXCEPT ![i] = @ + 1]
  /\ UNCHANGED <<settled, rows>>

(* The order leaves the book, filled or not. *)
Settle(i) ==
  /\ ~settled[i]
  /\ settled' = [settled EXCEPT ![i] = TRUE]
  /\ UNCHANGED <<exec, rows>>

(* The final executed volume is booked, once. *)
Book(i, s) ==
  /\ settled[i]
  /\ exec[i] > 0
  /\ \A w \in rows : w.intent # i
  /\ rows' = rows \cup {[run |-> s, intent |-> i, qty |-> exec[i]]}
  /\ UNCHANGED <<settled, exec>>

Next ==
  \/ \E i \in Intent : Execute(i) \/ Settle(i)
  \/ \E i \in Intent, s \in Source : Book(i, s)

Spec == Init /\ [][Next]_vars
=============================================================================
