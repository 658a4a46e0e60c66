---------------------------- MODULE PerpsBracket ----------------------------
(***************************************************************************)
(* `execution-kraken-perps submit`: one CLI invocation opens a position    *)
(* with a market order, protects it with a reduce-only stop, rolls it back *)
(* at market when the stop fails, and adds a reduce-only take-profit.      *)
(*                                                                         *)
(* Invocations run at once on one futures symbol, all of them long; each   *)
(* may be killed between two calls; every call may be lost, refused,       *)
(* answered late or not at all; the caller retries an error under the same *)
(* intent id.  Quantities are in units of the order volume.  The venue is  *)
(* external: only the open order carries a client order id, so only the    *)
(* open order is deduplicated.                                             *)
(***************************************************************************)
EXTENDS Integers

CONSTANTS
  Intent,       \* intent ids, the client order ids of the open orders
  Run,          \* CLI invocations of submit
  NoIntent,     \* the intent of an invocation that has not started
  RefusalExits  \* TRUE: the CLI exits non-zero when the venue refuses an
                \* order; FALSE: it may exit 0 with an error envelope

ASSUME BracketAssumption ==
  /\ RefusalExits \in BOOLEAN
  /\ NoIntent \notin Intent

VARIABLES
  opened,    \* intents whose open order the venue has executed
  pos,       \* the net position on the symbol
  stops,     \* resting reduce-only stop orders
  tps,       \* resting reduce-only take-profit orders
  wire,      \* requests on their way to the venue: <<run, leg>>
  placed,    \* requests the venue has accepted
  refused,   \* requests the venue has refused
  pc,        \* pc[r]: the step invocation r is at
  args,      \* args[r]: what r was called with
  asked,     \* requests the invocations have sent
  conf,      \* conf[r]: what place_order returned to r
  rc         \* rc[r]: r's exit code

venueVars == <<opened, pos, stops, tps, wire, placed, refused>>
runVars == <<pc, args, asked, conf, rc>>
vars == <<venueVars, runVars>>

Legs == {"open", "stop", "close", "tp"}
Steps == {"idle", "preflight", "ended", "lost"} \cup Legs
NoArgs == [intent |-> NoIntent, wait |-> FALSE, json |-> FALSE]

(* The confirmations place_order can build.  "error", "unprotected" and    *)
(* "rolledback" have status error, the last two with the open order's id;  *)
(* "submitted" and "tp_failed" have status submitted.                      *)
Errors == {"error", "unprotected", "rolledback"}
Confirmations == {"none", "submitted", "tp_failed"} \cup Errors

TypeOK ==
  /\ opened \subseteq Intent
  /\ pos \in Int /\ stops \in Nat /\ tps \in Nat
  /\ pc \in [Run -> Steps]
  /\ args \in [Run -> [intent : Intent \cup {NoIntent},
                       wait : BOOLEAN, json : BOOLEAN]]
  /\ asked \subseteq Run \X Legs
  /\ wire \subseteq asked
  /\ placed \subseteq asked \ wire
  /\ refused \subseteq asked \ (wire \cup placed)
  /\ conf \in [Run -> Confirmations]
  /\ rc \in [Run -> 0..2]

Init ==
  /\ opened = {} /\ pos = 0 /\ stops = 0 /\ tps = 0
  /\ wire = {} /\ placed = {} /\ refused = {}
  /\ pc = [r \in Run |-> "idle"]
  /\ args = [r \in Run |-> NoArgs]
  /\ asked = {}
  /\ conf = [r \in Run |-> "none"]
  /\ rc = [r \in Run |-> 0]

-----------------------------------------------------------------------------
(* The venue *)

Accept(r, leg) ==
  /\ <<r, leg>> \in wire
  /\ wire' = wire \ {<<r, leg>>}
  /\ placed' = placed \cup {<<r, leg>>}

(* A market order executes at once.  A client order id already in use      *)
(* names the original order: nothing is opened again.                      *)
VenueOpens(r) ==
  /\ Accept(r, "open")
  /\ opened' = opened \cup {args[r].intent}
  /\ pos' = IF args[r].intent \in opened THEN pos ELSE pos + 1
  /\ UNCHANGED <<stops, tps, refused, runVars>>

VenueRests(r) ==
  /\ \/ Accept(r, "stop") /\ stops' = stops + 1 /\ UNCHANGED tps
     \/ Accept(r, "tp") /\ tps' = tps + 1 /\ UNCHANGED stops
  /\ UNCHANGED <<opened, pos, refused, runVars>>

(* The rollback order is a plain market order, not a reduce-only one. *)
VenueCloses(r) ==
  /\ Accept(r, "close")
  /\ pos' = pos - 1
  /\ UNCHANGED <<opened, stops, tps, refused, runVars>>

VenueRefuses(x) ==
  /\ x \in wire
  /\ wire' = wire \ {x}
  /\ refused' = refused \cup {x}
  /\ UNCHANGED <<opened, pos, stops, tps, placed, runVars>>

(* The request never arrives. *)
VenueLoses(x) ==
  /\ x \in wire
  /\ wire' = wire \ {x}
  /\ UNCHANGED <<opened, pos, stops, tps, placed, refused, runVars>>

(* The price reaches a protective order: it reduces the position, if any. *)
VenueTriggers ==
  /\ \/ stops > 0 /\ stops' = stops - 1 /\ UNCHANGED tps
     \/ tps > 0 /\ tps' = tps - 1 /\ UNCHANGED stops
  /\ pos' = IF pos > 0 THEN pos - 1 ELSE pos
  /\ UNCHANGED <<opened, wire, placed, refused, runVars>>

Venue ==
  \/ \E r \in Run : VenueOpens(r) \/ VenueRests(r) \/ VenueCloses(r)
  \/ \E x \in wire : VenueRefuses(x) \/ VenueLoses(x)
  \/ VenueTriggers

-----------------------------------------------------------------------------
(* The caller *)

(* What the orchestration contract lets the caller retry: a confirmation   *)
(* with status error, or an exit for bad input.                            *)
Retryable(r) == pc[r] = "ended" /\ (rc[r] = 2 \/ conf[r] \in Errors)

Start(r, i, w, j) ==
  /\ pc[r] = "idle"
  /\ \A s \in Run : args[s].intent = i => Retryable(s)
  /\ pc' = [pc EXCEPT ![r] = "preflight"]
  /\ args' = [args EXCEPT ![r] = [intent |-> i, wait |-> w, json |-> j]]
  /\ UNCHANGED <<venueVars, asked, conf, rc>>

Crash(r) ==
  /\ pc[r] \notin {"idle", "ended", "lost"}
  /\ pc' = [pc EXCEPT ![r] = "lost"]
  /\ UNCHANGED <<venueVars, args, asked, conf, rc>>

-----------------------------------------------------------------------------
(* cmd_submit up to place_order *)

(* REJECT status, AFK gate, unknown symbol, leverage over the tier cap.    *)
Refuse(r) ==
  /\ pc[r] = "preflight"
  /\ pc' = [pc EXCEPT ![r] = "ended"]
  /\ rc' = [rc EXCEPT ![r] = 2]
  /\ UNCHANGED <<venueVars, args, asked, conf>>

(* Dry run, or the operator answers no at the prompt. *)
Decline(r) ==
  /\ pc[r] = "preflight"
  /\ pc' = [pc EXCEPT ![r] = "ended"]
  /\ UNCHANGED <<venueVars, args, asked, conf, rc>>

(* A failed set-leverage call is only logged: the order goes out anyway.   *)
Proceed(r) ==
  /\ pc[r] = "preflight"
  /\ pc' = [pc EXCEPT ![r] = "open"]
  /\ UNCHANGED <<venueVars, args, asked, conf, rc>>

-----------------------------------------------------------------------------
(* place_order, and cmd_submit's exit on what it returns.  No confirmation *)
(* place_order can build has status filled or partial, so cmd_submit never *)
(* reaches its ledger write.                                               *)

(* --json exits 0 whatever the confirmation says. *)
Return(r, c) ==
  /\ pc' = [pc EXCEPT ![r] = "ended"]
  /\ conf' = [conf EXCEPT ![r] = c]
  /\ rc' = [rc EXCEPT ![r] = IF c \in Errors /\ ~args[r].json THEN 1 ELSE 0]

GoTo(r, leg) ==
  /\ pc' = [pc EXCEPT ![r] = leg]
  /\ UNCHANGED <<conf, rc>>

Sent(r) == <<r, pc[r]>> \in asked
Acknowledged(r) == <<r, pc[r]>> \in placed

(* The next leg's request goes out through the CLI. *)
Send(r) ==
  /\ pc[r] \in Legs /\ ~Sent(r)
  /\ asked' = asked \cup {<<r, pc[r]>>}
  /\ wire' = wire \cup {<<r, pc[r]>>}
  /\ UNCHANGED <<opened, pos, stops, tps, placed, refused, pc, args, conf, rc>>

OpenReply(r) ==
  /\ pc[r] = "open" /\ Acknowledged(r)
  /\ GoTo(r, "stop")
  /\ UNCHANGED <<venueVars, args, asked>>

(* An invalid intent (nothing sent), a refusal, a missing order id, or a   *)
(* timeout: an error with no order id.                                     *)
OpenFails(r) ==
  /\ pc[r] = "open"
  /\ Return(r, "error")
  /\ UNCHANGED <<venueVars, args, asked>>

StopReply(r) ==
  /\ pc[r] = "stop" /\ Acknowledged(r)
  /\ GoTo(r, "tp")
  /\ UNCHANGED <<venueVars, args, asked>>

(* Mutant: a failed stop returns like a failed open. *)
StopFails_NoRollback(r) ==
  /\ pc[r] = "stop" /\ Sent(r)
  /\ Return(r, "error")
  /\ UNCHANGED <<venueVars, args, asked>>

(* Mutant: a failed stop is sent until it succeeds. *)
StopFails_Retries(r) ==
  /\ pc[r] = "stop" /\ Sent(r)
  /\ <<r, "stop">> \notin wire \cup placed
  /\ asked' = asked \ {<<r, "stop">>}
  /\ refused' = refused \ {<<r, "stop">>}
  /\ UNCHANGED <<opened, pos, stops, tps, wire, placed, pc, args, conf, rc>>

(* The stop timed out, was refused or has no order id: roll back. *)
StopFails(r) ==
  /\ pc[r] = "stop" /\ Sent(r)
  /\ GoTo(r, "close")
  /\ UNCHANGED <<venueVars, args, asked>>

(* The rollback's answer is not looked at: an error envelope passes too. *)
CloseReply(r) ==
  /\ pc[r] = "close"
  /\ Acknowledged(r) \/ (<<r, "close">> \in refused /\ ~RefusalExits)
  /\ Return(r, "rolledback")
  /\ UNCHANGED <<venueVars, args, asked>>

(* Mutant: a failed rollback is reported as a rollback. *)
CloseFails_Swallowed(r) ==
  /\ pc[r] = "close" /\ Sent(r)
  /\ Return(r, "rolledback")
  /\ UNCHANGED <<venueVars, args, asked>>

CloseFails(r) ==
  /\ pc[r] = "close" /\ Sent(r)
  /\ Return(r, "unprotected")
  /\ UNCHANGED <<venueVars, args, asked>>

(* The take-profit failed or not.  Without --no-wait the confirmation is   *)
(* polled by a method the class does not define: the AttributeError ends   *)
(* the program with exit 1 and no output.                                  *)
Finish(r, c) ==
  IF args[r].wait
  THEN /\ pc' = [pc EXCEPT ![r] = "ended"]
       /\ rc' = [rc EXCEPT ![r] = 1]
       /\ UNCHANGED conf
  ELSE Return(r, c)

TpReply(r) ==
  /\ pc[r] = "tp" /\ Acknowledged(r)
  /\ Finish(r, "submitted")
  /\ UNCHANGED <<venueVars, args, asked>>

TpFails(r) ==
  /\ pc[r] = "tp" /\ Sent(r)
  /\ Finish(r, "tp_failed")
  /\ UNCHANGED <<venueVars, args, asked>>

-----------------------------------------------------------------------------
Submit(r) ==
  \/ Refuse(r) \/ Decline(r) \/ Proceed(r) \/ Send(r)
  \/ OpenReply(r) \/ OpenFails(r)
  \/ StopReply(r) \/ StopFails(r)
  \/ CloseReply(r) \/ CloseFails(r)
  \/ TpReply(r) \/ TpFails(r)

Caller(r) ==
  \/ \E i \in Intent, w \in BOOLEAN, j \in BOOLEAN : Start(r, i, w, j)
  \/ Crash(r)

Next == Venue \/ \E r \in Run : Submit(r) \/ Caller(r)

Spec == Init /\ [][Next]_vars

(* Every CLI call has a timeout: a started invocation keeps stepping. *)
FairSpec == Spec /\ \A r \in Run : WF_vars(Submit(r))

-----------------------------------------------------------------------------
(* Properties *)

(* SKILL.md: after a successful open the caller is never left with an      *)
(* unprotected trade.  Whatever answers are lost and however often the     *)
(* intent is retried, an invocation that reports a bracket or a rollback   *)
(* has its stop or its closing order accepted by the venue; otherwise it   *)
(* says UNPROTECTED.  Holds while the CLI fails on refused orders.         *)
NeverLeftUnprotected ==
  \A r \in Run : conf[r] \in {"submitted", "tp_failed", "rolledback"} =>
    <<r, "stop">> \in placed \/ <<r, "close">> \in placed

(* A take-profit goes out only behind a stop the venue has accepted, and   *)
(* no invocation sends both a take-profit and a rollback.                  *)
LegsInOrder ==
  \A r \in Run : <<r, "tp">> \in asked =>
    <<r, "stop">> \in placed /\ <<r, "close">> \notin asked

(* An error without an order id leaves at most the open order behind: once *)
(* the open order is acknowledged, every error names it for manual cleanup.*)
ErrorNamesOpenOrder ==
  \A r \in Run, leg \in Legs :
    conf[r] = "error" /\ <<r, leg>> \in asked => leg = "open"

(* A started invocation ends, however slow or broken the venue is. *)
EveryRunEnds ==
  \A r \in Run : pc[r] = "preflight" ~> pc[r] \in {"ended", "lost"}

-----------------------------------------------------------------------------
(* The inductive invariant: how far each invocation's legs have got. *)
LegInv ==
  \A r \in Run :
    /\ pc[r] \in {"idle", "preflight"} => \A leg \in Legs : <<r, leg>> \notin asked
    /\ pc[r] = "open" => \A leg \in Legs : <<r, leg>> \in asked => leg = "open"
    /\ pc[r] = "stop" => <<r, "tp">> \notin asked /\ <<r, "close">> \notin asked
    /\ pc[r] = "close" => <<r, "tp">> \notin asked
    /\ pc[r] = "tp" => <<r, "stop">> \in placed /\ <<r, "close">> \notin asked
    /\ pc[r] # "ended" => conf[r] = "none"
    /\ pc[r] # "idle" => args[r].intent \in Intent

IInv ==
  /\ TypeOK /\ LegInv
  /\ LegsInOrder /\ ErrorNamesOpenOrder
  /\ RefusalExits => NeverLeftUnprotected
=============================================================================
