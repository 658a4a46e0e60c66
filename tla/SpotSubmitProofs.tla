-------------------------- MODULE SpotSubmitProofs --------------------------
(***************************************************************************)
(* Proofs about SpotSubmit, for every number of intents and invocations,   *)
(* every volume and every number of polls.                                 *)
(***************************************************************************)
EXTENDS SpotSubmit, TLAPS

(* An order that is unknown to the venue, or open, has not ended. *)
LEMMA EndsAreEnds == "none" \notin EndLabels /\ "open" \notin EndLabels
  BY ConstantsAssumption DEF VenueLabels

(* Each step preserves the types. *)
LEMMA TypeStep == IInv /\ [Next]_vars => TypeOK'
  <1> SUFFICES ASSUME IInv, [Next]_vars PROVE TypeOK'
    OBVIOUS
  <1> USE ConstantsAssumption
      DEF IInv, venueVars, runVars, dbVars, TypeOK, Steps, Statuses, Portfolios
  <1>a. ASSUME NEW r \in Run, pc[r] # "idle" PROVE args[r].intent \in Intent
    BY <1>a DEF ConfInv
  <1>1. ASSUME NEW i \in Intent,
               \/ VenueAccept(i) \/ VenueDrop(i) \/ VenueExecute(i)
               \/ \E l \in EndLabels : VenueEnd(i, l)
        PROVE  TypeOK'
    <2>1. CASE VenueAccept(i)
      BY <2>1 DEF VenueAccept
    <2>2. CASE VenueDrop(i)
      BY <2>2 DEF VenueDrop
    <2>3. CASE VenueExecute(i)
      BY <2>3 DEF VenueExecute
    <2>4. ASSUME NEW l \in EndLabels, VenueEnd(i, l) PROVE TypeOK'
      BY <2>4 DEF VenueEnd
    <2> QED
      BY <1>1, <2>1, <2>2, <2>3, <2>4
  <1>2. ASSUME NEW r \in Run, Caller(r) PROVE TypeOK'
    <2>1. ASSUME NEW i \in Intent, NEW pf \in Portfolios, NEW w \in BOOLEAN,
                 Start(r, i, pf, w)
          PROVE  TypeOK'
      BY <2>1 DEF Start
    <2>2. CASE Crash(r)
      BY <2>2 DEF Crash, NoTxn
    <2> QED
      BY <1>2, <2>1, <2>2 DEF Caller
  <1>3. ASSUME NEW r \in Run, Submit(r) PROVE TypeOK'
    <2>1. CASE Send(r)
      BY <2>1, <1>a DEF Send
    <2>2. CASE SubmitFails(r)
      BY <2>2 DEF SubmitFails, Confirm
    <2>3. CASE SubmitReply(r)
      <3>1. CASE args[r].wait
        <4>1. PICK n \in 0..MaxPolls : polls' = [polls EXCEPT ![r] = n]
          BY <2>3, <3>1, Zenon DEF SubmitReply
        <4>2. polls' \in [Run -> 0..MaxPolls]
          BY <4>1
        <4> QED
          BY <2>3, <3>1, <4>2 DEF SubmitReply
      <3>2. CASE ~args[r].wait
        <4>1. Confirm(r, "submitted", 0) /\ UNCHANGED polls
          BY <2>3, <3>2, Zenon DEF SubmitReply
        <4> QED
          BY <2>3, <4>1 DEF SubmitReply, Confirm
      <3> QED
        BY <3>1, <3>2
    <2>4. CASE PollTerminal(r)
      <3> DEFINE i == args[r].intent
      <3>1. i \in Intent /\ order[i] \in EndLabels /\ exec[i] \in 0..Volume
        BY <2>4, <1>a DEF PollTerminal, Dead
      <3>2. Normalise(order[i], exec[i]) \in Statuses
        BY <3>1 DEF Normalise, VenueLabels
      <3>3. [status |-> Normalise(order[i], exec[i]), filled |-> exec[i]]
              \in [status : Statuses, filled : 0..Volume]
        BY <3>1, <3>2
      <3> QED
        BY <2>4, <3>3 DEF PollTerminal, Confirm
    <2>5. CASE PollDeadline(r)
      BY <2>5 DEF PollDeadline, Confirm
    <2>6. CASE BeginImmediate(r)
      BY <2>6 DEF BeginImmediate, NoTxn
    <2>7. CASE InsertDecision(r)
      BY <2>7, <1>a DEF InsertDecision
    <2>8. CASE InsertRow(r)
      <3>1. [run |-> r, intent |-> args[r].intent, qty |-> conf[r].filled] \in Row
        BY <2>8, <1>a DEF InsertRow, Row
      <3> QED
        BY <2>8, <3>1 DEF InsertRow
    <2>9. CASE Commit(r)
      BY <2>9 DEF Commit, NoTxn
    <2>10. CASE WriteFails(r)
      BY <2>10 DEF WriteFails, Exit, NoTxn
    <2>11. CASE Refuse(r) \/ Decline(r) \/ FinishUnbooked(r)
                \/ PortfolioUnknown(r) \/ ZeroVolume(r) \/ FinishBooked(r)
      <3>1. PICK code \in 0..2 : Exit(r, code)
        BY <2>11 DEF Refuse, Decline, FinishUnbooked, PortfolioUnknown,
                     ZeroVolume, FinishBooked
      <3>2. UNCHANGED <<venueVars, args, polls, conf, dbVars>>
        BY <2>11 DEF Refuse, Decline, FinishUnbooked, PortfolioUnknown,
                     ZeroVolume, FinishBooked
      <3> QED
        BY <3>1, <3>2 DEF Exit
    <2>12. CASE Proceed(r) \/ PollAgain(r) \/ StartWrite(r)
      BY <2>12 DEF Proceed, PollAgain, StartWrite
    <2> QED
      BY <1>3, <2>1, <2>2, <2>3, <2>4, <2>5, <2>6, <2>7, <2>8, <2>9, <2>10,
         <2>11, <2>12 DEF Submit
  <1>4. CASE UNCHANGED vars
    BY <1>4 DEF vars
  <1> QED
    BY <1>1, <1>2, <1>3, <1>4 DEF Next, Venue

(* The write transaction: who holds it and what it holds. *)
LEMMA TxnStep == IInv /\ [Next]_vars => TxnInv'
  <1> SUFFICES ASSUME IInv, [Next]_vars PROVE TxnInv'
    OBVIOUS
  <1> USE ConstantsAssumption
      DEF IInv, venueVars, runVars, dbVars,
          TypeOK, Steps, Statuses, Portfolios, Row, TxnInv, NoTxn
  <1>1. CASE Venue
    BY <1>1 DEF Venue, VenueAccept, VenueDrop, VenueExecute, VenueEnd
  <1>2. ASSUME NEW r \in Run, Caller(r) PROVE TxnInv'
    BY <1>2 DEF Caller, Start, Crash
  <1>3. ASSUME NEW r \in Run, Submit(r) PROVE TxnInv'
    <2>1. CASE BeginImmediate(r)
      BY <2>1 DEF BeginImmediate
    <2>2. CASE InsertDecision(r)
      BY <2>2 DEF InsertDecision
    <2>3. CASE InsertRow(r)
      BY <2>3 DEF InsertRow
    <2>4. CASE Commit(r)
      BY <2>4 DEF Commit
    <2>5. CASE WriteFails(r)
      BY <2>5 DEF WriteFails, Exit
    <2>6. CASE Refuse(r) \/ Decline(r) \/ Proceed(r) \/ Send(r) \/
               SubmitFails(r) \/ SubmitReply(r) \/ PollAgain(r) \/
               PollTerminal(r) \/ PollDeadline(r) \/ FinishUnbooked(r) \/
               PortfolioUnknown(r) \/ ZeroVolume(r) \/ StartWrite(r) \/
               FinishBooked(r)
      BY <2>6
      DEF Refuse, Decline, Proceed, Send, SubmitFails, SubmitReply,
          PollAgain, PollTerminal, PollDeadline, FinishUnbooked,
          PortfolioUnknown, ZeroVolume, StartWrite, FinishBooked, Exit,
          Confirm, Normalise
    <2> QED
      BY <1>3, <2>1, <2>2, <2>3, <2>4, <2>5, <2>6 DEF Submit
  <1>4. CASE UNCHANGED vars
    BY <1>4 DEF vars
  <1> QED
    BY <1>1, <1>2, <1>3, <1>4 DEF Next

(* Confirmed fills are final: only a dead order is confirmed with one, and
   a dead order executes no more. *)
LEMMA ConfStep == IInv /\ [Next]_vars => ConfInv'
  <1> SUFFICES ASSUME IInv, [Next]_vars PROVE ConfInv'
    OBVIOUS
  <1> USE ConstantsAssumption, EndsAreEnds
      DEF IInv, venueVars, runVars, dbVars,
          TypeOK, Steps, Statuses, Portfolios, Row, ConfInv, NoConf,
          NeedsLedger, Dead
  <1>1. ASSUME NEW i \in Intent,
               \/ VenueAccept(i) \/ VenueDrop(i) \/ VenueExecute(i)
               \/ \E l \in EndLabels : VenueEnd(i, l)
        PROVE  ConfInv'
    <2>1. CASE VenueAccept(i)
      BY <2>1 DEF VenueAccept
    <2>2. CASE VenueDrop(i)
      BY <2>2 DEF VenueDrop
    <2>3. CASE VenueExecute(i)
      BY <2>3, SMTT(20) DEF VenueExecute
    <2>4. ASSUME NEW l \in EndLabels, VenueEnd(i, l) PROVE ConfInv'
      BY <2>4 DEF VenueEnd
    <2> QED
      BY <1>1, <2>1, <2>2, <2>3, <2>4
  <1>2. ASSUME NEW r \in Run, Caller(r) PROVE ConfInv'
    BY <1>2 DEF Caller, Start, Crash
  <1>3. ASSUME NEW r \in Run, Submit(r) PROVE ConfInv'
    <2>1. CASE PollTerminal(r)
      BY <2>1 DEF PollTerminal, Confirm, Normalise
    <2>2. CASE StartWrite(r)
      BY <2>2 DEF StartWrite
    <2>3. CASE Refuse(r) \/ Decline(r) \/ Proceed(r) \/ Send(r) \/
               SubmitFails(r) \/ SubmitReply(r) \/ PollAgain(r) \/
               PollDeadline(r) \/ FinishUnbooked(r) \/
               PortfolioUnknown(r) \/ ZeroVolume(r) \/
               BeginImmediate(r) \/ InsertDecision(r) \/ InsertRow(r) \/
               Commit(r) \/ WriteFails(r) \/ FinishBooked(r)
      BY <2>3
      DEF Refuse, Decline, Proceed, Send, SubmitFails, SubmitReply,
          PollAgain, PollDeadline, FinishUnbooked, PortfolioUnknown,
          ZeroVolume, BeginImmediate, InsertDecision, InsertRow, Commit,
          WriteFails, FinishBooked, Exit, Confirm
    <2> QED
      BY <1>3, <2>1, <2>2, <2>3 DEF Submit
  <1>4. CASE UNCHANGED vars
    BY <1>4 DEF vars
  <1> QED
    BY <1>1, <1>2, <1>3, <1>4 DEF Next, Venue

(* Rows: only Commit adds one, for the invocation that commits. *)
LEMMA RowStep == IInv /\ [Next]_vars => RowInv'
  <1> SUFFICES ASSUME IInv, [Next]_vars PROVE RowInv'
    OBVIOUS
  <1> USE ConstantsAssumption
      DEF IInv, venueVars, runVars, dbVars,
          TypeOK, Steps, Statuses, Portfolios, Row, RowInv, ConfInv, TxnInv,
          NeedsLedger, NoConf
  <1>b. \A w \in rows : w.run \in Run
    OBVIOUS
  <1>1. CASE Venue
    BY <1>1 DEF Venue, VenueAccept, VenueDrop, VenueExecute, VenueEnd
  <1>2. ASSUME NEW r \in Run, Caller(r) PROVE RowInv'
    <2>1. ASSUME NEW i \in Intent, NEW pf \in Portfolios, NEW wait \in BOOLEAN, Start(r, i, pf, wait)
          PROVE  RowInv'
      <3>1. /\ pc[r] = "idle" /\ pc' = [pc EXCEPT ![r] = "preflight"]
            /\ \A s \in Run \ {r} : args'[s] = args[s]
            /\ UNCHANGED <<conf, rc, rows>>
        BY <2>1 DEF Start
      <3>2. \A w \in rows : w.run # r
        BY <3>1
      <3> QED
        BY <1>b, <3>1, <3>2
    <2>2. CASE Crash(r)
      BY <2>2 DEF Crash
    <2> QED
      BY <1>2, <2>1, <2>2 DEF Caller
  <1>3. ASSUME NEW r \in Run, Submit(r) PROVE RowInv'
    <2>1. CASE Commit(r)
      <3> DEFINE v == [run |-> r, intent |-> args[r].intent, qty |-> conf[r].filled]
      <3>1. rows' = rows \cup {v} /\ pc' = [pc EXCEPT ![r] = "report"]
        BY <2>1 DEF Commit
      <3>2. UNCHANGED <<args, conf, rc>> /\ conf[r].filled > 0
        BY <2>1 DEF Commit
      <3>3. ASSUME NEW w \in rows'
            PROVE  /\ pc'[w.run] \in {"report", "ended", "lost"}
                   /\ pc'[w.run] = "ended" => rc'[w.run] = 0
                   /\ w.intent = args'[w.run].intent
                   /\ w.qty = conf'[w.run].filled
                   /\ w.qty > 0
        <4>1. CASE w = v
          BY <4>1, <3>1, <3>2
        <4>2. CASE w \in rows
          BY <4>2, <3>1, <3>2
        <4> QED
          BY <3>1, <4>1, <4>2
      <3>4. ASSUME NEW s \in Run,
                   \/ pc'[s] = "report"
                   \/ pc'[s] = "ended" /\ rc'[s] = 0 /\ NeedsLedger(s)'
            PROVE  \E w \in rows' : w.run = s
        <4>1. CASE s = r
          <5>1. v \in rows' /\ v.run = s
            BY <4>1, <3>1
          <5> QED
            BY <5>1
        <4>2. CASE s # r
          BY <4>2, <3>1, <3>2, <3>4
        <4> QED
          BY <4>1, <4>2
      <3> QED
        BY <3>3, <3>4
    <2>2. CASE FinishBooked(r)
      BY <2>2 DEF FinishBooked, Exit
    <2>3. CASE WriteFails(r)
      BY <2>3 DEF WriteFails, Exit
    <2>4. CASE Refuse(r) \/ Decline(r) \/ FinishUnbooked(r)
               \/ PortfolioUnknown(r) \/ ZeroVolume(r)
      <3>1. PICK code \in 0..2 :
              /\ Exit(r, code)
              /\ NeedsLedger(r) => code # 0
        BY <2>4 DEF Refuse, Decline, FinishUnbooked, PortfolioUnknown,
                    ZeroVolume
      <3>2. pc[r] \in {"preflight", "confirmed"} /\ UNCHANGED <<args, conf, rows>>
        BY <2>4 DEF Refuse, Decline, FinishUnbooked, PortfolioUnknown,
                    ZeroVolume
      <3> QED
        BY <1>b, <3>1, <3>2 DEF Exit
    <2>5. CASE SubmitFails(r) \/ SubmitReply(r) \/ PollTerminal(r)
               \/ PollDeadline(r)
      <3>1. /\ pc[r] \in {"send", "sent", "poll"}
            /\ pc'[r] \in {"poll", "confirmed"}
            /\ UNCHANGED <<args, rc, rows>>
        BY <2>5 DEF SubmitFails, SubmitReply, PollTerminal, PollDeadline, Confirm
      <3>2. ASSUME NEW s \in Run, s # r PROVE pc'[s] = pc[s] /\ conf'[s] = conf[s]
        BY <2>5, <3>2
        DEF SubmitFails, SubmitReply, PollTerminal, PollDeadline, Confirm
      <3> QED
        BY <1>b, <3>1, <3>2
    <2>6. CASE Proceed(r) \/ Send(r) \/ PollAgain(r) \/ StartWrite(r)
               \/ BeginImmediate(r) \/ InsertDecision(r) \/ InsertRow(r)
      <3>1. /\ pc[r] \notin {"report", "ended", "lost"}
            /\ pc'[r] \notin {"report", "ended", "lost"}
            /\ UNCHANGED <<args, conf, rc, rows>>
        BY <2>6 DEF Proceed, Send, PollAgain, StartWrite, BeginImmediate,
                    InsertDecision, InsertRow
      <3>2. ASSUME NEW s \in Run, s # r PROVE pc'[s] = pc[s]
        BY <2>6, <3>2 DEF Proceed, Send, PollAgain, StartWrite, BeginImmediate,
                    InsertDecision, InsertRow
      <3>3. ASSUME NEW w \in rows'
            PROVE  /\ pc'[w.run] \in {"report", "ended", "lost"}
                   /\ pc'[w.run] = "ended" => rc'[w.run] = 0
                   /\ w.intent = args'[w.run].intent
                   /\ w.qty = conf'[w.run].filled
                   /\ w.qty > 0
        BY <1>b, <3>1, <3>2
      <3>4. ASSUME NEW s \in Run,
                   \/ pc'[s] = "report"
                   \/ pc'[s] = "ended" /\ rc'[s] = 0 /\ NeedsLedger(s)'
            PROVE  \E w \in rows' : w.run = s
        BY <3>1, <3>2, <3>4
      <3> QED
        BY <3>3, <3>4
    <2> QED
      BY <1>3, <2>1, <2>2, <2>3, <2>4, <2>5, <2>6 DEF Submit
  <1>4. CASE UNCHANGED vars
    BY <1>4 DEF vars
  <1> QED
    BY <1>1, <1>2, <1>3, <1>4 DEF Next

(* The caller starts an invocation of an intent only when every earlier one
   may be retried, and an invocation that may be retried never moves again. *)
LEMMA RetryStep == IInv /\ [Next]_vars => RetryInv'
  <1> SUFFICES ASSUME IInv, [Next]_vars PROVE RetryInv'
    OBVIOUS
  <1> USE ConstantsAssumption
      DEF IInv, venueVars, runVars, dbVars,
          TypeOK, Steps, Statuses, Portfolios, Row, RetryInv, ConfInv, Retryable
  <1>1. CASE Venue
    BY <1>1 DEF Venue, VenueAccept, VenueDrop, VenueExecute, VenueEnd
  <1>2. ASSUME NEW r \in Run, Caller(r) PROVE RetryInv'
    BY <1>2 DEF Caller, Start, Crash
  <1>3. ASSUME NEW r \in Run, Submit(r) PROVE RetryInv'
    <2>1. CASE Refuse(r) \/ Decline(r) \/ Proceed(r) \/ Send(r) \/
               SubmitFails(r) \/ SubmitReply(r) \/ PollAgain(r) \/
               PollTerminal(r) \/ PollDeadline(r) \/ FinishUnbooked(r) \/
               PortfolioUnknown(r) \/ ZeroVolume(r) \/ StartWrite(r) \/
               BeginImmediate(r) \/ InsertDecision(r) \/ InsertRow(r) \/
               Commit(r) \/ WriteFails(r) \/ FinishBooked(r)
      BY <2>1
      DEF Refuse, Decline, Proceed, Send, SubmitFails, SubmitReply,
          PollAgain, PollTerminal, PollDeadline, FinishUnbooked,
          PortfolioUnknown, ZeroVolume, StartWrite, BeginImmediate,
          InsertDecision, InsertRow, Commit, WriteFails, FinishBooked,
          Exit, Confirm, Normalise
    <2> QED
      BY <1>3, <2>1 DEF Submit
  <1>4. CASE UNCHANGED vars
    BY <1>4 DEF vars
  <1> QED
    BY <1>1, <1>2, <1>3, <1>4 DEF Next

(* Rows and decisions change only in Commit, together. *)
LEMMA TogetherStep == IInv /\ [Next]_vars => RowsAndDecisionsTogether'
  <1> SUFFICES ASSUME IInv, [Next]_vars PROVE RowsAndDecisionsTogether'
    OBVIOUS
  <1> USE ConstantsAssumption
      DEF IInv, venueVars, runVars, dbVars,
          TypeOK, Steps, Statuses, Portfolios, Row, RowsAndDecisionsTogether, TxnInv
  <1>1. CASE Venue
    BY <1>1 DEF Venue, VenueAccept, VenueDrop, VenueExecute, VenueEnd
  <1>2. ASSUME NEW r \in Run, Caller(r) PROVE RowsAndDecisionsTogether'
    BY <1>2 DEF Caller, Start, Crash
  <1>3. ASSUME NEW r \in Run, Submit(r) PROVE RowsAndDecisionsTogether'
    <2>1. CASE Commit(r)
      <3> DEFINE v == [run |-> r, intent |-> args[r].intent, qty |-> conf[r].filled]
      <3>1. rows' = rows \cup {v} /\ decisions' = decisions \cup {v.intent}
        BY <2>1 DEF Commit
      <3>2. ASSUME NEW d \in decisions' PROVE \E w \in rows' : d = w.intent
        <4>1. CASE d = v.intent
          BY <3>1, <4>1
        <4>2. CASE d \in decisions
          <5>1. PICK w \in rows : d = w.intent
            BY <4>2
          <5> QED
            BY <3>1, <5>1
        <4> QED
          BY <3>1, <4>1, <4>2
      <3>3. ASSUME NEW w \in rows' PROVE w.intent \in decisions'
        <4>1. CASE w = v
          BY <3>1, <4>1
        <4>2. CASE w \in rows
          BY <3>1, <4>2
        <4> QED
          BY <3>1, <4>1, <4>2
      <3>4. decisions' = {w.intent : w \in rows'}
        BY <3>2, <3>3
      <3> QED
        BY <3>4
    <2>2. CASE Refuse(r) \/ Decline(r) \/ Proceed(r) \/ Send(r) \/
               SubmitFails(r) \/ SubmitReply(r) \/ PollAgain(r) \/
               PollTerminal(r) \/ PollDeadline(r) \/ FinishUnbooked(r) \/
               PortfolioUnknown(r) \/ ZeroVolume(r) \/ StartWrite(r) \/
               BeginImmediate(r) \/ InsertDecision(r) \/ InsertRow(r) \/
               WriteFails(r) \/ FinishBooked(r)
      BY <2>2
      DEF Refuse, Decline, Proceed, Send, SubmitFails, SubmitReply,
          PollAgain, PollTerminal, PollDeadline, FinishUnbooked,
          PortfolioUnknown, ZeroVolume, StartWrite, BeginImmediate,
          InsertDecision, InsertRow, WriteFails, FinishBooked, Exit,
          Confirm, Normalise
    <2> QED
      BY <1>3, <2>1, <2>2 DEF Submit
  <1>4. CASE UNCHANGED vars
    BY <1>4 DEF vars
  <1> QED
    BY <1>1, <1>2, <1>3, <1>4 DEF Next

-----------------------------------------------------------------------------
(* The invariant is inductive. *)
LEMMA InitIInv == Init => IInv
  <1> SUFFICES ASSUME Init PROVE IInv
    OBVIOUS
  <1> USE ConstantsAssumption
      DEF Init, Steps, Statuses, Portfolios, NoTxn, NoConf, NoArgs
  <1>1. TypeOK
    BY DEF TypeOK
  <1>2. TxnInv
    BY DEF TxnInv
  <1>3. ConfInv
    BY DEF ConfInv
  <1>4. RowInv
    BY DEF RowInv
  <1>5. RetryInv
    BY DEF RetryInv
  <1>6. RowsAndDecisionsTogether
    BY DEF RowsAndDecisionsTogether
  <1> QED
    BY <1>1, <1>2, <1>3, <1>4, <1>5, <1>6 DEF IInv

LEMMA StepIInv == IInv /\ [Next]_vars => IInv'
  BY TypeStep, TxnStep, ConfStep, RowStep, RetryStep, TogetherStep DEF IInv

LEMMA Inductive == Spec => []IInv
  BY InitIInv, StepIInv, PTL DEF Spec

-----------------------------------------------------------------------------
(* Every variable keeps its type, whatever the venue, the caller and the
   crashes do (SpotSubmit's actions never leave their state space). *)
THEOREM TypeCorrect == Spec => []TypeOK
  <1>1. IInv => TypeOK
    BY DEF IInv
  <1> QED
    BY <1>1, Inductive, PTL

(* A transaction row carries exactly what its order executed, and the order
   has left the venue's book: nothing _poll_fill saw of a working order ever
   reaches write_fill_to_portfolio. *)
THEOREM RowsAreFinalFills == Spec => []RowIsFinalFill
  <1>1. IInv => RowIsFinalFill
    <2> SUFFICES ASSUME IInv, NEW w \in rows
                 PROVE  Dead(w.intent) /\ w.qty = exec[w.intent] /\ w.qty > 0
      BY DEF RowIsFinalFill
    <2>1. w.run \in Run
      BY DEF IInv, TypeOK, Row
    <2>2. w.intent = args[w.run].intent /\ w.qty = conf[w.run].filled /\ w.qty > 0
      BY DEF IInv, RowInv
    <2> QED
      BY <2>1, <2>2 DEF IInv, ConfInv
  <1> QED
    BY <1>1, Inductive, PTL

(* add_transaction_with_decision is atomic: no crash, failed insert or other
   writer leaves a row without its decision or a decision without a row. *)
THEOREM RowsCarryDecisions == Spec => []RowsAndDecisionsTogether
  <1>1. IInv => RowsAndDecisionsTogether
    BY DEF IInv
  <1> QED
    BY <1>1, Inductive, PTL

(* cmd_submit's exit code tells the ledger: of the invocations that end with a
   fill to book, those that exit 0 have their row and the others have none. *)
THEOREM ExitCodesTellLedger == Spec => []ExitCodeTellsLedger
  <1>1. IInv => ExitCodeTellsLedger
    <2> SUFFICES ASSUME IInv, NEW r \in Run, pc[r] = "ended", NeedsLedger(r)
                 PROVE  rc[r] = 0 <=> \E w \in rows : w.run = r
      BY DEF ExitCodeTellsLedger
    <2>1. rc[r] = 0 => \E w \in rows : w.run = r
      BY DEF IInv, RowInv
    <2>2. ASSUME NEW w \in rows, w.run = r PROVE rc[r] = 0
      BY <2>2 DEF IInv, RowInv
    <2> QED
      BY <2>1, <2>2
  <1> QED
    BY <1>1, Inductive, PTL

(* An invocation that has written a row may not be retried. *)
LEMMA RowNotRetryable ==
  ASSUME IInv, RetryLost = FALSE, NEW w \in rows
  PROVE  w.run \in Run /\ ~Retryable(w.run)
  <1>1. w.run \in Run
    BY DEF IInv, TypeOK, Row
  <1>2. /\ pc[w.run] \in {"report", "ended", "lost"}
        /\ pc[w.run] = "ended" => rc[w.run] = 0
        /\ conf[w.run].filled > 0
    BY DEF IInv, RowInv
  <1>3. conf[w.run].status \in {"filled", "partial"}
    BY <1>1, <1>2 DEF IInv, ConfInv
  <1> QED
    BY <1>1, <1>2, <1>3 DEF Retryable

(* Under the contract's retry rule an order is booked once, however often it is
   retried and wherever invocations die. *)
THEOREM BookedOnce == RetryLost = FALSE => (Spec => []OneRowPerOrder)
  <1> SUFFICES ASSUME RetryLost = FALSE PROVE Spec => []OneRowPerOrder
    OBVIOUS
  <1>1. IInv => OneRowPerOrder
    <2> SUFFICES ASSUME IInv, NEW v \in rows, NEW w \in rows, v.intent = w.intent
                 PROVE  v = w
      BY DEF OneRowPerOrder
    <2>1. /\ v \in Row /\ w \in Row
          /\ ~Retryable(v.run) /\ ~Retryable(w.run)
      BY RowNotRetryable DEF IInv, TypeOK
    <2>2. /\ v.intent = args[v.run].intent /\ v.qty = conf[v.run].filled
          /\ w.intent = args[w.run].intent /\ w.qty = conf[w.run].filled
      BY DEF IInv, RowInv
    <2>3. v.run = w.run
      BY <2>1, <2>2 DEF IInv, RetryInv, Row
    <2> QED
      BY <2>1, <2>2, <2>3 DEF Row
  <1> QED
    BY <1>1, Inductive, PTL

-----------------------------------------------------------------------------
(* Each step of the protocol is a step of the abstract ledger or none. *)
LEMMA LedgerStep ==
  ASSUME RetryLost = FALSE, IInv, [Next]_vars
  PROVE  [Ledger!Next]_(Ledger!vars)
  <1> USE ConstantsAssumption, EndsAreEnds DEF venueVars, runVars, dbVars, Ledger!vars, Dead
  <1>1. ASSUME NEW i \in Intent,
               \/ VenueAccept(i) \/ VenueDrop(i) \/ VenueExecute(i)
               \/ \E l \in EndLabels : VenueEnd(i, l)
        PROVE  [Ledger!Next]_(Ledger!vars)
    <2>1. CASE VenueAccept(i) \/ VenueDrop(i)
      BY <2>1 DEF VenueAccept, VenueDrop, IInv, TypeOK
    <2>2. CASE VenueExecute(i)
      <3>1. Ledger!Execute(i)
        BY <2>2 DEF VenueExecute, Ledger!Execute
      <3> QED
        BY <3>1 DEF Ledger!Next
    <2>3. ASSUME NEW l \in EndLabels, VenueEnd(i, l)
          PROVE  [Ledger!Next]_(Ledger!vars)
      <3>1. Ledger!Settle(i)
        BY <2>3 DEF VenueEnd, Ledger!Settle, IInv, TypeOK
      <3> QED
        BY <3>1 DEF Ledger!Next
    <2> QED
      BY <1>1, <2>1, <2>2, <2>3
  <1>2. ASSUME NEW r \in Run, Caller(r) PROVE UNCHANGED <<order, exec, rows>>
    BY <1>2 DEF Caller, Start, Crash
  <1>3. ASSUME NEW r \in Run, Submit(r), ~Commit(r)
        PROVE  UNCHANGED <<order, exec, rows>>
    BY <1>3 DEF Submit, Refuse, Decline, Proceed, Send, SubmitFails, SubmitReply,
         PollAgain, PollTerminal, PollDeadline, FinishUnbooked,
         PortfolioUnknown, ZeroVolume, StartWrite, BeginImmediate,
         InsertDecision, InsertRow, WriteFails, FinishBooked
  <1>4. ASSUME NEW r \in Run, Commit(r) PROVE [Ledger!Next]_(Ledger!vars)
    <2> DEFINE i == args[r].intent
    <2>1. pc[r] = "commit" /\ UNCHANGED <<order, exec>>
      BY <1>4 DEF Commit
    <2>2. i \in Intent /\ Dead(i) /\ conf[r].filled = exec[i] /\ exec[i] > 0
      BY <2>1 DEF IInv, ConfInv
    <2>3. rows' = rows \cup {[run |-> r, intent |-> i, qty |-> exec[i]]}
      BY <1>4, <2>1, <2>2 DEF Commit, IInv, TxnInv
    <2>4. ASSUME NEW w \in rows PROVE w.intent # i
      <3>1. w.run \in Run /\ ~Retryable(w.run)
        BY RowNotRetryable
      <3>2. w.intent = args[w.run].intent /\ w.run # r
        BY <2>1 DEF IInv, RowInv
      <3> QED
        BY <2>1, <2>2, <3>1, <3>2 DEF IInv, RetryInv, Retryable
    <2>5. Ledger!Book(i, r)
      BY <2>1, <2>2, <2>3, <2>4 DEF Ledger!Book
    <2> QED
      BY <2>2, <2>5 DEF Ledger!Next
  <1>5. ASSUME UNCHANGED <<order, exec, rows>> PROVE [Ledger!Next]_(Ledger!vars)
    BY <1>5
  <1> QED
    BY <1>1, <1>2, <1>3, <1>4, <1>5 DEF Next, Venue, vars

(* The whole execution path implements the abstract ledger: orders execute,
   settle and are then booked once and in full. *)
THEOREM ImplementsLedger == RetryLost = FALSE => (Spec => BooksOnceAndInFull)
  <1> SUFFICES ASSUME RetryLost = FALSE PROVE Spec => BooksOnceAndInFull
    OBVIOUS
  <1>1. Init => Ledger!Init
    <2> SUFFICES ASSUME Init PROVE Ledger!Init
      OBVIOUS
    <2>1. ASSUME NEW i \in Intent PROVE Dead(i) = FALSE
      <3>1. "none" \notin EndLabels
        BY EndsAreEnds
      <3>2. order[i] = "none"
        BY DEF Init
      <3> QED
        BY <3>1, <3>2 DEF Dead
    <2>2. [i \in Intent |-> Dead(i)] = [i \in Intent |-> FALSE]
      BY <2>1, Zenon
    <2> QED
      BY <2>2 DEF Init, Ledger!Init
  <1>2. IInv /\ [Next]_vars => [Ledger!Next]_(Ledger!vars)
    BY LedgerStep
  <1> QED
    BY <1>1, <1>2, Inductive, PTL DEF Spec, BooksOnceAndInFull, Ledger!Spec
=============================================================================
