------------------------- MODULE PerpsBracketProofs -------------------------
(***************************************************************************)
(* Proofs about PerpsBracket, for every number of intents and invocations. *)
(***************************************************************************)
EXTENDS PerpsBracket, TLAPS

LEMMA InitIInv == Init => IInv
  BY BracketAssumption DEF Init, IInv, TypeOK, LegInv, LegsInOrder,
     ErrorNamesOpenOrder, NeverLeftUnprotected, Steps, Legs, NoArgs,
     Confirmations, Errors

(* What the venue does changes no invocation, and what it has accepted stays
   accepted. *)
LEMMA VenueStep == IInv /\ Venue => IInv'
  <1> SUFFICES ASSUME IInv, Venue PROVE IInv'
    OBVIOUS
  <1>1. UNCHANGED runVars /\ placed \subseteq placed'
    BY DEF Venue, VenueOpens, VenueRests, VenueCloses, VenueRefuses, VenueLoses,
           VenueTriggers, Accept
  <1>2. LegInv'
    BY <1>1 DEF IInv, LegInv, runVars
  <1>3. LegsInOrder' /\ ErrorNamesOpenOrder'
    BY <1>1 DEF IInv, LegsInOrder, ErrorNamesOpenOrder, runVars
  <1>4. RefusalExits => NeverLeftUnprotected'
    BY <1>1 DEF IInv, NeverLeftUnprotected, runVars
  <1>5. TypeOK'
    <2> USE <1>1 DEF TypeOK, runVars
    <2>0. TypeOK
      BY DEF IInv
    <2>1. ASSUME NEW r \in Run, VenueOpens(r) PROVE TypeOK'
      <3>1. <<r, "open">> \in asked /\ "open" \in Legs
        BY <2>0, <2>1 DEF VenueOpens, Accept, Legs
      <3>2. args[r].intent \in Intent
        BY <3>1 DEF IInv, LegInv
      <3> QED
        BY <2>0, <2>1, <3>2 DEF VenueOpens, Accept
    <2>2. ASSUME NEW r \in Run, VenueRests(r) PROVE TypeOK'
      BY <2>0, <2>2 DEF VenueRests, Accept
    <2>3. ASSUME NEW r \in Run, VenueCloses(r) PROVE TypeOK'
      BY <2>0, <2>3 DEF VenueCloses, Accept
    <2>4. ASSUME NEW x \in wire, VenueRefuses(x) PROVE TypeOK'
      BY <2>0, <2>4 DEF VenueRefuses
    <2>5. ASSUME NEW x \in wire, VenueLoses(x) PROVE TypeOK'
      BY <2>0, <2>5 DEF VenueLoses
    <2>6. CASE VenueTriggers
      BY <2>0, <2>6 DEF VenueTriggers
    <2> QED
      BY <2>1, <2>2, <2>3, <2>4, <2>5, <2>6 DEF Venue
  <1> QED
    BY <1>2, <1>3, <1>4, <1>5 DEF IInv

(* What an invocation's move to step p with confirmation c must respect. *)
Respects(r, p, c) ==
  /\ p = "open" => \A leg \in Legs : <<r, leg>> \in asked => leg = "open"
  /\ p = "stop" => <<r, "tp">> \notin asked /\ <<r, "close">> \notin asked
  /\ p = "close" => <<r, "tp">> \notin asked
  /\ p = "tp" => <<r, "stop">> \in placed /\ <<r, "close">> \notin asked
  /\ p # "ended" => c = "none"
  /\ c = "error" => \A leg \in Legs : <<r, leg>> \in asked => leg = "open"
  /\ RefusalExits /\ c \in {"submitted", "tp_failed", "rolledback"} =>
       <<r, "stop">> \in placed \/ <<r, "close">> \in placed

LEMMA MoveStep ==
  ASSUME IInv, NEW r \in Run, pc[r] # "idle",
         NEW p \in {"ended", "lost"} \cup Legs, NEW c \in Confirmations,
         UNCHANGED <<venueVars, args, asked>>, rc' \in [Run -> 0..2],
         pc' = [pc EXCEPT ![r] = p], conf' = [conf EXCEPT ![r] = c],
         Respects(r, p, c)
  PROVE  IInv'
  <1> USE DEF venueVars
  <1>0. /\ p \in Steps \ {"idle", "preflight"}
        /\ pc'[r] = p /\ conf'[r] = c
        /\ \A s \in Run : s # r => pc'[s] = pc[s] /\ conf'[s] = conf[s]
    BY DEF IInv, TypeOK, Steps, Legs
  <1>1. TypeOK'
    BY <1>0 DEF IInv, TypeOK
  <1>2. LegInv'
    <2> SUFFICES ASSUME NEW s \in Run
                 PROVE  /\ pc'[s] \in {"idle", "preflight"} =>
                             \A leg \in Legs : <<s, leg>> \notin asked
                        /\ pc'[s] = "open" =>
                             \A leg \in Legs : <<s, leg>> \in asked => leg = "open"
                        /\ pc'[s] = "stop" =>
                             <<s, "tp">> \notin asked /\ <<s, "close">> \notin asked
                        /\ pc'[s] = "close" => <<s, "tp">> \notin asked
                        /\ pc'[s] = "tp" =>
                             <<s, "stop">> \in placed /\ <<s, "close">> \notin asked
                        /\ pc'[s] # "ended" => conf'[s] = "none"
                        /\ pc'[s] # "idle" => args[s].intent \in Intent
      BY DEF LegInv
    <2>1. CASE s = r
      BY <1>0, <2>1 DEF Respects, IInv, LegInv
    <2>2. CASE s # r
      BY <1>0, <2>2 DEF IInv, LegInv
    <2> QED
      BY <2>1, <2>2
  <1>3. LegsInOrder'
    BY DEF IInv, LegsInOrder
  <1>4. ErrorNamesOpenOrder'
    BY <1>0 DEF IInv, ErrorNamesOpenOrder, Respects
  <1>5. RefusalExits => NeverLeftUnprotected'
    BY <1>0 DEF IInv, NeverLeftUnprotected, Respects
  <1> QED
    BY <1>1, <1>2, <1>3, <1>4, <1>5 DEF IInv

(* A new invocation has sent nothing; a killed one sends no more. *)
LEMMA CallerStep == ASSUME IInv, NEW r \in Run, Caller(r) PROVE IInv'
  <1>1. ASSUME NEW i \in Intent, NEW w \in BOOLEAN, NEW j \in BOOLEAN,
               Start(r, i, w, j)
        PROVE  IInv'
    <2> USE <1>1 DEF Start, venueVars
    <2>1. TypeOK'
      BY DEF IInv, TypeOK, Steps
    <2>2. LegInv'
      BY DEF IInv, TypeOK, LegInv
    <2>3. LegsInOrder' /\ ErrorNamesOpenOrder'
      BY DEF IInv, LegsInOrder, ErrorNamesOpenOrder
    <2>4. RefusalExits => NeverLeftUnprotected'
      BY DEF IInv, NeverLeftUnprotected
    <2> QED
      BY <2>1, <2>2, <2>3, <2>4 DEF IInv
  <1>2. CASE Crash(r)
    <2>1. conf[r] = "none" /\ conf' = [conf EXCEPT ![r] = "none"]
      BY <1>2 DEF Crash, IInv, TypeOK, LegInv
    <2>2. Respects(r, "lost", "none")
      BY DEF Respects
    <2>3. rc' \in [Run -> 0..2] /\ pc[r] # "idle" /\ "none" \in Confirmations
      BY <1>2 DEF Crash, IInv, TypeOK, Confirmations
    <2> QED
      BY <1>2, <2>1, <2>2, <2>3, MoveStep DEF Crash
  <1> QED
    BY <1>1, <1>2 DEF Caller

(* Sending a leg: it is the leg the invocation is at. *)
LEMMA SendStep == ASSUME IInv, NEW r \in Run, Send(r) PROVE IInv'
  <1> DEFINE x == <<r, pc[r]>>
  <1>1. /\ pc[r] \in Legs /\ x \notin asked
        /\ asked' = asked \cup {x} /\ wire' = wire \cup {x}
        /\ UNCHANGED <<opened, pos, stops, tps, placed, refused,
                       pc, args, conf, rc>>
    BY DEF Send, Sent
  <1>2. TypeOK'
    BY <1>1 DEF IInv, TypeOK
  <1>3. \A s \in Run, leg \in Legs :
          <<s, leg>> \in asked' => <<s, leg>> \in asked \/ (s = r /\ leg = pc[r])
    BY <1>1
  <1>4. LegInv'
    BY <1>1, <1>3 DEF IInv, LegInv, Legs
  <1>5. LegsInOrder'
    BY <1>1, <1>3 DEF IInv, LegInv, LegsInOrder, Legs
  <1>6. ErrorNamesOpenOrder'
    BY <1>1, <1>3 DEF IInv, LegInv, ErrorNamesOpenOrder, Legs
  <1>7. RefusalExits => NeverLeftUnprotected'
    BY <1>1 DEF IInv, NeverLeftUnprotected
  <1> QED
    BY <1>2, <1>4, <1>5, <1>6, <1>7 DEF IInv

(* Each leg is reached only after the answer the one before it called for. *)
LEMMA SubmitStep == ASSUME IInv, NEW r \in Run, Submit(r) PROVE IInv'
  <1> DEFINE Frame == UNCHANGED <<venueVars, args, asked>>
             Move(p, c) == /\ pc[r] # "idle" /\ Frame /\ rc' \in [Run -> 0..2]
                           /\ pc' = [pc EXCEPT ![r] = p]
                           /\ conf' = [conf EXCEPT ![r] = c]
                           /\ Respects(r, p, c)
  <1>0. ASSUME NEW p \in {"ended", "lost"} \cup Legs, NEW c \in Confirmations,
               Move(p, c)
        PROVE  IInv'
    BY <1>0, MoveStep
  <1> HIDE DEF Move
  <1>c. /\ conf \in [Run -> Confirmations] /\ rc \in [Run -> 0..2]
        /\ pc[r] # "ended" => conf[r] = "none"
    BY DEF IInv, TypeOK, LegInv
  <1>l. "none" \in Confirmations /\ Errors \subseteq Confirmations
        /\ {"submitted", "tp_failed"} \subseteq Confirmations
    BY DEF Confirmations
  <1>1. CASE Refuse(r) \/ Decline(r)
    <2>1. Respects(r, "ended", "none")
      BY DEF Respects
    <2>2. Move("ended", "none")
      BY <1>1, <1>c, <2>1 DEF Refuse, Decline, Move
    <2> QED
      BY <1>0, <1>l, <2>2
  <1>2. CASE Proceed(r)
    <2>1. Respects(r, "open", "none")
      BY <1>2 DEF Proceed, Respects, IInv, LegInv
    <2>2. Move("open", "none")
      BY <1>2, <1>c, <2>1 DEF Proceed, Move
    <2> QED
      BY <1>0, <1>l, <2>2 DEF Legs
  <1>3. CASE Send(r)
    BY <1>3, SendStep
  <1>4. CASE OpenReply(r)
    <2>1. Respects(r, "stop", "none")
      BY <1>4 DEF OpenReply, Respects, IInv, LegInv, Legs
    <2>2. Move("stop", "none")
      BY <1>4, <1>c, <2>1 DEF OpenReply, GoTo, Move
    <2> QED
      BY <1>0, <1>l, <2>2 DEF Legs
  <1>5. CASE OpenFails(r)
    <2>1. Respects(r, "ended", "error")
      BY <1>5 DEF OpenFails, Respects, IInv, LegInv
    <2>2. Move("ended", "error")
      BY <1>5, <1>c, <2>1 DEF OpenFails, Return, Move
    <2> QED
      BY <1>0, <1>l, <2>2 DEF Errors
  <1>6. CASE StopReply(r)
    <2>1. Respects(r, "tp", "none")
      BY <1>6 DEF StopReply, Acknowledged, Respects, IInv, LegInv
    <2>2. Move("tp", "none")
      BY <1>6, <1>c, <2>1 DEF StopReply, GoTo, Move
    <2> QED
      BY <1>0, <1>l, <2>2 DEF Legs
  <1>7. CASE StopFails(r)
    <2>1. Respects(r, "close", "none")
      BY <1>7 DEF StopFails, Respects, IInv, LegInv
    <2>2. Move("close", "none")
      BY <1>7, <1>c, <2>1 DEF StopFails, GoTo, Move
    <2> QED
      BY <1>0, <1>l, <2>2 DEF Legs
  <1>8. CASE CloseReply(r)
    <2>1. Respects(r, "ended", "rolledback")
      BY <1>8 DEF CloseReply, Acknowledged, Respects
    <2>2. Move("ended", "rolledback")
      BY <1>8, <1>c, <2>1 DEF CloseReply, Return, Move
    <2> QED
      BY <1>0, <1>l, <2>2 DEF Errors
  <1>9. CASE CloseFails(r)
    <2>1. Respects(r, "ended", "unprotected")
      BY DEF Respects
    <2>2. Move("ended", "unprotected")
      BY <1>9, <1>c, <2>1 DEF CloseFails, Return, Move
    <2> QED
      BY <1>0, <1>l, <2>2 DEF Errors
  <1>10. ASSUME NEW c \in {"submitted", "tp_failed"}, Finish(r, c), pc[r] = "tp",
                Frame
         PROVE  IInv'
    <2>1. Respects(r, "ended", c) /\ Respects(r, "ended", "none")
      BY <1>10 DEF Respects, IInv, LegInv
    <2>2. Move("ended", c) \/ Move("ended", "none")
      BY <1>10, <1>c, <2>1 DEF Finish, Return, Move
    <2> QED
      BY <1>0, <1>l, <2>2
  <1>11. CASE TpReply(r) \/ TpFails(r)
    BY <1>10, <1>11 DEF TpReply, TpFails
  <1> QED
    BY <1>1, <1>2, <1>3, <1>4, <1>5, <1>6, <1>7, <1>8, <1>9, <1>11 DEF Submit

LEMMA StepIInv == IInv /\ [Next]_vars => IInv'
  <1>1. IInv /\ UNCHANGED vars => IInv'
    BY DEF IInv, TypeOK, LegInv, LegsInOrder, ErrorNamesOpenOrder,
           NeverLeftUnprotected, vars, venueVars, runVars
  <1> QED
    BY <1>1, VenueStep, CallerStep, SubmitStep DEF Next

LEMMA Inductive == Spec => []IInv
  BY InitIInv, StepIInv, PTL DEF Spec

-----------------------------------------------------------------------------
(* Every state reached is well typed: in particular every leg is in one place
   only (on the wire, placed or refused) and was sent by its invocation. *)
THEOREM TypeCorrect == Spec => []TypeOK
  <1>1. IInv => TypeOK
    BY DEF IInv
  <1> QED
    BY <1>1, Inductive, PTL

(* place_order sends a take-profit only behind an acknowledged stop, and never
   both a take-profit and a rollback. *)
THEOREM LegsOrdered == Spec => []LegsInOrder
  <1>1. IInv => LegsInOrder
    BY DEF IInv
  <1> QED
    BY <1>1, Inductive, PTL

(* An error confirmation without an order id comes from an invocation that has
   sent nothing but the open order. *)
THEOREM ErrorsNameOrder == Spec => []ErrorNamesOpenOrder
  <1>1. IInv => ErrorNamesOpenOrder
    BY DEF IInv
  <1> QED
    BY <1>1, Inductive, PTL

(* When the CLI fails on every refused order, no invocation reports a bracket
   or a rollback without its stop or its closing order accepted. *)
THEOREM Protected == RefusalExits => (Spec => []NeverLeftUnprotected)
  <1> SUFFICES ASSUME RefusalExits PROVE Spec => []NeverLeftUnprotected
    OBVIOUS
  <1>1. IInv => NeverLeftUnprotected
    BY DEF IInv
  <1> QED
    BY <1>1, Inductive, PTL
=============================================================================
