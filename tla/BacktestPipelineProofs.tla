----------------------- MODULE BacktestPipelineProofs -----------------------
(***************************************************************************)
(* Proofs about BacktestPipeline, for every grid, every market, any number *)
(* of overlapping or killed runs, and every length of the baseline.        *)
(***************************************************************************)
EXTENDS BacktestPipeline, SequenceTheorems, FiniteSetTheorems, TLAPS

(* A run is past the thresholds, or past the skip list. *)
AfterTable == {"matrix", "regime", "skip", "hold", "brief", "save"}
AfterSkip == {"hold", "brief", "save"}

(* Each run works on a night of its own, which it has logged before it     *)
(* writes anything, two at a time disturb each other, and the record of a  *)
(* logged night says what the market offered.                              *)
NightInv ==
  /\ \A r \in Runs : own[r] <= nights /\ (own[r] = 0 <=> pc[r] = "off")
  /\ \A r \in Runs : pc[r] \in {"measure", "log"} => own[r] \notin log
  /\ \A r \in Runs : pc[r] \notin {"off", "measure", "log"} => own[r] \in log
  /\ \A r, q \in Active : r # q => own[r] # own[q] /\ own[r] \in disturbed
  /\ \A n \in log \cup disturbed : n <= nights
  /\ \A a \in Artifacts : disk[a] \in Night => disk[a] \in log
  /\ \A n \in log : results[n] = market[n]
  /\ \A r \in Runs : pc[r] = "log" => results[own[r]] = market[own[r]]

(* While an undisturbed night's table is on disk, the skip list is as old, *)
(* or that night had nothing to keep; later runs found nothing to measure. *)
TableInv ==
  disk["thresholds"] \in Night \ disturbed =>
    LET n == disk["thresholds"] IN
    \/ \E r \in Runs : own[r] = n /\ pc[r] \in AfterTable \ AfterSkip
    \/ /\ disk["skip"] \notin {Absent, Blank}
       /\ disk["skip"] = n \/ Numbered(results[n]) = {}
       /\ \A r \in Runs : own[r] # n /\ pc[r] \in AfterTable => Measured(results[own[r]]) = {}

(* A run works on the copy of the baseline it read at the start.  Nights   *)
(* that finish meanwhile were overlapped.                                  *)
BaseInv ==
  /\ state.ok => Accounts(state.base)
  /\ \A r \in Active :
       /\ Accounts(loaded[r])
       /\ \A c \in Combos : \A k \in DOMAIN loaded[r][c] : loaded[r][c][k].night < own[r]

IInv == TypeOK /\ NightInv /\ TableInv /\ BaseInv

-----------------------------------------------------------------------------

(* The six artifacts, by name.                                             *)
LEMMA Names ==
  /\ Artifacts = {"thresholds", "matrix", "regime", "skip", "hold", "brief"}
  /\ Order[1] = "thresholds" /\ Len(Order) = 6
  <1>1. DOMAIN Order = 1..6 /\ 1..6 = {1, 2, 3, 4, 5, 6}
    BY DEF Order
  <1>2. Artifacts = {Order[i] : i \in {1, 2, 3, 4, 5, 6}}
    BY <1>1 DEF Artifacts, ToSet
  <1> QED
    BY <1>2 DEF Order

(* The order in which a run writes them.                                   *)
LEMMA NextPhases ==
  /\ NextPhase("thresholds") = "matrix" /\ NextPhase("matrix") = "regime"
  /\ NextPhase("regime") = "skip" /\ NextPhase("skip") = "hold"
  /\ NextPhase("hold") = "brief" /\ NextPhase("brief") = "save"
  <1>1. Order[1] = "thresholds" /\ Order[2] = "matrix" /\ Order[3] = "regime"
        /\ Order[4] = "skip" /\ Order[5] = "hold" /\ Order[6] = "brief" /\ Len(Order) = 6
        /\ 1..6 = {1, 2, 3, 4, 5, 6}
    BY DEF Order
  <1>2. ASSUME NEW i \in 1..6
        PROVE  (CHOOSE j \in 1..6 : Order[j] = Order[i]) = i
    <2>1. \A j \in 1..6 : Order[j] = Order[i] => j = i
      BY <1>1
    <2> QED
      BY <2>1
  <1>3. \A i \in 1..6 : NextPhase(Order[i]) = IF i = 6 THEN "save" ELSE Order[i + 1]
    BY <1>1, <1>2 DEF NextPhase
  <1>4. 1 \in 1..6 /\ 2 \in 1..6 /\ 3 \in 1..6 /\ 4 \in 1..6 /\ 5 \in 1..6 /\ 6 \in 1..6
    OBVIOUS
  <1> HIDE DEF NextPhase
  <1>5. NextPhase("thresholds") = Order[2] /\ NextPhase("matrix") = Order[3]
    BY <1>1, <1>3, <1>4
  <1>6. NextPhase("regime") = Order[4] /\ NextPhase("skip") = Order[5]
    BY <1>1, <1>3, <1>4
  <1>7. NextPhase("hold") = Order[6] /\ NextPhase("brief") = "save"
    BY <1>1, <1>3, <1>4
  <1> QED
    BY <1>1, <1>5, <1>6, <1>7

(* The child's environment switches the gate off, so a run record says     *)
(* what the market offered.                                                *)
LEMMA ChildIsFree == ASSUME NEW c, NEW o PROVE ChildResult(c, o) = o
  <1>1. ChildFloor(c) = GlobalMin
    BY DEF ChildFloor, ChildGate
  <1> QED
    BY <1>1, PipelineAssumption DEF ChildResult, GlobalMin

(* Measuring changes the records of one night only, to what was offered.   *)
LEMMA RecordsAreOffers ==
  ASSUME NEW r \in Runs, Measure(r), TypeOK, NEW n, n = own[r], n \in Night
  PROVE  /\ \A m \in Night : m # n => results'[m] = results[m] /\ market'[m] = market[m]
         /\ results'[n] = market'[n]
         /\ DOMAIN results' = Night /\ DOMAIN market' = Night
         /\ DOMAIN results'[n] \subseteq Combos /\ \A c \in DOMAIN results'[n] : results'[n][c] \in Outcomes
  <1>1. PICK offered \in [DOMAIN results[n] -> Outcomes] :
          /\ market' = [market EXCEPT ![n] = offered]
          /\ results' = [results EXCEPT ![n] =
                           [c \in DOMAIN offered |-> ChildResult(c, offered[c])]]
    BY DEF Measure
  <1>2. [c \in DOMAIN offered |-> ChildResult(c, offered[c])] = offered
    BY ChildIsFree
  <1>3. DOMAIN results = Night /\ DOMAIN market = Night
    BY DEF TypeOK
  <1>4. market' = [market EXCEPT ![n] = offered] /\ results' = [results EXCEPT ![n] = offered]
    BY <1>1, <1>2
  <1>5. results'[n] = offered /\ market'[n] = offered
    BY <1>3, <1>4
  <1>6. DOMAIN offered \subseteq Combos /\ \A c \in DOMAIN offered : offered[c] \in Outcomes
    BY DEF TypeOK
  <1> QED
    BY <1>3, <1>4, <1>5, <1>6

(* The first entry the window keeps.                                       *)
LEMMA MaxOfOne == ASSUME NEW k \in Int PROVE Max({1, k}) = IF k > 1 THEN k ELSE 1
  <1> DEFINE m == IF k > 1 THEN k ELSE 1
  <1>1. m \in {1, k} /\ \A y \in {1, k} : m >= y
    OBVIOUS
  <1>2. ASSUME NEW x \in {1, k}, \A y \in {1, k} : x >= y PROVE x = m
    BY <1>2
  <1> HIDE DEF m
  <1>3. Max({1, k}) = m
    BY <1>1, <1>2 DEF Max
  <1> QED
    BY <1>3 DEF m

(* g ends with one entry more than h, and begins d entries later.          *)
Shifted(g, h, d) ==
  \A k \in 1..Len(g) : k # Len(g) => k + d \in 1..Len(h) /\ g[k] = h[k + d]

(* A pair's history after a night: the newest entries, the night's last.   *)
LEMMA RecentNights ==
  ASSUME NEW S, NEW h \in Seq(S), NEW e \in S, NEW g, g = Recent(Append(h, e))
  PROVE  /\ g \in Seq(S) /\ g[Len(g)] = e
         /\ Len(g) = IF Len(h) + 1 > Window THEN Window ELSE Len(h) + 1
         /\ Len(h) + 1 - Len(g) \in Nat /\ Shifted(g, h, Len(h) + 1 - Len(g))
  <1> DEFINE a == Append(h, e)
             f == IF Len(h) + 1 > Window THEN Len(h) + 2 - Window ELSE 1
  <1>1. a \in Seq(S) /\ Len(a) = Len(h) + 1 /\ a[Len(h) + 1] = e
        /\ \A k \in 1..Len(h) : a[k] = h[k]
    BY AppendProperties
  <1>2. Len(h) \in Nat /\ Window \in Nat \ {0} /\ Len(a) - Window + 1 \in Int
    BY <1>1, PipelineAssumption
  <1>3. Max({1, Len(a) - Window + 1}) = f
    BY <1>1, <1>2, MaxOfOne
  <1> HIDE DEF a
  <1>4. g = SubSeq(a, f, Len(a))
    BY <1>3 DEF Recent, a
  <1>5. f \in 1..Len(a)
    BY <1>1, <1>2
  <1> HIDE DEF f
  <1>6. \A i \in f..Len(a) : a[i] \in S
    BY <1>1, <1>5
  <1>7. /\ g \in Seq(S) /\ Len(g) = Len(a) - f + 1
        /\ \A i \in 1..(Len(a) - f + 1) : g[i] = a[f + i - 1]
    BY <1>1, <1>2, <1>4, <1>5, <1>6, SubSeqProperties
  <1>8. Len(g) = IF Len(h) + 1 > Window THEN Window ELSE Len(h) + 1
    BY <1>1, <1>2, <1>7 DEF f
  <1>9. Len(g) \in 1..Len(a) /\ f = Len(a) + 1 - Len(g)
    BY <1>1, <1>2, <1>5, <1>7
  <1>10. Len(g) \in Nat /\ Len(a) \in Nat /\ f \in Nat /\ 1..(Len(a) - f + 1) = 1..Len(g)
    BY <1>1, <1>2, <1>5, <1>7
  <1>11. ASSUME NEW k \in 1..Len(g)
         PROVE  g[k] = a[k + Len(a) - Len(g)]
    <2>1. f + k - 1 = k + Len(a) - Len(g)
      BY <1>9, <1>10
    <2>2. g[k] = a[f + k - 1]
      BY <1>7, <1>10
    <2> QED
      BY <2>1, <2>2
  <1>12. Len(g) \in 1..Len(g) /\ Len(g) + Len(a) - Len(g) = Len(h) + 1
    BY <1>1, <1>9, <1>10
  <1>13. g[Len(g)] = e
    BY <1>1, <1>11, <1>12
  <1>14. PICK d \in Nat : d = Len(h) + 1 - Len(g)
    BY <1>1, <1>2, <1>9, <1>10
  <1>15. ASSUME NEW k \in 1..Len(g), k # Len(g)
         PROVE  k + d \in 1..Len(h) /\ g[k] = h[k + d]
    <2>1. k + d \in 1..Len(h) /\ k + Len(a) - Len(g) = k + d
      BY <1>1, <1>2, <1>9, <1>10, <1>14, <1>15
    <2>2. g[k] = h[k + d]
      BY <1>1, <1>11, <2>1
    <2> QED
      BY <2>1, <2>2
  <1>16. Shifted(g, h, d)
    BY <1>15 DEF Shifted
  <1> QED
    BY <1>1, <1>7, <1>8, <1>13, <1>14, <1>16

(* A class with a number for a Sharpe has one.                             *)
LEMMA NumberedHaveSharpes ==
  ASSUME NEW res, \A c \in DOMAIN res : res[c] \in Outcomes, NEW c \in Numbered(res)
  PROVE  c \in DOMAIN res /\ res[c] \in {"few", "silent", "losing", "weak", "strong"} /\ Sharpe[res[c]] \in Int
  <1>1. c \in DOMAIN res /\ res[c] \in {"few", "silent", "losing", "weak", "strong"}
    BY DEF Numbered, Measured, NoRecord, Outcomes
  <1>2. \A o \in {"few", "silent", "losing", "weak", "strong"} : Sharpe[o] \in Int
    BY DEF Sharpe
  <1> QED
    BY <1>1, <1>2

(* The baseline a run saves is one.                                        *)
LEMMA BaselineType ==
  ASSUME NEW base \in Baselines, NEW n \in Night, NEW res,
         \A c \in DOMAIN res : res[c] \in Outcomes
  PROVE  Updated(base, res, n) \in Baselines
  <1> DEFINE E == [night : Night, sharpe : Int]
             U(c) == IF c \in DOMAIN res /\ c \in Numbered(res)
                     THEN Recent(Append(base[c], [night |-> n, sharpe |-> Sharpe[res[c]]]))
                     ELSE base[c]
  <1>1. \A c \in Combos : base[c] \in Seq(E)
    BY DEF Baselines
  <1>2. ASSUME NEW c \in Combos PROVE U(c) \in Seq(E)
    <2>1. CASE c \in DOMAIN res /\ c \in Numbered(res)
      <3> DEFINE e == [night |-> n, sharpe |-> Sharpe[res[c]]]
      <3>1. e \in E
        BY <2>1, NumberedHaveSharpes
      <3> HIDE DEF e, E
      <3>2. Recent(Append(base[c], e)) \in Seq(E)
        BY <1>1, <3>1, RecentNights
      <3> QED
        BY <2>1, <3>2 DEF e
    <2>2. CASE ~(c \in DOMAIN res /\ c \in Numbered(res))
      BY <1>1, <2>2
    <2> QED
      BY <2>1, <2>2
  <1> HIDE DEF U
  <1>3. [c \in Combos |-> U(c)] \in [Combos -> Seq(E)]
    BY <1>2
  <1> QED
    BY <1>3 DEF Updated, Baselines, U

(* The results, or the offers, of every night. *)
NightRecords(f) ==
  DOMAIN f = Night /\ \A n \in Night :
     DOMAIN f[n] \subseteq Combos /\ \A c \in DOMAIN f[n] : f[n][c] \in Outcomes

(* So is the one a missing state file stands for.                          *)
LEMMA EmptyBaseline == [c \in Combos |-> <<>>] \in Baselines
  BY EmptySeq DEF Baselines

(* The type invariant holds at first.                                      *)
LEMMA TypeInit == Init => TypeOK
  <1> SUFFICES ASSUME Init PROVE TypeOK
    OBVIOUS
  <1> USE DEF Init
  <1>1. nights \in 0..MaxNights /\ kills \in Nat /\ log \subseteq Night /\ disturbed \subseteq Night
    BY PipelineAssumption DEF Night
  <1>2. pc \in [Runs -> Phases] /\ own \in [Runs -> 0..MaxNights]
    BY PipelineAssumption DEF Phases
  <1>3. loaded \in [Runs -> Baselines]
    <2>1. PICK b \in Baselines : loaded = [r \in Runs |-> b]
      BY EmptyBaseline
    <2> QED
      BY <2>1
  <1>4. state \in [ok : BOOLEAN, base : Baselines]
    BY EmptyBaseline
  <1>5. disk \in [Artifacts -> Night \cup {Absent, Blank, Torn}]
    OBVIOUS
  <1>6. NightRecords(results) /\ NightRecords(market)
    BY DEF NightRecords
  <1> QED
    BY <1>1, <1>2, <1>3, <1>4, <1>5, <1>6 DEF TypeOK, NightRecords

(* Phases follow phases.                                                   *)
LEMMA NextPhaseType == ASSUME NEW a \in Artifacts PROVE NextPhase(a) \in Phases
  BY Names, NextPhases DEF Phases

(* A run at work has a night of its own. *)
LEMMA OwnNight ==
  ASSUME TypeOK, NightInv, NEW r \in Runs, pc[r] # "off"
  PROVE  own[r] \in Night /\ own[r] <= nights
  <1>1. own[r] \in 0..MaxNights /\ own[r] # 0 /\ own[r] <= nights
    BY DEF TypeOK, NightInv
  <1> QED
    BY <1>1, PipelineAssumption DEF Night

(* Every step keeps the type invariant; an active run has a night.         *)
LEMMA TypeStep == TypeOK /\ NightInv /\ [Next]_vars => TypeOK'
  <1> SUFFICES ASSUME TypeOK, NightInv, [Next]_vars PROVE TypeOK'
    BY Zenon
  <1>0. NightRecords(results) /\ NightRecords(market)
    BY DEF TypeOK, NightRecords
  <1>t. /\ nights \in 0..MaxNights /\ kills \in Nat
        /\ pc \in [Runs -> Phases] /\ own \in [Runs -> 0..MaxNights]
        /\ loaded \in [Runs -> Baselines] /\ state \in [ok : BOOLEAN, base : Baselines]
        /\ disk \in [Artifacts -> Night \cup {Absent, Blank, Torn}]
        /\ log \subseteq Night /\ disturbed \subseteq Night
    BY DEF TypeOK
  <1>q. ASSUME pc' \in [Runs -> Phases], own' \in [Runs -> 0..MaxNights],
               loaded' \in [Runs -> Baselines], state' \in [ok : BOOLEAN, base : Baselines],
               disk' \in [Artifacts -> Night \cup {Absent, Blank, Torn}],
               nights' \in 0..MaxNights, kills' \in Nat,
               log' \subseteq Night, disturbed' \subseteq Night,
               NightRecords(results)', NightRecords(market)'
        PROVE  TypeOK'
    BY <1>q DEF TypeOK, NightRecords
  <1>p. {"off", "measure", "log", "save"} \subseteq Phases /\ Artifacts \subseteq Phases
    BY DEF Phases
  <1>1. ASSUME NEW r \in Runs, NEW grid \in Grids, Begin(r, grid) PROVE TypeOK'
    <2> USE <1>1 DEF Begin
    <2>1. nights + 1 \in Night /\ nights' \in 0..MaxNights /\ nights + 1 \in 0..MaxNights
      BY <1>t, PipelineAssumption DEF Night
    <2>2. pc' \in [Runs -> Phases] /\ own' \in [Runs -> 0..MaxNights] /\ loaded' \in [Runs -> Baselines]
      BY <1>t, <1>p, <2>1
    <2>3. NightRecords(results)'
      <3>1. grid \subseteq Combos
        BY PipelineAssumption
      <3>2. PICK f \in [grid -> Outcomes] : results' = [results EXCEPT ![nights + 1] = f]
        BY DEF Outcomes
      <3> QED
        BY <1>0, <2>1, <3>1, <3>2 DEF NightRecords
    <2>4. disturbed' \subseteq Night
      <3>1. \A q \in Active : own[q] \in Night
        BY OwnNight DEF Active
      <3> QED
        BY <1>t, <2>1, <3>1
    <2> QED
      BY <1>0, <1>q, <1>t, <2>1, <2>2, <2>3, <2>4 DEF NightRecords
  <1>2. ASSUME NEW r \in Runs, Refused(r) PROVE TypeOK'
    <2>1. nights' \in 0..MaxNights
      BY <1>2, <1>t, PipelineAssumption DEF Refused
    <2> QED
      BY <1>2, <1>0, <1>q, <1>t, <2>1 DEF Refused, NightRecords
  <1>3. ASSUME NEW r \in Runs, Measure(r) PROVE TypeOK'
    <2> DEFINE n == own[r]
    <2>1. n \in Night
      BY <1>3, OwnNight DEF Measure
    <2>2. pc' \in [Runs -> Phases]
      BY <1>3, <1>t, <1>p DEF Measure
    <2>3. PICK offered \in [DOMAIN results[n] -> Outcomes] :
            market' = [market EXCEPT ![n] = offered] /\ results' = [results EXCEPT ![n] = offered]
      <3>1. PICK offered \in [DOMAIN results[n] -> Outcomes] :
              /\ market' = [market EXCEPT ![n] = offered]
              /\ results' = [results EXCEPT ![n] =
                               [c \in DOMAIN offered |-> ChildResult(c, offered[c])]]
        BY <1>3 DEF Measure
      <3>2. [c \in DOMAIN offered |-> ChildResult(c, offered[c])] = offered
        BY ChildIsFree
      <3> QED
        BY <3>1, <3>2
    <2>4. NightRecords(results)' /\ NightRecords(market)'
      BY <1>0, <2>1, <2>3 DEF NightRecords
    <2> QED
      BY <1>3, <1>q, <1>t, <2>2, <2>4 DEF Measure
  <1>4. ASSUME NEW r \in Runs, AppendLog(r) PROVE TypeOK'
    <2>1. own[r] \in Night
      BY <1>4, OwnNight DEF AppendLog
    <2>2. pc' \in [Runs -> Phases]
      BY <1>4, <1>t, <1>p, Names DEF AppendLog
    <2> QED
      BY <1>4, <1>0, <1>q, <1>t, <2>1, <2>2 DEF AppendLog, NightRecords
  <1>5. ASSUME NEW r \in Runs, NEW a \in Artifacts, WriteArtifact(r, a) PROVE TypeOK'
    <2>1. own[r] \in Night
      BY <1>5, OwnNight, Names DEF WriteArtifact
    <2>2. pc' \in [Runs -> Phases]
      BY <1>5, <1>t, NextPhaseType DEF WriteArtifact
    <2>3. disk' \in [Artifacts -> Night \cup {Absent, Blank, Torn}]
      BY <1>5, <1>t, <2>1 DEF WriteArtifact
    <2> QED
      BY <1>5, <1>0, <1>q, <1>t, <2>2, <2>3 DEF WriteArtifact, NightRecords
  <1>6. ASSUME NEW r \in Runs, SaveState(r) PROVE TypeOK'
    <2>1. own[r] \in Night
      BY <1>6, OwnNight DEF SaveState
    <2>2. pc' \in [Runs -> Phases] /\ own' \in [Runs -> 0..MaxNights] /\ loaded' \in [Runs -> Baselines]
      BY <1>6, <1>t, <1>p, EmptyBaseline, PipelineAssumption DEF SaveState
    <2>3. \A c \in DOMAIN results[own[r]] : results[own[r]][c] \in Outcomes
      BY <1>0, <2>1 DEF NightRecords
    <2>4. Updated(loaded[r], results[own[r]], own[r]) \in Baselines
      BY <1>t, <2>1, <2>3, BaselineType
    <2>5. state' \in [ok : BOOLEAN, base : Baselines]
      BY <1>6, <2>4 DEF SaveState
    <2> QED
      BY <1>6, <1>0, <1>q, <1>t, <2>2, <2>5 DEF SaveState, NightRecords
  <1>7. ASSUME NEW r \in Runs, Kill(r) PROVE TypeOK'
    <2>1. own[r] \in Night
      BY <1>7, OwnNight DEF Kill, Active
    <2>2. pc' \in [Runs -> Phases] /\ own' \in [Runs -> 0..MaxNights] /\ loaded' \in [Runs -> Baselines]
      BY <1>7, <1>t, <1>p, EmptyBaseline, PipelineAssumption DEF Kill
    <2>3. state' \in [ok : BOOLEAN, base : Baselines]
      <3>1. PICK e \in BOOLEAN, b \in Baselines : e = FALSE /\ b = [c \in Combos |-> <<>>]
        BY EmptyBaseline
      <3>2. state' = state \/ state' = [ok |-> e, base |-> b]
        BY <1>7, <3>1 DEF Kill
      <3> QED
        BY <1>t, <3>2
    <2>4. disk' \in [Artifacts -> Night \cup {Absent, Blank, Torn}]
      BY <1>7, <1>t DEF Kill
    <2>5. kills' \in Nat /\ disturbed' \subseteq Night
      BY <1>7, <1>t, <2>1 DEF Kill
    <2> QED
      BY <1>7, <1>0, <1>q, <1>t, <2>2, <2>3, <2>4, <2>5 DEF Kill, NightRecords
  <1>8. CASE UNCHANGED vars
    BY <1>8, <1>0, <1>q, <1>t DEF vars, NightRecords
  <1> QED
    BY <1>1, <1>2, <1>3, <1>4, <1>5, <1>6, <1>7, <1>8 DEF Next

(* The bookkeeping of nights holds at first.                               *)
LEMMA NightInit == Init => NightInv
  BY Names, PipelineAssumption DEF Init, NightInv, Active, Absent, Night

(* A run is past its record once it writes.                                *)
LEMMA WritingPhases ==
  ASSUME NEW a \in Artifacts
  PROVE  a \notin {"off", "measure", "log", "save"} /\ NextPhase(a) \notin {"off", "measure", "log"}
  BY Names, NextPhases

(* A new night is above every logged one.                                  *)
LEMMA NightBegin ==
  ASSUME TypeOK, NightInv, NEW r \in Runs, NEW grid \in Grids, Begin(r, grid)
  PROVE  NightInv'
  <1>1. /\ nights \in Nat /\ nights + 1 \in Night /\ nights' = nights + 1
        /\ pc'[r] = "measure" /\ own'[r] = nights + 1 /\ pc[r] = "off"
        /\ \A q \in Runs : q # r => pc'[q] = pc[q] /\ own'[q] = own[q]
        /\ \A n \in Night : n # nights + 1 => results'[n] = results[n]
        /\ disk' = disk /\ log' = log /\ market' = market /\ log \subseteq Night
        /\ disturbed \subseteq Night
    BY PipelineAssumption DEF TypeOK, Begin, Night
  <1>2. \A q \in Active : own[q] \in Night /\ own[q] <= nights /\ own[q] \in Nat
    BY OwnNight DEF Active, Night
  <1>3. \A n \in log \cup disturbed : n <= nights /\ n \in Nat
    <2>1. \A n \in log \cup disturbed : n <= nights
      BY DEF NightInv
    <2>2. \A n \in Night : n \in Nat
      BY PipelineAssumption DEF Night
    <2> QED
      BY <1>1, <2>1, <2>2
  <1>4. disturbed \subseteq disturbed' /\ disturbed' \subseteq disturbed \cup {nights + 1} \cup {own[q] : q \in Active}
        /\ (Active # {} => {nights + 1} \cup {own[q] : q \in Active} \subseteq disturbed')
    BY DEF Begin
  <1>5. Active' = Active \cup {r} /\ r \notin Active
    BY <1>1 DEF Active
  <1>n. \A q \in Runs : own[q] \in Nat
    BY DEF TypeOK
  <1>6. \A q \in Runs : own'[q] <= nights' /\ (own'[q] = 0 <=> pc'[q] = "off")
    <2>1. \A q \in Runs : own[q] <= nights /\ (own[q] = 0 <=> pc[q] = "off")
      BY DEF NightInv
    <2> QED
      BY <2>1, <1>1, <1>n
  <1>7. /\ \A q \in Runs : pc'[q] \in {"measure", "log"} => own'[q] \notin log'
        /\ \A q \in Runs : pc'[q] \notin {"off", "measure", "log"} => own'[q] \in log'
    BY <1>1, <1>3 DEF NightInv
  <1>8. \A p, q \in Active' : p # q => own'[p] # own'[q] /\ own'[p] \in disturbed'
    <2>1. \A q \in Active : own'[q] = own[q] /\ own[q] # nights + 1 /\ own[q] \in disturbed'
      BY <1>1, <1>2, <1>4, <1>5 DEF Active
    <2>2. \A p, q \in Active : p # q => own[p] # own[q]
      BY DEF NightInv
    <2> QED
      BY <1>1, <1>4, <1>5, <2>1, <2>2
  <1>9. \A n \in log' \cup disturbed' : n <= nights'
    BY <1>1, <1>2, <1>3, <1>4
  <1>10. /\ \A a \in Artifacts : disk'[a] \in Night => disk'[a] \in log'
         /\ \A n \in log' : results'[n] = market'[n]
    BY <1>1, <1>3 DEF NightInv
  <1>11. \A q \in Runs : pc'[q] = "log" => results'[own'[q]] = market'[own'[q]]
    <2> SUFFICES ASSUME NEW q \in Runs, pc'[q] = "log" PROVE results'[own'[q]] = market'[own'[q]]
      OBVIOUS
    <2>1. q # r /\ pc[q] = "log" /\ own'[q] = own[q] /\ q \in Active
      BY <1>1 DEF Active
    <2>2. own[q] \in Night /\ own[q] # nights + 1 /\ results[own[q]] = market[own[q]]
      BY <1>1, <1>2, <2>1 DEF NightInv
    <2> QED
      BY <1>1, <2>1, <2>2
  <1> QED
    BY <1>6, <1>7, <1>8, <1>9, <1>10, <1>11 DEF NightInv

(* Measuring changes the records of a night that is not logged yet.        *)
LEMMA NightMeasure ==
  ASSUME TypeOK, NightInv, NEW r \in Runs, Measure(r)
  PROVE  NightInv'
  <1>1. /\ pc[r] = "measure" /\ pc'[r] = "log" /\ own' = own /\ nights' = nights
        /\ \A q \in Runs : q # r => pc'[q] = pc[q]
        /\ disk' = disk /\ log' = log /\ disturbed' = disturbed /\ log \subseteq Night
    BY DEF TypeOK, Measure
  <1>2. own[r] \in Night /\ own[r] \notin log
    BY <1>1, OwnNight DEF NightInv
  <1>3. /\ \A m \in Night : m # own[r] => results'[m] = results[m] /\ market'[m] = market[m]
        /\ results'[own[r]] = market'[own[r]]
    BY <1>2, RecordsAreOffers
  <1>4. Active' = Active /\ r \in Active
    BY <1>1 DEF Active
  <1>5. \A n \in log' : results'[n] = market'[n]
    BY <1>1, <1>2, <1>3 DEF NightInv
  <1>6. \A q \in Runs : pc'[q] = "log" => results'[own'[q]] = market'[own'[q]]
    <2> SUFFICES ASSUME NEW q \in Runs, q # r, pc[q] = "log" PROVE results'[own[q]] = market'[own[q]]
      BY <1>1, <1>3
    <2>1. own[q] \in Night /\ own[q] # own[r] /\ results[own[q]] = market[own[q]]
      BY <1>4, OwnNight DEF NightInv, Active
    <2> QED
      BY <1>3, <2>1
  <1>7. /\ \A q \in Runs : own'[q] <= nights' /\ (own'[q] = 0 <=> pc'[q] = "off")
        /\ \A q \in Runs : pc'[q] \in {"measure", "log"} => own'[q] \notin log'
        /\ \A q \in Runs : pc'[q] \notin {"off", "measure", "log"} => own'[q] \in log'
    BY <1>1 DEF NightInv
  <1> QED
    BY <1>1, <1>4, <1>5, <1>6, <1>7 DEF NightInv

(* A night is logged with the records it offered.                          *)
LEMMA NightAppend ==
  ASSUME TypeOK, NightInv, NEW r \in Runs, AppendLog(r)
  PROVE  NightInv'
  <1>1. /\ pc[r] = "log" /\ pc'[r] = "thresholds" /\ own' = own /\ nights' = nights
        /\ \A q \in Runs : q # r => pc'[q] = pc[q]
        /\ disk' = disk /\ log' = log \cup {own[r]} /\ disturbed' = disturbed /\ log \subseteq Night
        /\ results' = results /\ market' = market
    BY Names DEF TypeOK, AppendLog
  <1>2. own[r] \in Night /\ own[r] <= nights /\ results[own[r]] = market[own[r]]
    BY <1>1, OwnNight DEF NightInv
  <1>3. Active' = Active /\ r \in Active
    BY <1>1 DEF Active
  <1>4. \A q \in Active : q # r => own[q] # own[r]
    BY <1>3 DEF NightInv
  <1>5. \A q \in Runs : pc'[q] \in {"measure", "log"} => own'[q] \notin log'
    <2> SUFFICES ASSUME NEW q \in Runs, q # r, pc[q] \in {"measure", "log"} PROVE own[q] \notin log \cup {own[r]}
      BY <1>1
    <2> QED
      BY <1>4 DEF NightInv, Active
  <1>6. /\ \A q \in Runs : own'[q] <= nights' /\ (own'[q] = 0 <=> pc'[q] = "off")
        /\ \A q \in Runs : pc'[q] \notin {"off", "measure", "log"} => own'[q] \in log'
        /\ \A q \in Runs : pc'[q] = "log" => results'[own'[q]] = market'[own'[q]]
    BY <1>1 DEF NightInv
  <1>7. /\ \A n \in log' \cup disturbed' : n <= nights'
        /\ \A a \in Artifacts : disk'[a] \in Night => disk'[a] \in log'
        /\ \A n \in log' : results'[n] = market'[n]
    BY <1>1, <1>2 DEF NightInv
  <1> QED
    BY <1>1, <1>3, <1>5, <1>6, <1>7 DEF NightInv

(* A run writes the night it has logged.                                   *)
LEMMA NightWrite ==
  ASSUME TypeOK, NightInv, NEW r \in Runs, NEW a \in Artifacts, WriteArtifact(r, a)
  PROVE  NightInv'
  <1>1. /\ pc[r] = a /\ pc'[r] = NextPhase(a) /\ own' = own /\ nights' = nights
        /\ \A q \in Runs : q # r => pc'[q] = pc[q]
        /\ log' = log /\ disturbed' = disturbed
        /\ results' = results /\ market' = market
        /\ \A b \in Artifacts : disk'[b] = disk[b] \/ disk'[b] = own[r]
    BY DEF TypeOK, WriteArtifact
  <1>2. a \notin {"off", "measure", "log"} /\ NextPhase(a) \notin {"off", "measure", "log"}
    BY WritingPhases
  <1>3. own[r] \in log
    BY <1>1, <1>2 DEF NightInv
  <1>4. Active' = Active
    BY <1>1, <1>2 DEF Active
  <1>5. /\ \A q \in Runs : own'[q] <= nights' /\ (own'[q] = 0 <=> pc'[q] = "off")
        /\ \A q \in Runs : pc'[q] \in {"measure", "log"} => own'[q] \notin log'
        /\ \A q \in Runs : pc'[q] \notin {"off", "measure", "log"} => own'[q] \in log'
        /\ \A q \in Runs : pc'[q] = "log" => results'[own'[q]] = market'[own'[q]]
    BY <1>1, <1>2, <1>3 DEF NightInv
  <1>6. \A b \in Artifacts : disk'[b] \in Night => disk'[b] \in log'
    BY <1>1, <1>3 DEF NightInv
  <1> QED
    BY <1>1, <1>4, <1>5, <1>6 DEF NightInv

(* A run ends, by itself or killed: what it leaves on disk is no night that was not logged. *)
LEMMA NightEnd ==
  ASSUME TypeOK, NightInv, NEW r \in Runs, pc[r] # "off",
         pc' = [pc EXCEPT ![r] = "off"], own' = [own EXCEPT ![r] = 0],
         \A b \in Artifacts : disk'[b] = disk[b] \/ disk'[b] \notin Night,
         disturbed \subseteq disturbed', disturbed' \subseteq disturbed \cup {own[r]},
         nights' = nights, log' = log, results' = results, market' = market
  PROVE  NightInv'
  <1>1. /\ pc'[r] = "off" /\ own'[r] = 0 /\ \A q \in Runs : q # r => pc'[q] = pc[q] /\ own'[q] = own[q]
    BY DEF TypeOK
  <1>2. Active' = Active \ {r}
    BY <1>1 DEF Active
  <1>3. nights \in Nat /\ own[r] <= nights
    BY OwnNight DEF TypeOK
  <1>4. \A p, q \in Active' : p # q => own'[p] # own'[q] /\ own'[p] \in disturbed'
    <2>1. \A p \in Active' : own'[p] = own[p] /\ p \in Active
      BY <1>1, <1>2 DEF Active
    <2> QED
      BY <2>1 DEF NightInv
  <1>5. \A n \in log' \cup disturbed' : n <= nights'
    BY <1>3 DEF NightInv
  <1>6. /\ \A q \in Runs : own'[q] <= nights' /\ (own'[q] = 0 <=> pc'[q] = "off")
        /\ \A q \in Runs : pc'[q] \in {"measure", "log"} => own'[q] \notin log'
        /\ \A q \in Runs : pc'[q] \notin {"off", "measure", "log"} => own'[q] \in log'
        /\ \A q \in Runs : pc'[q] = "log" => results'[own'[q]] = market'[own'[q]]
    BY <1>1, <1>3 DEF NightInv
  <1>7. /\ \A b \in Artifacts : disk'[b] \in Night => disk'[b] \in log'
        /\ \A n \in log' : results'[n] = market'[n]
    BY DEF NightInv
  <1> QED
    BY <1>4, <1>5, <1>6, <1>7 DEF NightInv

(* Every step keeps the bookkeeping of nights.                             *)
LEMMA NightStep == TypeOK /\ NightInv /\ [Next]_vars => NightInv'
  <1> SUFFICES ASSUME TypeOK, NightInv, [Next]_vars PROVE NightInv'
    BY Zenon
  <1>1. ASSUME NEW r \in Runs, Refused(r) PROVE NightInv'
    <2>1. nights \in Nat /\ nights' = nights + 1
      BY <1>1 DEF Refused, TypeOK
    <2>2. \A q \in Runs : own[q] \in Nat
      BY DEF TypeOK
    <2>3. \A n \in log \cup disturbed : n \in Nat
      BY DEF TypeOK, Night
    <2>4. \A q \in Runs : own[q] <= nights' /\ (own[q] = 0 <=> pc[q] = "off")
      BY <2>1, <2>2 DEF NightInv
    <2>5. \A n \in log \cup disturbed : n <= nights'
      BY <2>1, <2>3 DEF NightInv
    <2> QED
      BY <1>1, <2>4, <2>5 DEF NightInv, Refused, Active
  <1>2. ASSUME NEW r \in Runs, SaveState(r) PROVE NightInv'
    BY <1>2, NightEnd DEF SaveState
  <1>3. ASSUME NEW r \in Runs, Kill(r) PROVE NightInv'
    <2>1. \A b \in Artifacts : disk'[b] = disk[b] \/ disk'[b] \notin Night
      BY <1>3, PipelineAssumption DEF Kill, TypeOK, Blank, Torn, Night
    <2> QED
      BY <1>3, <2>1, NightEnd DEF Kill, Active
  <1>4. CASE UNCHANGED vars
    BY <1>4 DEF vars, NightInv, Active
  <1> QED
    BY <1>1, <1>2, <1>3, <1>4, NightBegin, NightMeasure, NightAppend, NightWrite DEF Next

(* A night that measured nothing has an empty table and an empty skip list. *)
LEMMA Emptiness ==
  ASSUME NEW res
  PROVE  /\ Empty("thresholds", res) <=> Measured(res) = {}
         /\ Empty("skip", res) <=> Numbered(res) = {}
         /\ Measured(res) = {} => Numbered(res) = {}
  BY DEF Empty, Numbered

(* Only one run is at work in an undisturbed night.                        *)
LEMMA Alone ==
  ASSUME NightInv, NEW r \in Active, own[r] \notin disturbed, NEW q \in Active
  PROVE  q = r
  BY DEF NightInv

(* There is no table at first.                                             *)
LEMMA TableInit == Init => TableInv
  BY PipelineAssumption, Names DEF Init, TableInv, Absent, Night

(* A step that touches neither file and takes no run past its table.       *)
LEMMA TableUntouched ==
  ASSUME TypeOK, NightInv, TableInv,
         disk'["thresholds"] = disk["thresholds"], disk'["skip"] = disk["skip"],
         disturbed \subseteq disturbed',
         \A n \in log : results'[n] = results[n],
         \A r \in Runs : pc'[r] \in AfterTable =>
            pc[r] \in AfterTable /\ own'[r] = own[r] /\ results'[own[r]] = results[own[r]],
         \A r \in Runs : pc[r] \in AfterTable \ AfterSkip /\ own[r] \notin disturbed' =>
            pc'[r] \in AfterTable \ AfterSkip /\ own'[r] = own[r]
  PROVE  TableInv'
  <1> SUFFICES ASSUME NEW n, n = disk["thresholds"], n \in Night \ disturbed'
      PROVE  \/ \E r \in Runs : own'[r] = n /\ pc'[r] \in AfterTable \ AfterSkip
             \/ /\ disk["skip"] \notin {Absent, Blank}
                /\ disk["skip"] = n \/ Numbered(results'[n]) = {}
                /\ \A r \in Runs : own'[r] # n /\ pc'[r] \in AfterTable => Measured(results'[own'[r]]) = {}
    BY DEF TableInv
  <1>1. n \in log /\ results'[n] = results[n]
    BY Names DEF NightInv
  <1>2. \/ \E r \in Runs : own[r] = n /\ pc[r] \in AfterTable \ AfterSkip
        \/ /\ disk["skip"] \notin {Absent, Blank}
           /\ disk["skip"] = n \/ Numbered(results[n]) = {}
           /\ \A r \in Runs : own[r] # n /\ pc[r] \in AfterTable => Measured(results[own[r]]) = {}
    BY DEF TableInv
  <1>3. CASE \E r \in Runs : own[r] = n /\ pc[r] \in AfterTable \ AfterSkip
    BY <1>3
  <1>4. CASE /\ disk["skip"] \notin {Absent, Blank}
             /\ disk["skip"] = n \/ Numbered(results[n]) = {}
             /\ \A r \in Runs : own[r] # n /\ pc[r] \in AfterTable => Measured(results[own[r]]) = {}
    BY <1>1, <1>4
  <1> QED
    BY <1>2, <1>3, <1>4

(* Writing: a later run that keeps the table finds its skip list empty too. *)
LEMMA TableWrite ==
  ASSUME TypeOK, NightInv, TableInv, NEW r \in Runs, NEW a \in Artifacts, WriteArtifact(r, a)
  PROVE  TableInv'
  <1>1. /\ pc[r] = a /\ pc'[r] = NextPhase(a) /\ own' = own
        /\ \A q \in Runs : q # r => pc'[q] = pc[q]
        /\ log' = log /\ disturbed' = disturbed /\ results' = results
    BY DEF TypeOK, WriteArtifact
  <1>2. r \in Active /\ own[r] \in Night /\ \A b \in Artifacts : b # a => disk'[b] = disk[b]
    BY <1>1, OwnNight, WritingPhases DEF WriteArtifact, TypeOK, Active
  <1>3. (KeepsPrevious(a, results[own[r]]) /\ disk' = disk) \/ disk'[a] = own[r]
    BY DEF WriteArtifact, TypeOK
  <1>4. \A q \in Runs : pc[q] \in AfterTable => q \in Active
    BY DEF AfterTable, Active
  <1>5. CASE a = "thresholds"
    <2>1. pc'[r] = "matrix" /\ disk'["skip"] = disk["skip"]
      BY <1>1, <1>2, <1>5, Names, NextPhases
    <2>2. CASE disk'[a] = own[r]
      BY <1>1, <1>5, <2>1, <2>2 DEF TableInv, AfterTable, AfterSkip
    <2>3. CASE KeepsPrevious(a, results[own[r]]) /\ disk' = disk
      <3>1. Measured(results[own[r]]) = {}
        BY <1>5, <2>3, Emptiness DEF KeepsPrevious
      <3> SUFFICES ASSUME NEW n, n = disk["thresholds"], n \in Night \ disturbed
          PROVE  /\ disk["skip"] \notin {Absent, Blank}
                 /\ disk["skip"] = n \/ Numbered(results[n]) = {}
                 /\ \A q \in Runs : own[q] # n /\ pc'[q] \in AfterTable => Measured(results[own[q]]) = {}
        BY <1>1, <2>3 DEF TableInv
      <3>2. ~ \E q \in Runs : own[q] = n /\ pc[q] \in AfterTable \ AfterSkip
        <4> SUFFICES ASSUME NEW q \in Runs, own[q] = n, pc[q] \in AfterTable PROVE FALSE
          OBVIOUS
        <4>1. q = r
          BY <1>2, <1>4, Alone
        <4> QED
          BY <1>1, <1>5, <4>1 DEF AfterTable
      <3>3. /\ disk["skip"] \notin {Absent, Blank}
            /\ disk["skip"] = n \/ Numbered(results[n]) = {}
            /\ \A q \in Runs : own[q] # n /\ pc[q] \in AfterTable => Measured(results[own[q]]) = {}
        BY <3>2 DEF TableInv
      <3> QED
        BY <1>1, <3>1, <3>3
    <2> QED
      BY <1>3, <2>2, <2>3
  <1>6. CASE a = "skip"
    <2>1. pc'[r] = "hold" /\ disk'["thresholds"] = disk["thresholds"]
      BY <1>1, <1>2, <1>6, Names, NextPhases
    <2> SUFFICES ASSUME NEW n, n = disk["thresholds"], n \in Night \ disturbed
        PROVE  /\ disk'["skip"] \notin {Absent, Blank}
               /\ disk'["skip"] = n \/ Numbered(results[n]) = {}
               /\ \A q \in Runs : own[q] # n /\ pc'[q] \in AfterTable => Measured(results[own[q]]) = {}
      BY <1>1, <2>1 DEF TableInv
    <2>2. \A m \in Night : m \notin {Absent, Blank}
      BY PipelineAssumption DEF Night, Absent, Blank
    <2>3. CASE own[r] = n
      <3>1. \A q \in Runs : pc[q] \in AfterTable => q = r
        BY <1>2, <1>4, <2>3, Alone
      <3>2. \A q \in Runs : own[q] # n /\ pc'[q] \in AfterTable => Measured(results[own[q]]) = {}
        BY <1>1, <2>3, <3>1
      <3>3. CASE disk'[a] = own[r]
        BY <1>6, <2>2, <2>3, <3>2, <3>3
      <3>4. CASE KeepsPrevious(a, results[own[r]]) /\ disk' = disk
        BY <1>6, <2>3, <3>2, <3>4, Emptiness DEF KeepsPrevious
      <3> QED
        BY <1>3, <3>3, <3>4
    <2>4. CASE own[r] # n
      <3>1. ~ \E q \in Runs : own[q] = n /\ pc[q] \in AfterTable \ AfterSkip
        BY <1>2, <1>4, <2>4, Alone
      <3>2. /\ disk["skip"] \notin {Absent, Blank}
            /\ disk["skip"] = n \/ Numbered(results[n]) = {}
            /\ \A q \in Runs : own[q] # n /\ pc[q] \in AfterTable => Measured(results[own[q]]) = {}
        BY <3>1 DEF TableInv
      <3>3. Measured(results[own[r]]) = {}
        BY <1>1, <1>6, <2>4, <3>2 DEF AfterTable
      <3>4. KeepsPrevious(a, results[own[r]])
        BY <1>6, <3>2, <3>3, Emptiness DEF KeepsPrevious
      <3>5. disk' = disk
        BY <3>4 DEF WriteArtifact
      <3> QED
        BY <1>1, <3>2, <3>3, <3>5
    <2> QED
      BY <2>3, <2>4
  <1>7. CASE a \notin {"thresholds", "skip"}
    <2>1. disk'["thresholds"] = disk["thresholds"] /\ disk'["skip"] = disk["skip"]
      BY <1>2, <1>7, Names
    <2>2. a \in AfterTable /\ (a \in AfterTable \ AfterSkip => NextPhase(a) \in AfterTable \ AfterSkip)
      BY <1>7, Names, NextPhases DEF AfterTable, AfterSkip
    <2> QED
      BY <1>1, <2>1, <2>2, TableUntouched
  <1> QED
    BY <1>5, <1>6, <1>7

(* A kill can only cut the file of the night it disturbs.                  *)
LEMMA TableKill ==
  ASSUME TypeOK, NightInv, TableInv, NEW r \in Runs, Kill(r)
  PROVE  TableInv'
  <1>1. /\ r \in Active /\ pc[r] # "off" /\ pc'[r] = "off" /\ own'[r] = 0
        /\ \A q \in Runs : q # r => pc'[q] = pc[q] /\ own'[q] = own[q]
        /\ disturbed' = disturbed \cup {own[r]} /\ results' = results
    BY DEF TypeOK, Kill, Active
  <1>4. \A q \in Runs : pc[q] \in AfterTable => q \in Active
    BY DEF AfterTable, Active
  <1>u. CASE disk'["thresholds"] = disk["thresholds"] /\ disk'["skip"] = disk["skip"]
    <2>1. \A q \in Runs : pc'[q] \in AfterTable =>
            pc[q] \in AfterTable /\ own'[q] = own[q] /\ results'[own[q]] = results[own[q]]
      BY <1>1 DEF AfterTable
    <2>2. \A q \in Runs : pc[q] \in AfterTable \ AfterSkip /\ own[q] \notin disturbed' =>
            pc'[q] \in AfterTable \ AfterSkip /\ own'[q] = own[q]
      BY <1>1
    <2> QED
      BY <1>u, <1>1, <2>1, <2>2, TableUntouched
  <1>t. CASE disk'["thresholds"] # disk["thresholds"]
    <2>1. disk'["thresholds"] \in {Blank, Torn}
      BY <1>t, Names DEF Kill, TypeOK
    <2>2. disk'["thresholds"] \notin Night
      BY <2>1, PipelineAssumption DEF Blank, Torn, Night
    <2> QED
      BY <2>2 DEF TableInv
  <1>s. CASE disk'["thresholds"] = disk["thresholds"] /\ disk'["skip"] # disk["skip"]
    <2>1. pc[r] = "skip" /\ ~KeepsPrevious("skip", results[own[r]])
      BY <1>s, Names DEF Kill, TypeOK
    <2> SUFFICES ASSUME NEW n, n = disk["thresholds"], n \in Night \ disturbed' PROVE FALSE
      BY <1>s DEF TableInv
    <2>2. own[r] # n
      BY <1>1
    <2>3. ~ \E q \in Runs : own[q] = n /\ pc[q] \in AfterTable \ AfterSkip
      BY <1>1, <1>4, <2>2, Alone
    <2>4. disk["skip"] \notin {Absent, Blank} /\ Measured(results[own[r]]) = {}
      BY <1>1, <2>1, <2>2, <2>3 DEF TableInv, AfterTable
    <2> QED
      BY <2>1, <2>4, Emptiness DEF KeepsPrevious
  <1> QED
    BY <1>u, <1>t, <1>s

(* Every step keeps the two files in step.                                 *)
LEMMA TableStep == TypeOK /\ NightInv /\ TableInv /\ [Next]_vars => TableInv'
  <1> SUFFICES ASSUME TypeOK, NightInv, TableInv, [Next]_vars PROVE TableInv'
    BY Zenon
  <1>0. \A q \in Runs : pc[q] \in AfterTable => q \in Active
    BY DEF AfterTable, Active
  <1>1. ASSUME NEW r \in Runs, NEW grid \in Grids, Begin(r, grid) PROVE TableInv'
    <2>1. /\ nights \in Nat /\ nights + 1 \in Night
          /\ pc'[r] = "measure" /\ pc[r] = "off"
          /\ \A q \in Runs : q # r => pc'[q] = pc[q] /\ own'[q] = own[q]
          /\ \A n \in Night : n # nights + 1 => results'[n] = results[n]
          /\ disk' = disk /\ log \subseteq Night
      BY <1>1, PipelineAssumption DEF TypeOK, Begin, Night
    <2>2. \A n \in log : n <= nights
      BY DEF NightInv
    <2>3. \A n \in Night : n \in Nat
      BY PipelineAssumption DEF Night
    <2>4. \A n \in log : results'[n] = results[n]
      BY <2>1, <2>2, <2>3
    <2>5. disturbed \subseteq disturbed' /\ \A q \in Active : own[q] \in disturbed'
      BY <1>1 DEF Begin
    <2>6. \A q \in Runs : pc[q] \in AfterTable => own[q] \in Night /\ own[q] <= nights
      BY OwnNight DEF AfterTable
    <2>7. \A q \in Runs : pc'[q] \in AfterTable =>
            pc[q] \in AfterTable /\ own'[q] = own[q] /\ results'[own[q]] = results[own[q]]
      <3> SUFFICES ASSUME NEW q \in Runs, pc'[q] \in AfterTable
          PROVE  pc[q] \in AfterTable /\ own'[q] = own[q] /\ results'[own[q]] = results[own[q]]
        OBVIOUS
      <3>1. q # r
        BY <2>1 DEF AfterTable
      <3> QED
        BY <2>1, <2>3, <2>6, <3>1
    <2> QED
      BY <1>0, <2>1, <2>4, <2>5, <2>7, TableUntouched
  <1>2. ASSUME NEW r \in Runs, Refused(r) PROVE TableInv'
    BY <1>2, TableUntouched DEF Refused
  <1>3. ASSUME NEW r \in Runs, Measure(r) PROVE TableInv'
    <2>1. /\ pc[r] = "measure" /\ pc'[r] = "log" /\ own' = own
          /\ \A q \in Runs : q # r => pc'[q] = pc[q]
          /\ disk' = disk /\ disturbed' = disturbed /\ log \subseteq Night
      BY <1>3 DEF TypeOK, Measure
    <2>2. own[r] \in Night /\ own[r] \notin log /\ r \in Active
      BY <2>1, OwnNight DEF NightInv, Active
    <2>3. \A m \in Night : m # own[r] => results'[m] = results[m]
      BY <1>3, <2>2, RecordsAreOffers
    <2>4. \A n \in log : results'[n] = results[n]
      BY <2>1, <2>2, <2>3
    <2>5. \A q \in Runs : pc[q] \in AfterTable => own[q] \in log
      BY DEF NightInv, AfterTable
    <2>6. pc[r] \notin AfterTable /\ pc'[r] \notin AfterTable
      BY <2>1 DEF AfterTable
    <2>7. \A q \in Runs : pc'[q] \in AfterTable =>
            pc[q] \in AfterTable /\ own'[q] = own[q] /\ results'[own[q]] = results[own[q]]
      BY <2>1, <2>4, <2>5, <2>6
    <2>8. \A q \in Runs : pc[q] \in AfterTable \ AfterSkip /\ own[q] \notin disturbed' =>
            pc'[q] \in AfterTable \ AfterSkip /\ own'[q] = own[q]
      BY <2>1, <2>6
    <2> QED
      BY <2>1, <2>4, <2>7, <2>8, TableUntouched
  <1>4. ASSUME NEW r \in Runs, AppendLog(r) PROVE TableInv'
    <2>1. /\ pc[r] = "log" /\ pc'[r] = "thresholds" /\ own' = own
          /\ \A q \in Runs : q # r => pc'[q] = pc[q]
          /\ disk' = disk /\ disturbed' = disturbed /\ results' = results
      BY <1>4, Names DEF TypeOK, AppendLog
    <2>2. pc[r] \notin AfterTable /\ pc'[r] \notin AfterTable
      BY <2>1 DEF AfterTable
    <2> QED
      BY <2>1, <2>2, TableUntouched
  <1>5. ASSUME NEW r \in Runs, SaveState(r) PROVE TableInv'
    <2>1. /\ pc[r] = "save" /\ pc'[r] = "off"
          /\ \A q \in Runs : q # r => pc'[q] = pc[q] /\ own'[q] = own[q]
          /\ disk' = disk /\ disturbed' = disturbed /\ results' = results
      BY <1>5 DEF TypeOK, SaveState
    <2>2. pc[r] \notin AfterTable \ AfterSkip /\ pc'[r] \notin AfterTable
      BY <2>1 DEF AfterTable, AfterSkip
    <2> QED
      BY <2>1, <2>2, TableUntouched
  <1>6. CASE UNCHANGED vars
    BY <1>6, TableUntouched DEF vars
  <1> QED
    BY <1>1, <1>2, <1>3, <1>4, <1>5, <1>6, TableWrite, TableKill DEF Next

(* The nights no run works on any more. *)
Finished == log \ {own[r] : r \in Runs}

(* One pair's history, measured against the finished nights. *)
Accounted(h, c, fin, res, dist) ==
  LET has == {h[k].night : k \in DOMAIN h}
      numbered == {n \in fin : c \in DOMAIN res[n] /\ c \in Numbered(res[n])}
  IN /\ \A j, k \in DOMAIN h : j < k => h[j].night < h[k].night
     /\ has \subseteq numbered
     /\ \A k \in DOMAIN h : h[k].sharpe = Sharpe[res[h[k].night][c]]
     /\ \A n \in numbered \ (has \cup dist) : Len(h) = Window /\ \A m \in has : m > n

(* What the inductive invariant says of one baseline. *)
Sound(base, fin, res, dist) == \A c \in Combos : Accounted(base[c], c, fin, res, dist)

(* The baseline invariant, in these terms, before and after a step.        *)
LEMMA BaseIs ==
  BaseInv <=>
    /\ state.ok => Sound(state.base, Finished, results, disturbed)
    /\ \A r \in Active :
         /\ Sound(loaded[r], Finished, results, disturbed)
         /\ \A c \in Combos : \A k \in DOMAIN loaded[r][c] : loaded[r][c][k].night < own[r]
  BY DEF BaseInv, Accounts, Sound, Accounted, Finished

(* The same of the next state.                                             *)
LEMMA BaseIsPrime ==
  BaseInv' <=>
    /\ state'.ok => Sound(state'.base, Finished', results', disturbed')
    /\ \A r \in Active' :
         /\ Sound(loaded'[r], Finished', results', disturbed')
         /\ \A c \in Combos : \A k \in DOMAIN loaded'[r][c] : loaded'[r][c][k].night < own'[r]
  BY DEF BaseInv, Accounts, Sound, Accounted, Finished

(* A history stays accounted for while the nights that finish were         *)
(* disturbed or did not measure its pair.                                  *)
LEMMA StaysAccounted ==
  ASSUME NEW h, NEW c, NEW fin, NEW res, NEW dist, NEW fin2, NEW res2, NEW dist2,
         Accounted(h, c, fin, res, dist),
         fin \subseteq fin2, dist \subseteq dist2,
         \A n \in fin : res2[n] = res[n],
         \A n \in fin2 \ fin : n \in dist2 \/ ~(c \in DOMAIN res2[n] /\ c \in Numbered(res2[n]))
  PROVE  Accounted(h, c, fin2, res2, dist2)
  <1> DEFINE has == {h[k].night : k \in DOMAIN h}
             numbered == {n \in fin : c \in DOMAIN res[n] /\ c \in Numbered(res[n])}
             numbered2 == {n \in fin2 : c \in DOMAIN res2[n] /\ c \in Numbered(res2[n])}
  <1>1. /\ \A j, k \in DOMAIN h : j < k => h[j].night < h[k].night
        /\ has \subseteq numbered
        /\ \A k \in DOMAIN h : h[k].sharpe = Sharpe[res[h[k].night][c]]
        /\ \A n \in numbered \ (has \cup dist) : Len(h) = Window /\ \A m \in has : m > n
    BY DEF Accounted
  <1>2. numbered \subseteq numbered2
    OBVIOUS
  <1>3. numbered2 \ dist2 \subseteq numbered \ dist
    OBVIOUS
  <1>4. \A k \in DOMAIN h : h[k].sharpe = Sharpe[res2[h[k].night][c]]
    <2>1. \A k \in DOMAIN h : h[k].night \in fin
      BY <1>1
    <2> QED
      BY <1>1, <2>1
  <1>5. \A n \in numbered2 \ (has \cup dist2) : Len(h) = Window /\ \A m \in has : m > n
    BY <1>1, <1>3
  <1>6. has \subseteq numbered2
    BY <1>1, <1>2
  <1> QED
    BY <1>1, <1>4, <1>5, <1>6 DEF Accounted

(* The baseline a run saves accounts for the night of that run.            *)
LEMMA GrowsAccounted ==
  ASSUME NEW E, \A x \in E : x.night \in Night,
         NEW h \in Seq(E), NEW c, NEW fin, NEW res, NEW dist, NEW n \in Night, NEW e \in E,
         e.night = n, e.sharpe = Sharpe[res[n][c]],
         Accounted(h, c, fin, res, dist), \A k \in DOMAIN h : h[k].night < n,
         c \in DOMAIN res[n], c \in Numbered(res[n]), fin \subseteq Night,
         NEW g, g = Recent(Append(h, e))
  PROVE  Accounted(g, c, fin \cup {n}, res, dist)
  <1> DEFINE has == {h[k].night : k \in DOMAIN h}
             has2 == {g[k].night : k \in DOMAIN g}
             numbered == {m \in fin : c \in DOMAIN res[m] /\ c \in Numbered(res[m])}
             numbered2 == {m \in fin \cup {n} : c \in DOMAIN res[m] /\ c \in Numbered(res[m])}
  <1>1. /\ \A j, k \in DOMAIN h : j < k => h[j].night < h[k].night
        /\ has \subseteq numbered
        /\ \A k \in DOMAIN h : h[k].sharpe = Sharpe[res[h[k].night][c]]
        /\ \A m \in numbered \ (has \cup dist) : Len(h) = Window /\ \A x \in has : x > m
    BY DEF Accounted
  <1>2. /\ g \in Seq(E) /\ g[Len(g)] = e
        /\ Len(g) = IF Len(h) + 1 > Window THEN Window ELSE Len(h) + 1
        /\ Len(h) + 1 - Len(g) \in Nat /\ Shifted(g, h, Len(h) + 1 - Len(g))
    <2>1. g \in Seq(E) /\ g[Len(g)] = e
      BY RecentNights
    <2>2. Len(g) = IF Len(h) + 1 > Window THEN Window ELSE Len(h) + 1
      BY RecentNights
    <2>3. Len(h) + 1 - Len(g) \in Nat /\ Shifted(g, h, Len(h) + 1 - Len(g))
      BY RecentNights
    <2> QED
      BY <2>1, <2>2, <2>3
  <1>3. /\ DOMAIN h = 1..Len(h) /\ DOMAIN g = 1..Len(g) /\ Len(h) \in Nat /\ Len(g) \in Nat \ {0}
        /\ Window \in Nat \ {0} /\ Len(g) <= Len(h) + 1
    <2>1. Len(h) \in Nat /\ Window \in Nat \ {0} /\ DOMAIN h = 1..Len(h) /\ DOMAIN g = 1..Len(g)
      BY <1>2, PipelineAssumption
    <2> QED
      BY <1>2, <2>1
  <1>r. (\A k \in DOMAIN h : h[k] \in E) /\ (\A k \in DOMAIN g : g[k] \in E)
    BY <1>2, <1>3
  <1>d. PICK d \in Nat : d = Len(h) + 1 - Len(g) /\ Shifted(g, h, d)
    BY <1>2
  <1>o. \A k \in DOMAIN g : k # Len(g) => k + d \in DOMAIN h /\ g[k] = h[k + d]
    BY <1>3, <1>d DEF Shifted
  <1>w. d > 0 => Len(g) = Window
    <2>1. Len(g) # Len(h) + 1 => Len(g) = Window
      BY <1>2
    <2>2. ASSUME d > 0, Len(g) = Len(h) + 1 PROVE FALSE
      <3>1. Len(h) \in Nat /\ d = Len(h) + 1 - (Len(h) + 1)
        BY <1>3, <1>d, <2>2
      <3>2. d = 0
        BY <3>1
      <3> QED
        BY <2>2, <3>2
    <2> QED
      BY <2>1, <2>2
  <1>4. /\ \A m \in Night : m \in Int
        /\ \A k \in DOMAIN h : h[k].night \in Night
        /\ \A k \in DOMAIN g : g[k].night \in Night
    BY <1>r, PipelineAssumption DEF Night
  <1>5. \A j, k \in DOMAIN g : j < k => g[j].night < g[k].night
    <2> SUFFICES ASSUME NEW j \in DOMAIN g, NEW k \in DOMAIN g, j < k PROVE g[j].night < g[k].night
      OBVIOUS
    <2>1. j + d \in DOMAIN h /\ g[j] = h[j + d]
      BY <1>3, <1>o
    <2>2. CASE k = Len(g)
      BY <1>2, <2>1, <2>2
    <2>3. CASE k # Len(g)
      <3>1. k + d \in DOMAIN h /\ g[k] = h[k + d] /\ j + d < k + d
        BY <1>3, <1>o, <2>3
      <3> QED
        BY <1>1, <2>1, <3>1
    <2> QED
      BY <2>2, <2>3
  <1>6. has2 \subseteq has \cup {n}
    <2> SUFFICES ASSUME NEW k \in DOMAIN g PROVE g[k].night \in has \cup {n}
      OBVIOUS
    <2>1. CASE k = Len(g)
      BY <1>2, <2>1
    <2>2. CASE k # Len(g)
      <3>1. k + d \in DOMAIN h /\ g[k] = h[k + d]
        BY <1>o, <2>2
      <3> QED
        BY <3>1
    <2> QED
      BY <2>1, <2>2
  <1>7. n \in has2
    BY <1>2, <1>3
  <1>8. has2 \subseteq numbered2
    BY <1>1, <1>6
  <1>9. \A k \in DOMAIN g : g[k].sharpe = Sharpe[res[g[k].night][c]]
    <2> SUFFICES ASSUME NEW k \in DOMAIN g PROVE g[k].sharpe = Sharpe[res[g[k].night][c]]
      OBVIOUS
    <2>1. CASE k = Len(g)
      BY <1>2, <2>1
    <2>2. CASE k # Len(g)
      <3>1. k + d \in DOMAIN h /\ g[k] = h[k + d]
        BY <1>o, <2>2
      <3> QED
        BY <1>1, <3>1
    <2> QED
      BY <2>1, <2>2
  <1>10. ASSUME NEW m \in numbered2 \ (has2 \cup dist)
         PROVE  Len(g) = Window /\ \A x \in has2 : x > m
    <2>1. m \in numbered \ dist /\ m \in Int
      BY <1>4, <1>7, <1>10
    <2>2. CASE m \in has
      <3>1. PICK k \in DOMAIN h : m = h[k].night
        BY <2>2
      <3>2. k <= d
        <4> SUFFICES ASSUME k > d PROVE FALSE
          BY <1>3
        <4>0. /\ k \in Nat /\ d \in Nat /\ Len(g) \in Nat /\ Len(h) \in Nat
              /\ k <= Len(h) /\ d = Len(h) + 1 - Len(g) /\ k > d
          BY <1>3, <1>d
        <4>1. k - d \in 1..Len(g) /\ k - d # Len(g) /\ (k - d) + d = k
          BY <4>0
        <4>2. g[k - d] = h[k]
          BY <1>3, <1>o, <4>1
        <4> QED
          BY <1>3, <1>10, <3>1, <4>1, <4>2
      <3>3. Len(g) = Window
        <4>1. d > 0
          BY <1>3, <3>2
        <4> QED
          BY <4>1, <1>w
      <3>4. ASSUME NEW j \in DOMAIN g PROVE g[j].night > m
        <4>1. CASE j = Len(g)
          BY <1>2, <1>4, <3>1, <4>1
        <4>2. CASE j # Len(g)
          <5>1. j + d \in DOMAIN h /\ g[j] = h[j + d] /\ k < j + d
            BY <1>3, <1>o, <3>2, <4>2
          <5>2. h[k].night < h[j + d].night
            BY <1>1, <5>1
          <5> QED
            BY <1>4, <3>1, <5>1, <5>2
        <4> QED
          BY <4>1, <4>2
      <3> QED
        BY <3>3, <3>4
    <2>3. CASE m \notin has
      <3>1. Len(h) = Window /\ \A x \in has : x > m
        BY <1>1, <2>1, <2>3
      <3>2. 1 \in DOMAIN h
        BY <1>3, <3>1
      <3>3. h[1].night > m /\ h[1].night < n /\ h[1].night \in Int /\ n \in Int
        BY <1>4, <3>1, <3>2
      <3>4. n > m
        BY <2>1, <3>3
      <3>5. \A x \in has2 : x > m
        BY <1>6, <3>1, <3>4
      <3>6. Len(g) = Window
        BY <1>2, <1>3, <3>1
      <3> QED
        BY <3>5, <3>6
    <2> QED
      BY <2>2, <2>3
  <1> QED
    BY <1>5, <1>8, <1>9, <1>10 DEF Accounted

(* A whole baseline stays accounted for, pair by pair.                     *)
LEMMA StaysSound ==
  ASSUME NEW base, NEW fin, NEW res, NEW dist, NEW fin2, NEW res2, NEW dist2,
         Sound(base, fin, res, dist),
         fin \subseteq fin2, dist \subseteq dist2,
         \A n \in fin : res2[n] = res[n], fin2 \ fin \subseteq dist2
  PROVE  Sound(base, fin2, res2, dist2)
  <1>1. ASSUME NEW c \in Combos PROVE Accounted(base[c], c, fin2, res2, dist2)
    <2>1. Accounted(base[c], c, fin, res, dist)
      BY DEF Sound
    <2>2. \A n \in fin2 \ fin : n \in dist2
      OBVIOUS
    <2> QED
      BY <2>1, <2>2, StaysAccounted
  <1> QED
    BY <1>1 DEF Sound

(* A run that read an accounted baseline saves one, whatever finished       *)
(* meanwhile.                                                              *)
LEMMA SavesSound ==
  ASSUME NEW base \in Baselines, NEW fin, NEW res, NEW dist, NEW n \in Night, fin \subseteq Night,
         Sound(base, fin, res, dist), \A c \in DOMAIN res[n] : res[n][c] \in Outcomes,
         \A c \in Combos : \A k \in DOMAIN base[c] : base[c][k].night < n
  PROVE  Sound(Updated(base, res[n], n), fin \cup {n}, res, dist)
  <1> SUFFICES ASSUME NEW c \in Combos
      PROVE  Accounted(Updated(base, res[n], n)[c], c, fin \cup {n}, res, dist)
    BY DEF Sound
  <1>1. Accounted(base[c], c, fin, res, dist) /\ base[c] \in Seq([night : Night, sharpe : Int])
    BY DEF Sound, Baselines
  <1>2. CASE c \in DOMAIN res[n] /\ c \in Numbered(res[n])
    <2> DEFINE E == [night : Night, sharpe : Int]
               e == [night |-> n, sharpe |-> Sharpe[res[n][c]]]
    <2>1. Updated(base, res[n], n)[c] = Recent(Append(base[c], e))
      BY <1>2 DEF Updated
    <2>2. e \in E /\ e.night = n /\ e.sharpe = Sharpe[res[n][c]]
      BY <1>2, NumberedHaveSharpes
    <2>3. \A x \in E : x.night \in Night
      OBVIOUS
    <2>4. \A k \in DOMAIN base[c] : base[c][k].night < n
      OBVIOUS
    <2>5. PICK h : h = base[c]
      OBVIOUS
    <2> HIDE DEF e, E
    <2>6. h \in Seq(E) /\ Accounted(h, c, fin, res, dist) /\ \A k \in DOMAIN h : h[k].night < n
      BY <1>1, <2>4, <2>5 DEF E
    <2>7. PICK g : g = Recent(Append(h, e))
      OBVIOUS
    <2>8. Accounted(g, c, fin \cup {n}, res, dist)
      BY <1>2, <2>2, <2>3, <2>6, <2>7, GrowsAccounted
    <2> QED
      BY <2>1, <2>5, <2>7, <2>8
  <1>3. CASE ~(c \in DOMAIN res[n] /\ c \in Numbered(res[n]))
    <2>1. Updated(base, res[n], n)[c] = base[c]
      BY <1>3 DEF Updated
    <2>2. \A m \in (fin \cup {n}) \ fin : m \in dist \/ ~(c \in DOMAIN res[m] /\ c \in Numbered(res[m]))
      BY <1>3
    <2>3. Accounted(base[c], c, fin \cup {n}, res, dist)
      BY <1>1, <2>2, StaysAccounted
    <2> QED
      BY <2>1, <2>3
  <1> QED
    BY <1>2, <1>3

(* The empty baseline misses nothing.                                      *)
LEMMA BaseInit == Init => BaseInv
  <1> SUFFICES ASSUME Init PROVE BaseInv
    OBVIOUS
  <1>1. Active = {}
    BY DEF Init, Active
  <1>2. Sound(state.base, Finished, results, disturbed)
    <2>1. Finished = {} /\ \A c \in Combos : state.base[c] = <<>>
      BY DEF Init, Finished
    <2>2. ASSUME NEW c PROVE Accounted(<<>>, c, {}, results, disturbed)
      BY DEF Accounted
    <2> QED
      BY <2>1, <2>2 DEF Sound
  <1> QED
    BY <1>1, <1>2, BaseIs

(* A step that saves nothing: finished nights are added disturbed or not   *)
(* at all, and keep their results.                                         *)
LEMMA BaseKept ==
  ASSUME BaseInv, state'.ok => state.ok /\ state'.base = state.base,
         Finished \subseteq Finished', disturbed \subseteq disturbed',
         \A n \in Finished : results'[n] = results[n], Finished' \ Finished \subseteq disturbed',
         \A r \in Active' : r \in Active /\ loaded'[r] = loaded[r] /\ own'[r] = own[r]
  PROVE  BaseInv'
  <1>1. ASSUME NEW base, Sound(base, Finished, results, disturbed)
        PROVE  Sound(base, Finished', results', disturbed')
    <2>1. PICK fin, res, dist, fin2, res2, dist2 : fin = Finished /\ res = results /\ dist = disturbed
            /\ fin2 = Finished' /\ res2 = results' /\ dist2 = disturbed'
      OBVIOUS
    <2>2. Sound(base, fin, res, dist)
      BY <1>1, <2>1
    <2>3. Sound(base, fin2, res2, dist2)
      BY <2>1, <2>2, StaysSound
    <2> QED
      BY <2>1, <2>3
  <1>2. state'.ok => Sound(state'.base, Finished', results', disturbed')
    BY <1>1, BaseIs
  <1>3. ASSUME NEW r \in Active'
        PROVE  /\ Sound(loaded'[r], Finished', results', disturbed')
               /\ \A c \in Combos : \A k \in DOMAIN loaded'[r][c] : loaded'[r][c][k].night < own'[r]
    BY <1>1, BaseIs
  <1> QED
    BY <1>2, <1>3, BaseIsPrime

(* Every step keeps the baselines accounted for.                           *)
LEMMA BaseStep == TypeOK /\ NightInv /\ BaseInv /\ [Next]_vars => BaseInv'
  <1> SUFFICES ASSUME TypeOK, NightInv, BaseInv, [Next]_vars PROVE BaseInv'
    BY Zenon
  <1>t. /\ nights \in Nat /\ log \subseteq Night /\ own \in [Runs -> 0..MaxNights] /\ DOMAIN pc = Runs
        /\ loaded \in [Runs -> Baselines] /\ state.base \in Baselines
        /\ \A n \in Night : n \in Nat /\ n # 0
        /\ \A n \in log : n <= nights
    BY PipelineAssumption DEF TypeOK, Night, NightInv
  <1>n. NightRecords(results)
    BY DEF TypeOK, NightRecords
  <1>1. ASSUME NEW r \in Runs, NEW grid \in Grids, Begin(r, grid) PROVE BaseInv'
    <2>1. /\ nights + 1 \in Night /\ state.ok /\ state' = state /\ log' = log
          /\ pc'[r] = "measure" /\ pc[r] = "off" /\ own'[r] = nights + 1 /\ loaded'[r] = state.base
          /\ \A q \in Runs : q # r => pc'[q] = pc[q] /\ own'[q] = own[q] /\ loaded'[q] = loaded[q]
          /\ \A n \in Night : n # nights + 1 => results'[n] = results[n]
          /\ disturbed \subseteq disturbed'
      BY <1>1, <1>t, PipelineAssumption DEF Begin, Night, TypeOK
    <2>2. own[r] = 0 /\ 0 \notin log /\ nights + 1 \notin log
      BY <1>t, <2>1 DEF NightInv
    <2>3. Finished' = Finished
      BY <2>1, <2>2 DEF Finished
    <2>4. \A n \in Finished : results'[n] = results[n]
      BY <1>t, <2>1, <2>2 DEF Finished
    <2>5. ASSUME NEW base, Sound(base, Finished, results, disturbed)
          PROVE  Sound(base, Finished', results', disturbed')
      <3>1. PICK fin, res, dist, res2, dist2 : fin = Finished /\ res = results /\ dist = disturbed
              /\ res2 = results' /\ dist2 = disturbed'
        OBVIOUS
      <3>2. Sound(base, fin, res, dist)
        BY <2>5, <3>1
      <3>3. Sound(base, fin, res2, dist2)
        BY <2>1, <2>4, <3>1, <3>2, StaysSound
      <3> QED
        BY <2>3, <3>1, <3>3
    <2>6. Sound(state.base, Finished, results, disturbed)
      BY <2>1, BaseIs
    <2>7. \A c \in Combos : \A k \in DOMAIN state.base[c] : state.base[c][k].night < nights + 1
      <3> SUFFICES ASSUME NEW c \in Combos, NEW k \in DOMAIN state.base[c]
          PROVE  state.base[c][k].night < nights + 1
        OBVIOUS
      <3>1. state.base[c][k].night \in Finished
        BY <2>6 DEF Sound, Accounted
      <3> QED
        BY <1>t, <3>1 DEF Finished
    <2>8. ASSUME NEW q \in Active'
          PROVE  /\ Sound(loaded'[q], Finished', results', disturbed')
                 /\ \A c \in Combos : \A k \in DOMAIN loaded'[q][c] : loaded'[q][c][k].night < own'[q]
      <3>1. CASE q = r
        BY <2>1, <2>5, <2>6, <2>7, <3>1
      <3>2. CASE q # r
        <4>1. q \in Active /\ own'[q] = own[q] /\ loaded'[q] = loaded[q]
          BY <2>1, <3>2 DEF Active
        <4> QED
          BY <2>5, <4>1, BaseIs
      <3> QED
        BY <3>1, <3>2
    <2> QED
      BY <2>1, <2>5, <2>6, <2>8, BaseIsPrime
  <1>2. ASSUME NEW r \in Runs, Refused(r) PROVE BaseInv'
    <2>1. Finished' = Finished /\ Active' = Active
      BY <1>2 DEF Refused, Finished, Active
    <2> QED
      BY <1>2, <2>1, BaseKept DEF Refused
  <1>3. ASSUME NEW r \in Runs, Measure(r) PROVE BaseInv'
    <2>1. /\ pc[r] = "measure" /\ pc'[r] = "log" /\ own' = own /\ log' = log /\ state' = state
          /\ \A q \in Runs : q # r => pc'[q] = pc[q]
          /\ disturbed' = disturbed /\ loaded' = loaded
      BY <1>3, <1>t DEF Measure
    <2>2. own[r] \in Night
      BY <2>1, OwnNight
    <2>3. \A m \in Night : m # own[r] => results'[m] = results[m]
      BY <1>3, <2>2, RecordsAreOffers
    <2>4. Finished' = Finished /\ \A n \in Finished : results'[n] = results[n]
      BY <1>t, <2>1, <2>3 DEF Finished
    <2>5. Active' = Active
      BY <2>1 DEF Active
    <2> QED
      BY <2>1, <2>4, <2>5, BaseKept
  <1>4. ASSUME NEW r \in Runs, AppendLog(r) PROVE BaseInv'
    <2>1. /\ pc[r] = "log" /\ pc'[r] = "thresholds" /\ own' = own /\ log' = log \cup {own[r]} /\ state' = state
          /\ \A q \in Runs : q # r => pc'[q] = pc[q]
          /\ disturbed' = disturbed /\ loaded' = loaded /\ results' = results
      BY <1>4, <1>t, Names DEF AppendLog
    <2>2. Finished' = Finished
      BY <2>1 DEF Finished
    <2>3. Active' = Active
      BY <2>1 DEF Active
    <2> QED
      BY <2>1, <2>2, <2>3, BaseKept
  <1>5. ASSUME NEW r \in Runs, NEW a \in Artifacts, WriteArtifact(r, a) PROVE BaseInv'
    <2>1. /\ pc[r] = a /\ pc'[r] = NextPhase(a) /\ own' = own /\ log' = log /\ state' = state
          /\ \A q \in Runs : q # r => pc'[q] = pc[q]
          /\ disturbed' = disturbed /\ loaded' = loaded /\ results' = results
      BY <1>5, <1>t DEF WriteArtifact
    <2>2. Finished' = Finished
      BY <2>1 DEF Finished
    <2>3. Active' = Active
      BY <2>1, WritingPhases DEF Active
    <2> QED
      BY <2>1, <2>2, <2>3, BaseKept
  <1>6. ASSUME NEW r \in Runs, SaveState(r) PROVE BaseInv'
    <2> DEFINE n == own[r]
    <2>1. /\ pc[r] = "save" /\ pc'[r] = "off" /\ own'[r] = 0 /\ log' = log
          /\ \A q \in Runs : q # r => pc'[q] = pc[q] /\ own'[q] = own[q] /\ loaded'[q] = loaded[q]
          /\ disturbed' = disturbed /\ results' = results
          /\ state'.base = Updated(loaded[r], results[n], n)
      BY <1>6, <1>t DEF SaveState
    <2>2. n \in Night /\ n \in log /\ r \in Active
      BY <2>1, OwnNight DEF NightInv, Active
    <2>3. \A q \in Runs : q # r => own[q] # n
      <3>1. \A q \in Active : q # r => own[q] # n
        BY <2>2 DEF NightInv
      <3>2. \A q \in Runs : q \notin Active => own[q] = 0
        BY DEF Active, NightInv
      <3> QED
        BY <1>t, <2>2, <3>1, <3>2
    <2>4. Finished' = Finished \cup {n}
      BY <1>t, <2>1, <2>2, <2>3 DEF Finished
    <2>5. Active' = Active \ {r}
      BY <2>1 DEF Active
    <2>6. /\ Sound(loaded[r], Finished, results, disturbed)
          /\ \A c \in Combos : \A k \in DOMAIN loaded[r][c] : loaded[r][c][k].night < n
      BY <2>2, BaseIs
    <2>7. Sound(state'.base, Finished', results', disturbed')
      <3>1. PICK base, fin, res, dist, m : base = loaded[r] /\ fin = Finished /\ res = results /\ dist = disturbed /\ m = n
        OBVIOUS
      <3>2. \A c \in DOMAIN res[m] : res[m][c] \in Outcomes
        BY <1>n, <2>2, <3>1 DEF NightRecords
      <3>3. /\ base \in Baselines /\ m \in Night /\ fin \subseteq Night /\ Sound(base, fin, res, dist)
            /\ \A c \in Combos : \A k \in DOMAIN base[c] : base[c][k].night < m
        BY <1>t, <2>2, <2>6, <3>1 DEF Finished
      <3>4. Sound(Updated(base, res[m], m), fin \cup {m}, res, dist)
        BY <3>2, <3>3, SavesSound
      <3> QED
        BY <2>1, <2>4, <3>1, <3>4
    <2>8. ASSUME NEW q \in Active'
          PROVE  /\ Sound(loaded'[q], Finished', results', disturbed')
                 /\ \A c \in Combos : \A k \in DOMAIN loaded'[q][c] : loaded'[q][c][k].night < own'[q]
      <3>1. q \in Active /\ own'[q] = own[q] /\ loaded'[q] = loaded[q] /\ n \in disturbed
        BY <2>1, <2>2, <2>5 DEF Active, NightInv
      <3>2. /\ Sound(loaded[q], Finished, results, disturbed)
            /\ \A c \in Combos : \A k \in DOMAIN loaded[q][c] : loaded[q][c][k].night < own[q]
        BY <3>1, BaseIs
      <3>3. PICK base, fin, res, dist, m : base = loaded[q] /\ fin = Finished /\ res = results /\ dist = disturbed /\ m = n
        OBVIOUS
      <3>4. Sound(base, fin, res, dist) /\ (fin \cup {m}) \ fin \subseteq dist
        BY <3>1, <3>2, <3>3
      <3>5. Sound(base, fin \cup {m}, res, dist)
        BY <3>4, StaysSound
      <3> QED
        BY <2>1, <2>4, <3>1, <3>2, <3>3, <3>5
    <2> QED
      BY <2>7, <2>8, BaseIsPrime
  <1>7. ASSUME NEW r \in Runs, Kill(r) PROVE BaseInv'
    <2>1. /\ r \in Active /\ pc'[r] = "off" /\ own'[r] = 0 /\ log' = log
          /\ \A q \in Runs : q # r => pc'[q] = pc[q] /\ own'[q] = own[q] /\ loaded'[q] = loaded[q]
          /\ disturbed' = disturbed \cup {own[r]} /\ results' = results
      BY <1>7, <1>t DEF Kill
    <2>2. state'.ok => state.ok /\ state'.base = state.base
      BY <1>7 DEF Kill
    <2>3. own[r] \in Night
      BY <2>1, OwnNight DEF Active
    <2>4. Finished \subseteq Finished' /\ Finished' \ Finished \subseteq {own[r]}
      BY <1>t, <2>1 DEF Finished
    <2>5. Active' = Active \ {r}
      BY <2>1 DEF Active
    <2>6. \A q \in Active' : q \in Active /\ loaded'[q] = loaded[q] /\ own'[q] = own[q]
      BY <2>1, <2>5 DEF Active
    <2>7. Finished' \ Finished \subseteq disturbed' /\ disturbed \subseteq disturbed'
          /\ \A n \in Finished : results'[n] = results[n]
      BY <2>1, <2>4
    <2> QED
      BY <2>2, <2>4, <2>6, <2>7, BaseKept
  <1>8. CASE UNCHANGED vars
    <2>1. Finished' = Finished /\ Active' = Active
      BY <1>8 DEF vars, Finished, Active
    <2> QED
      BY <1>8, <2>1, BaseKept DEF vars
  <1> QED
    BY <1>1, <1>2, <1>3, <1>4, <1>5, <1>6, <1>7, <1>8 DEF Next

(* The inductive invariant holds at first.                                 *)
LEMMA InvInit == Init => IInv
  BY TypeInit, NightInit, TableInit, BaseInit DEF IInv

(* Every step keeps it.                                                    *)
LEMMA InvStep == IInv /\ [Next]_vars => IInv'
  BY TypeStep, NightStep, TableStep, BaseStep DEF IInv

(* It holds throughout.                                                    *)
LEMMA InvHolds == Spec => []IInv
  BY InvInit, InvStep, PTL DEF Spec

(* Every variable keeps its type: whatever is killed, an artifact names a  *)
(* night or one of the three damages, and a saved state is a baseline.     *)
THEOREM TypeCorrect == Spec => []TypeOK
  <1>1. IInv => TypeOK
    BY DEF IInv
  <1> QED
    BY <1>1, InvHolds, PTL

(* The saved baseline misses only disturbed nights: overlapping runs lose  *)
(* updates (each saves the copy it read at its start), lone runs never.    *)
THEOREM BaselineIsComplete == Spec => []BaselineMissesOnlyDisturbed
  <1>1. IInv => BaselineMissesOnlyDisturbed
    BY DEF IInv, BaseInv, BaselineMissesOnlyDisturbed
  <1> QED
    BY <1>1, InvHolds, PTL

(* A logged night keeps its results.                                       *)
LEMMA LoggedResultsStay ==
  ASSUME TypeOK, NightInv, Next
  PROVE  \A n \in log : results'[n] = results[n]
  <1>t. /\ nights \in Nat /\ log \subseteq Night /\ DOMAIN results = Night
        /\ \A n \in Night : n \in Nat
        /\ \A n \in log : n <= nights
    BY PipelineAssumption DEF TypeOK, Night, NightInv
  <1>1. ASSUME NEW r \in Runs, NEW grid \in Grids, Begin(r, grid) PROVE \A n \in log : results'[n] = results[n]
    <2>1. PICK f : results' = [results EXCEPT ![nights + 1] = f]
      BY <1>1 DEF Begin
    <2>2. nights + 1 \notin log
      BY <1>t
    <2> QED
      BY <1>t, <2>1, <2>2
  <1>2. ASSUME NEW r \in Runs, Measure(r) PROVE \A n \in log : results'[n] = results[n]
    <2>1. own[r] \in Night /\ own[r] \notin log
      BY <1>2, OwnNight DEF Measure, NightInv
    <2> QED
      BY <1>2, <1>t, <2>1, RecordsAreOffers
  <1>3. ASSUME results' = results PROVE \A n \in log : results'[n] = results[n]
    BY <1>3
  <1> QED
    BY <1>1, <1>2, <1>3 DEF Next, Refused, AppendLog, WriteArtifact, SaveState, Kill

(* No handler replaces a guarded file with content by an empty one.        *)
LEMMA LastGoodStep ==
  ASSUME TypeOK, NightInv, Next, NEW a \in Guarded, disk[a] \in Night, ~Empty(a, results[disk[a]])
  PROVE  (disk'[a] \in Night /\ ~Empty(a, results'[disk'[a]])) \/ kills' > kills
  <1>0. a \in Artifacts /\ disk[a] \in log /\ disk[a] \notin {Absent, Blank}
    BY PipelineAssumption DEF Guarded, NightInv, Absent, Blank, Night
  <1>1. results'[disk[a]] = results[disk[a]]
    BY <1>0, LoggedResultsStay
  <1>2. CASE disk'[a] = disk[a]
    BY <1>1, <1>2
  <1>3. ASSUME NEW r \in Runs, NEW b \in Artifacts, WriteArtifact(r, b), disk'[a] # disk[a]
        PROVE  disk'[a] \in Night /\ ~Empty(a, results'[disk'[a]])
    <2>1. a = b /\ ~KeepsPrevious(b, results[own[r]]) /\ disk'[a] = own[r] /\ results' = results
      BY <1>0, <1>3 DEF WriteArtifact, TypeOK
    <2>2. ~Empty(a, results[own[r]])
      BY <1>0, <2>1 DEF KeepsPrevious
    <2>3. own[r] \in Night
      BY <1>3, OwnNight, WritingPhases DEF WriteArtifact
    <2> QED
      BY <2>1, <2>2, <2>3
  <1>4. ASSUME NEW r \in Runs, Kill(r) PROVE kills' > kills
    BY <1>4 DEF Kill, TypeOK
  <1>5. ASSUME disk' = disk PROVE disk'[a] = disk[a]
    BY <1>5
  <1> QED
    BY <1>2, <1>3, <1>4, <1>5 DEF Next, Begin, Refused, Measure, AppendLog, SaveState

(* A degraded night keeps the last good file: the guard of each writer and *)
(* the order of the log and the artifacts suffice, whatever overlaps.      *)
THEOREM DegradedNightsKeepTheLastGood == Spec => LastGoodSurvives
  <1> DEFINE A == \A a \in Guarded :
               disk[a] \in Night /\ ~Empty(a, results[disk[a]]) =>
                 \/ disk'[a] \in Night /\ ~Empty(a, results'[disk'[a]])
                 \/ kills' > kills
  <1>1. IInv /\ [Next]_vars => [A]_vars
    <2> SUFFICES ASSUME IInv, Next PROVE A
      BY Zenon
    <2> QED
      BY LastGoodStep DEF IInv
  <1> HIDE DEF A
  <1>2. Spec => [][A]_vars
    BY <1>1, InvHolds, PTL DEF Spec
  <1> QED
    BY <1>2 DEF A, LastGoodSurvives

(* A table holds one of the floors of the pairs it was made from.          *)
LEMMA MinOfFloors ==
  ASSUME NEW S, S # {}, S \subseteq {1, 4, 99}
  PROVE  Min(S) \in S /\ \A y \in S : Min(S) <= y
  <1>1. \E x \in S : \A y \in S : x <= y
    <2>1. CASE 1 \in S
      BY <2>1
    <2>2. CASE 1 \notin S /\ 4 \in S
      BY <2>2
    <2>3. CASE 1 \notin S /\ 4 \notin S
      <3>1. \A y \in S : y = 99
        BY <2>3
      <3>2. 99 \in S
        BY <3>1
      <3> QED
        BY <3>1, <3>2
    <2> QED
      BY <2>1, <2>2, <2>3
  <1> QED
    BY <1>1 DEF Min

(* The floor computed from a record is the worth of the offered outcome.   *)
LEMMA FloorIsWorth ==
  ASSUME NEW res, \A c \in DOMAIN res : res[c] \in Outcomes, NEW c \in Measured(res)
  PROVE  /\ FloorOf(res, c) = Worth(res[c])
         /\ FloorOf(res, c) \in {1, 4, 99}
         /\ FloorOf(res, c) < 99 => c \in Numbered(res) /\ Sharpe[res[c]] > 0
  <1>1. res[c] \in {"bankrupt", "few", "silent", "losing", "weak", "strong"} /\ c \in DOMAIN res
    BY DEF Measured, NoRecord, Outcomes
  <1>2. MinTrades \in Nat
    BY PipelineAssumption
  <1>3. c \in Withheld(res) <=> MinTrades > 0 /\ Trades[res[c]] < MinTrades
    BY DEF Withheld
  <1>4. c \in Numbered(res) <=> res[c] # "bankrupt"
    BY DEF Numbered
  <1>5. /\ Sharpe["few"] = 10 /\ Sharpe["silent"] = 0 /\ Sharpe["losing"] = -5 /\ Sharpe["weak"] = 2
        /\ Sharpe["strong"] = 5 /\ Trades["few"] = MinTrades - 1 /\ Trades["silent"] = 0
        /\ Trades["losing"] = MinTrades /\ Trades["weak"] = MinTrades /\ Trades["strong"] = MinTrades
    BY DEF Sharpe, Trades
  <1> QED
    BY <1>1, <1>2, <1>3, <1>4, <1>5 DEF FloorOf, Worth

(* What an undisturbed table lets trade is on an undisturbed skip list,    *)
(* also when the two were written by different nights.                     *)
THEOREM TradeableTickersAreKept == Spec => []TradeableIsKept
  <1>1. ASSUME IInv, Active = {}, NEW n, n = disk["thresholds"], NEW m, m = disk["skip"],
               n \in Night \ disturbed, m \in Night \ disturbed,
               NEW e \in DOMAIN Floors(results[n]), Floors(results[n])[e] < 99
        PROVE  <<e.prefix, e.symbol>> \in Keep(results[m])
    <2> DEFINE res == results[n]
               S == {FloorOf(res, c) : c \in {d \in Measured(res) : Entry(d) = e}}
    <2>1. \A c \in DOMAIN res : res[c] \in Outcomes
      BY <1>1 DEF IInv, TypeOK
    <2>2. n = m \/ Numbered(results[n]) = {}
      BY <1>1 DEF IInv, TableInv, Active, AfterTable
    <2>3. \E d \in Measured(res) : Entry(d) = e
      BY <1>1 DEF Floors
    <2>4. Floors(results[n])[e] = Min(S)
      BY <1>1 DEF Floors
    <2>5. S # {} /\ S \subseteq {1, 4, 99}
      BY <2>1, <2>3, FloorIsWorth
    <2>6. Min(S) \in S
      BY <2>5, MinOfFloors
    <2>7. PICK c \in Measured(res) : Entry(c) = e /\ FloorOf(res, c) < 99
      BY <1>1, <2>4, <2>6
    <2>8. c \in Numbered(res) /\ Sharpe[res[c]] > 0
      BY <2>1, <2>7, FloorIsWorth
    <2>9. Ticker(c) \in Keep(results[n])
      BY <2>8 DEF Keep
    <2>10. Ticker(c) = <<e.prefix, e.symbol>>
      BY <2>7 DEF Ticker, Entry
    <2> QED
      BY <2>2, <2>8, <2>9, <2>10
  <1>2. IInv => TradeableIsKept
    BY <1>1 DEF TradeableIsKept
  <1> QED
    BY <1>2, InvHolds, PTL

(* The answer GateFollowsTheMarket asks for, of a market f.                *)
Seen(f) == {c \in DOMAIN f : f[c] \notin {"error", "short"}}

Answer(f, c, p) ==
  LET worth(s) == Min({Worth(f[d]) : d \in s})
      twin(d) == d.strategy = c.strategy /\ d.interval = c.interval /\ d.symbol = c.symbol
      mine(q) == {d \in Seen(f) : twin(d) /\ d.prefix = q}
      all == {worth(mine(d.prefix)) : d \in {x \in Seen(f) : twin(x)}}
  IN IF mine(p) # {} THEN worth(mine(p))
     ELSE IF Cardinality(all) = 1 THEN CHOOSE v \in all : TRUE ELSE GlobalMin

(* A table answers a query about a pair it was made from by what the pairs *)
(* of that ticker were worth.                                              *)
LEMMA LookupIsWorth ==
  ASSUME NEW res, \A c \in DOMAIN res : res[c] \in Outcomes, NEW c \in Seen(res), NEW p
  PROVE  Lookup(Floors(res), c.strategy, c.interval, p, c.symbol) = Answer(res, c, p)
  <1> DEFINE seen == Seen(res)
             table == Floors(res)
             twin(d) == d.strategy = c.strategy /\ d.interval = c.interval /\ d.symbol = c.symbol
             mine(q) == {d \in seen : twin(d) /\ d.prefix = q}
             worth(s) == Min({Worth(res[d]) : d \in s})
             all == {worth(mine(d.prefix)) : d \in {x \in seen : twin(x)}}
             same == {e \in DOMAIN table : e.strategy = c.strategy /\ e.interval = c.interval /\ e.symbol = c.symbol}
             own_ == {e \in same : e.prefix = p}
             distinct == {table[e] : e \in IF own_ # {} THEN own_ ELSE same}
  <1>0. seen = Measured(res)
    BY DEF Seen, Measured, NoRecord
  <1>1. ASSUME NEW d \in seen, twin(d)
        PROVE  Entry(d) \in same /\ Entry(d).prefix = d.prefix /\ table[Entry(d)] = worth(mine(d.prefix))
    <2>1. Entry(d) \in DOMAIN table /\ table[Entry(d)] = Min({FloorOf(res, x) : x \in {y \in seen : Entry(y) = Entry(d)}})
      BY <1>0 DEF Floors
    <2>2. {y \in seen : Entry(y) = Entry(d)} = mine(d.prefix)
      BY <1>1 DEF Entry
    <2>3. \A x \in seen : FloorOf(res, x) = Worth(res[x])
      BY <1>0, FloorIsWorth
    <2>4. {FloorOf(res, x) : x \in mine(d.prefix)} = {Worth(res[x]) : x \in mine(d.prefix)}
      BY <2>3
    <2>5. Entry(d).prefix = d.prefix /\ Entry(d) \in same
      BY <1>1, <2>1 DEF Entry
    <2> QED
      BY <2>1, <2>2, <2>4, <2>5
  <1>2. ASSUME NEW e \in same
        PROVE  \E d \in seen : twin(d) /\ e = Entry(d)
    <2>1. PICK d \in seen : e = Entry(d)
      BY <1>0, <1>2 DEF Floors
    <2> QED
      BY <1>2, <2>1 DEF Entry
  <1>3. Lookup(table, c.strategy, c.interval, p, c.symbol) =
          IF Cardinality(distinct) = 1 THEN CHOOSE v \in distinct : TRUE ELSE GlobalMin
    BY DEF Lookup
  <1>a. Answer(res, c, p) =
          IF mine(p) # {} THEN worth(mine(p))
          ELSE IF Cardinality(all) = 1 THEN CHOOSE v \in all : TRUE ELSE GlobalMin
    BY DEF Answer
  <1>4. CASE mine(p) # {}
    <2>1. PICK d \in seen : twin(d) /\ d.prefix = p
      BY <1>4
    <2>2. own_ = {Entry(d)}
      <3>1. Entry(d) \in own_
        BY <1>1, <2>1
      <3>2. ASSUME NEW e \in own_ PROVE e = Entry(d)
        <4>1. PICK x \in seen : twin(x) /\ e = Entry(x)
          BY <1>2
        <4> QED
          BY <2>1, <3>2, <4>1 DEF Entry
      <3> QED
        BY <3>1, <3>2
    <2>3. distinct = {worth(mine(p))}
      BY <1>1, <2>1, <2>2
    <2>4. Cardinality({worth(mine(p))}) = 1
      BY FS_Singleton
    <2>5. (CHOOSE v \in {worth(mine(p))} : TRUE) = worth(mine(p))
      OBVIOUS
    <2> HIDE DEF mine, worth, all, distinct
    <2> QED
      BY <1>3, <1>4, <1>a, <2>3, <2>4, <2>5
  <1>5. CASE mine(p) = {}
    <2>1. own_ = {}
      <3> SUFFICES ASSUME NEW e \in own_ PROVE FALSE
        OBVIOUS
      <3>1. PICK x \in seen : twin(x) /\ e = Entry(x)
        BY <1>2
      <3> QED
        BY <1>1, <1>5, <3>1
    <2>2. distinct = {table[e] : e \in same}
      BY <2>1
    <2>3. distinct = all
      <3>1. ASSUME NEW e \in same PROVE table[e] \in all
        <4>1. PICK d \in seen : twin(d) /\ e = Entry(d)
          BY <1>2
        <4>2. table[e] = worth(mine(d.prefix))
          BY <1>1, <4>1
        <4> HIDE DEF worth, mine, table
        <4> QED
          BY <4>1, <4>2
      <3>2. ASSUME NEW d \in seen, twin(d) PROVE worth(mine(d.prefix)) \in {table[e] : e \in same}
        <4>1. Entry(d) \in same /\ table[Entry(d)] = worth(mine(d.prefix))
          BY <1>1, <3>2
        <4> HIDE DEF worth, mine, table, same
        <4> QED
          BY <4>1
      <3>3. \A v \in all : v \in {table[e] : e \in same}
        BY <3>2
      <3>4. \A v \in {table[e] : e \in same} : v \in all
        BY <3>1
      <3> QED
        BY <2>2, <3>3, <3>4
    <2> HIDE DEF mine, worth, all, distinct
    <2> QED
      BY <1>3, <1>5, <1>a, <2>3
  <1> QED
    BY <1>4, <1>5

(* The gate answers by the market of the night that wrote the table: the   *)
(* child ran with the gate off, the smaller floor of twins stays, and the  *)
(* lookup prefers the asked provider.                                      *)
THEOREM TheGateFollowsTheMarket == Spec => []GateFollowsTheMarket
  <1>1. ASSUME IInv, NEW n, n = disk["thresholds"], n \in Night
        PROVE  results[n] = market[n] /\ \A c \in DOMAIN results[n] : results[n][c] \in Outcomes
    BY <1>1, Names DEF IInv, NightInv, TypeOK
  <1>2. GateFollowsTheMarket <=>
          (disk["thresholds"] \in Night =>
             \A c \in Seen(market[disk["thresholds"]]) : \A p \in Providers \cup {"none"} :
               Lookup(Floors(results[disk["thresholds"]]), c.strategy, c.interval, p, c.symbol)
                 = Answer(market[disk["thresholds"]], c, p))
    BY DEF GateFollowsTheMarket, Answer, Seen
  <1>3. ASSUME IInv, disk["thresholds"] \in Night, NEW c \in Seen(market[disk["thresholds"]]), NEW p
        PROVE  Lookup(Floors(results[disk["thresholds"]]), c.strategy, c.interval, p, c.symbol)
                 = Answer(market[disk["thresholds"]], c, p)
    <2>1. PICK f : f = results[disk["thresholds"]]
      OBVIOUS
    <2>2. market[disk["thresholds"]] = f /\ \A x \in DOMAIN f : f[x] \in Outcomes
      BY <1>1, <1>3, <2>1
    <2>3. Lookup(Floors(f), c.strategy, c.interval, p, c.symbol) = Answer(f, c, p)
      BY <1>3, <2>2, LookupIsWorth
    <2> QED
      BY <2>1, <2>2, <2>3
  <1>4. IInv => GateFollowsTheMarket
    BY <1>2, <1>3
  <1> QED
    BY <1>4, InvHolds, PTL
=============================================================================
