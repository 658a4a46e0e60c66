--------------------------- MODULE WatchdogProofs ---------------------------
(***************************************************************************)
(* Proofs about Watchdog, for every set of watches, orders, levels and     *)
(* configuration files, every price and every duration.                    *)
(***************************************************************************)
EXTENDS Watchdog, SequenceTheorems, TLAPS

(* Watch w was evaluated and is about to be saved. *)
Saving(w) == tick # None /\ tick.step = "save" /\ w = Head(tick.todo)
Seen(w) == IF file[w] = None THEN {} ELSE file[w].seen

(* A tick works with the time it started at, and with orders that are as   *)
(* the venue has them.                                                     *)
TickInv ==
  tick # None =>
    /\ code = None /\ tick.at = now
    /\ tick.orders # None =>
         \A o \in Order : tick.orders[o] # None => venue[o] = tick.orders[o]

(* What a watch about to be saved adds to the fills its file knows is what *)
(* the tick printed of it.                                                 *)
HeldInv ==
  \A w \in Watches : Saving(w) =>
    /\ {Fill(o) : o \in tick.held.next.seen \ Seen(w)} \subseteq tick.held.alerts
    /\ Seen(w) \subseteq tick.held.next.seen
    /\ \A a \in tick.held.alerts : Pending(w, a)
    /\ \A l \in tick.held.next.levels.alerted :
         Told(w, l) \/ l \in lost[w] \cup muted[w] \cup tick.held.mute

(* A fill the reader was told of is in the file, or about to be saved, or  *)
(* a save of this watch failed.                                            *)
FillInv ==
  \A w \in Watches, o \in Order :
    /\ heard[w][Fill(o)] > 0 => past[w].died \/ o \in Seen(w)
    /\ Pending(w, Fill(o)) =>
         past[w].died \/ o \in Seen(w) \/ (Saving(w) /\ o \in tick.held.next.seen)

(* A state does not reach back beyond the first tick that looked at the    *)
(* watch.                                                                  *)
Since(w, t) == past[w].born # None /\ t # None /\ past[w].born <= t
BirthInv ==
  \A w \in Watches :
    /\ past[w].born # None => past[w].born <= now
    /\ file[w] # None => Since(w, file[w].updated)
    /\ file[w] # None /\ file[w].created # None => Since(w, file[w].created)
    /\ Saving(w) => Since(w, tick.held.next.created)
    /\ tick # None /\ tick.step = "failed" /\ w = Head(tick.todo) => past[w].born # None
    /\ \A o \in Order : Told(w, Fill(o)) => past[w].born # None /\ venue[o] # None

(* A streak is only ever counted by prices above the entry.                *)
StreakInv ==
  \A w \in Watches :
    /\ file[w] # None /\ file[w].levels.streak > 0 =>
         past[w].above /\ Levels[w] # {} /\ Entry[w] # None
    /\ Saving(w) /\ tick.held.next.levels.streak > 0 =>
         /\ Levels[w] # {} /\ Entry[w] # None
         /\ IF tick.held.next.closed # None THEN past[w].above ELSE tick.held.price > Entry[w]

(* The failure window of a file is what happened to the last fetches.      *)
WindowInv ==
  \A w \in Watches : past[w].fetches = IF file[w] = None THEN <<>> ELSE file[w].window

IInv ==
  /\ TypeOK /\ TickInv /\ HeldInv /\ FillInv /\ BirthInv /\ StreakInv /\ WindowInv
  /\ NothingSwallowed /\ ReportedOnce /\ NoForeignFill /\ RecoveryIsConfirmed

(* Every watch of a configuration file has a name of its own. *)
NamesAreUnique ==
  \A c \in Configs : c # <<>> /\ \A i, j \in DOMAIN c : c[i] = c[j] => i = j

LastFailed(w) == LET f == past[w].fetches IN f # <<>> /\ f[Len(f)]

(* What a tick has counted: its watches are distinct, the ones it is done   *)
(* with are the first ones it was asked for, and it counts all of them as  *)
(* failed exactly when the last recorded fetch of each one failed.         *)
Counted(asked, todo, failed) ==
  LET done == Len(asked) - Len(todo) IN
  /\ asked # <<>> /\ \A i, j \in DOMAIN asked : asked[i] = asked[j] => i = j
  /\ done >= 0 /\ \A i \in DOMAIN todo : todo[i] = asked[done + i]
  /\ failed <= done
  /\ failed = done <=> \A i \in 1..done : LastFailed(asked[i])
CountInv == tick # None => Counted(tick.asked, tick.todo, tick.failed)

-----------------------------------------------------------------------------

(* Counters of the model stop at two.                                      *)
LEMMA MinOfTwo == \A n \in Nat : Min({2, n}) = IF n < 2 THEN n ELSE 2
  <1> TAKE n \in Nat
  <1> DEFINE m == IF n < 2 THEN n ELSE 2
  <1>1. m \in {2, n} /\ \A y \in {2, n} : m <= y
    OBVIOUS
  <1>2. \A x \in {2, n} : (\A y \in {2, n} : x <= y) => x = m
    OBVIOUS
  <1> QED
    BY <1>1, <1>2 DEF Min

(* The window of fetch outcomes stays a sequence of outcomes.              *)
LEMMA CapType == ASSUME NEW s \in Seq(BOOLEAN), NEW b \in BOOLEAN, NEW n \in Nat
                 PROVE  Cap(Append(s, b), n) \in Seq(BOOLEAN)
  <1>1. Append(s, b) \in Seq(BOOLEAN)
    OBVIOUS
  <1>2. Len(Append(s, b)) > n => Tail(Append(s, b)) \in Seq(BOOLEAN)
    BY <1>1, HeadTailProperties
  <1> QED
    BY <1>1, <1>2 DEF Cap

(* The alert of a venue fill is never mistaken for that of a level.        *)
LEMMA FillIsNoLevel ==
  ASSUME NEW w \in Watches, NEW o PROVE Fill(o) \notin Levels[w]
  <1>1. DOMAIN Fill(o) = {"fill"}
    BY DEF Fill
  <1> QED
    BY <1>1, WatchdogAssumption

(* What a tick reads of a file: the file, or an empty state if there is    *)
(* none.                                                                   *)
LEMMA RawType == ASSUME TypeOK, NEW w \in Watches
                 PROVE  /\ Raw(file[w]) \in StateOf(w)
                        /\ file[w] = None => Raw(file[w]) = Blank
                        /\ file[w] # None => Raw(file[w]) = file[w]
                        /\ Blank \in StateOf(w)
  <1>1. Blank \in StateOf(w)
    BY EmptySeq DEF Blank, NoLevels, StateOf, StateWith
  <1> QED
    BY <1>1 DEF Raw, TypeOK

LevelState(w) == [alerted : SUBSET Levels[w], streak : 0..2, prev : Int \cup {None}]

(* What evaluate_levels adds to the state of the levels. *)
LEMMA LevelFacts ==
  ASSUME NEW w \in Watches, NEW st \in LevelState(w), NEW price \in Prices
  PROVE  /\ EvaluateLevels(w, price, st) \in LevelState(w)
         /\ EvaluateLevels(w, price, st).alerted = st.alerted \cup Fires(w, price, st)
         /\ EvaluateLevels(w, price, st).streak > 0 =>
              IF Entry[w] = None THEN st.streak > 0 ELSE price > Entry[w]
         /\ \A l \in Fires(w, price, st) : l.type = "recovery" =>
              /\ Entry[w] # None /\ price > Entry[w] /\ st.streak > 0
              /\ \E d \in st.alerted : d.type = "drop"
  <1>1. Fires(w, price, st) \subseteq Levels[w]
    BY DEF Fires, Zones
  <1>2. Entry[w] # None => Entry[w] \in Int
    BY WatchdogAssumption
  <1>3. price \in Int
    BY WatchdogAssumption
  <1>4. Entry[w] # None =>
          /\ Streak(w, price, st) \in 0..2
          /\ Streak(w, price, st) > 0 => price > Entry[w]
          /\ Streak(w, price, st) >= 2 => st.streak > 0
    <2>1. st.streak \in 0..2
      BY DEF LevelState
    <2>2. Min({2, st.streak + 1}) = IF st.streak + 1 < 2 THEN st.streak + 1 ELSE 2
      BY <2>1, MinOfTwo
    <2> QED
      BY <1>2, <1>3, <2>1, <2>2 DEF Streak
  <1>5. EvaluateLevels(w, price, st).streak \in 0..2
    BY <1>2, <1>3, <1>4 DEF EvaluateLevels, LevelState
  <1>6. EvaluateLevels(w, price, st) \in LevelState(w)
    BY <1>1, <1>3, <1>5 DEF EvaluateLevels, LevelState
  <1>7. EvaluateLevels(w, price, st).streak > 0 =>
              IF Entry[w] = None THEN st.streak > 0 ELSE price > Entry[w]
    BY <1>2, <1>3, <1>4 DEF EvaluateLevels
  <1>8. \A l \in Fires(w, price, st) : l.type = "recovery" =>
              /\ Entry[w] # None /\ price > Entry[w] /\ st.streak > 0
              /\ \E d \in st.alerted : d.type = "drop"
    BY <1>4 DEF Fires, Facts, Zones
  <1> QED
    BY <1>6, <1>7, <1>8 DEF EvaluateLevels

(* The result of an evaluation that has nothing to say.                    *)
LEMMA Silent ==
  ASSUME NEW price
  PROVE  [Nothing EXCEPT !.price = price] =
           [next |-> None, alerts |-> {}, mute |-> {}, signal |-> FALSE, price |-> price]
  <1>1. \A f : [[next |-> None, alerts |-> {}, mute |-> {}, signal |-> f, price |-> None]
                  EXCEPT !.price = price] =
                [next |-> None, alerts |-> {}, mute |-> {}, signal |-> f, price |-> price]
    OBVIOUS
  <1> QED
    BY <1>1 DEF Nothing

(* What an evaluation does to the state of its watch. *)
LEMMA ProcessFacts ==
  ASSUME TypeOK, tick # None, NEW w \in Watches, NEW price \in Prices, NEW idea \in BOOLEAN
  PROVE  LET r == Process(w, price, idea)
             raw == Raw(file[w])
             levels == IF Stale(file[w]) THEN NoLevels ELSE file[w].levels
         IN /\ r \in ResultOf(w)
            /\ raw.seen \subseteq r.next.seen
            /\ \A o \in Order : Fill(o) \in r.alerts <=> o \in r.next.seen \ raw.seen
            /\ \A o \in r.next.seen \ raw.seen :
                 /\ tick.orders # None /\ tick.orders[o] # None
                 /\ tick.orders[o].kind \in StopKinds
                 /\ tick.orders[o].at > r.next.created - Grace
            /\ r.next.created = Anchor(file[w], tick.at)
            /\ r.next.levels.alerted \subseteq levels.alerted \cup r.alerts \cup r.mute
            /\ r.price = price
            /\ r.next.levels.streak > 0 =>
                 \/ levels.streak > 0 /\ (r.next.closed # None \/ Levels[w] = {} \/ Entry[w] = None)
                 \/ r.next.closed = None /\ Levels[w] # {} /\ Entry[w] # None /\ price > Entry[w]
            /\ \A l \in r.alerts \cap Levels[w] : l.type = "recovery" =>
                 /\ Entry[w] # None /\ price > Entry[w] /\ levels.streak > 0 /\ ~Stale(file[w])
                 /\ \E d \in levels.alerted : d.type = "drop"
  <1> DEFINE raw == Raw(file[w])
             stale == Stale(file[w])
             levels == IF stale THEN NoLevels ELSE file[w].levels
             kept == IF stale THEN Blank ELSE file[w]
             born == [raw EXCEPT !.created = Anchor(file[w], tick.at),
                                 !.levels = kept.levels, !.signal = kept.signal]
             reading == tick.orders # None /\ w \in Venue
             fills == IF reading THEN Candidates(w, tick.orders, born) ELSE {}
             full == {o \in fills : tick.orders[o].full}
             fires == IF Levels[w] # {} THEN Fires(w, price, born.levels) ELSE {}
             signals == w \in Signals /\ SignalFires(idea, born.signal, tick.at)
             seen == [born EXCEPT !.seen = @ \cup fills,
                           !.closed = IF full = {} THEN None ELSE CHOOSE o \in full : TRUE]
             silent == [Nothing EXCEPT !.price = price]
             r == Process(w, price, idea)
             next == [seen EXCEPT !.levels = IF Levels[w] = {} THEN @
                                             ELSE EvaluateLevels(w, price, @),
                                  !.signal = IF signals THEN tick.at ELSE @]
  <1>0. raw \in StateOf(w) /\ kept \in StateOf(w) /\ kept.levels = levels /\ levels \in LevelState(w)
    <2>1. raw \in StateOf(w) /\ kept \in StateOf(w)
      BY RawType DEF Stale, TypeOK
    <2>2. kept.levels = levels
      BY DEF Blank
    <2> QED
      BY <2>1, <2>2 DEF StateOf, StateWith, LevelState
  <1>1. Anchor(file[w], tick.at) \in Nat \cup {None} /\ tick.at \in Nat
    BY DEF Anchor, TypeOK, Ticks, StateOf, StateWith
  <1>2. /\ born \in StateOf(w) /\ born.seen = raw.seen /\ born.levels = levels
        /\ born.closed = raw.closed /\ born.created = Anchor(file[w], tick.at)
    BY <1>0, <1>1 DEF StateOf, StateWith
  <1>3. fills \subseteq Order \ raw.seen
    BY <1>2 DEF Candidates
  <1>4. fires \subseteq Levels[w]
    BY DEF Fires, Zones
  <1>5. /\ seen \in StateOf(w) /\ seen.seen = raw.seen \cup fills /\ seen.levels = levels
        /\ seen.created = Anchor(file[w], tick.at)
        /\ full # {} <=> seen.closed # None
    <2> DEFINE closed == IF full = {} THEN None ELSE CHOOSE o \in full : TRUE
               filled == raw.seen \cup fills
    <2>1. full # {} => (CHOOSE o \in full : TRUE) \in Order
      BY <1>3
    <2>2. closed \in Order \cup {None}
      BY <2>1
    <2>3. (full # {}) <=> (closed # None)
      BY <2>1, NoneAssumption
    <2>4. seen = [born EXCEPT !.seen = filled, !.closed = closed]
      BY <1>2
    <2>5. filled \in SUBSET Order
      BY <1>0, <1>3 DEF StateOf, StateWith
    <2>6. born \in StateOf(w) /\ born.levels = levels /\ born.created = Anchor(file[w], tick.at)
      BY <1>2
    <2> HIDE DEF full, fills, born, closed, seen, levels, raw, filled
    <2>7. seen.seen = filled /\ seen.closed = closed /\ seen.levels = born.levels
          /\ seen.created = born.created
      BY <2>4, <2>6 DEF StateOf, StateWith
    <2>8. seen \in StateOf(w)
      BY <2>2, <2>4, <2>5, <2>6 DEF StateOf, StateWith
    <2> QED
      BY <2>3, <2>6, <2>7, <2>8 DEF filled
  <1>6. Levels[w] # {} => /\ EvaluateLevels(w, price, levels) \in LevelState(w)
                          /\ EvaluateLevels(w, price, levels).alerted = levels.alerted \cup fires
                          /\ fires = Fires(w, price, levels)
    BY <1>0, <1>2, LevelFacts
  <1>7. /\ next \in StateOf(w) /\ next.seen = seen.seen /\ next.created = seen.created
        /\ next.closed = seen.closed
        /\ next.levels = IF Levels[w] = {} THEN levels ELSE EvaluateLevels(w, price, levels)
    <2> DEFINE after == IF Levels[w] = {} THEN levels ELSE EvaluateLevels(w, price, levels)
               signal == IF signals THEN tick.at ELSE seen.signal
    <2>1. next = [seen EXCEPT !.levels = after, !.signal = signal]
      BY <1>5, ZenonT(40)
    <2>2. after \in LevelState(w)
      BY <1>0, <1>6
    <2>3. signal \in Nat \cup {None}
      BY <1>1, <1>5 DEF StateOf, StateWith
    <2>4. after = IF Levels[w] = {} THEN levels ELSE EvaluateLevels(w, price, levels)
      OBVIOUS
    <2> HIDE DEF seen, after, signal, next, levels
    <2> QED
      BY <1>5, <2>1, <2>2, <2>3, <2>4 DEF StateOf, StateWith, LevelState
  <1>8. /\ raw.closed # None => r = [silent EXCEPT !.next = born]
        /\ raw.closed = None /\ full # {} =>
             r = [silent EXCEPT !.next = seen, !.alerts = Loud(stale, fills, {})]
        /\ raw.closed = None /\ full = {} =>
             r = [next |-> next, alerts |-> Loud(stale, fills, fires),
                  mute |-> IF stale THEN fires ELSE {}, signal |-> signals /\ ~stale,
                  price |-> price]
    BY DEF Process
  <1>9. /\ raw.closed # None =>
             /\ r.next = born /\ r.alerts = {} /\ r.mute = {}
        /\ raw.closed = None /\ full # {} =>
             /\ r.next = seen /\ r.alerts = {Fill(o) : o \in fills} /\ r.mute = {}
        /\ raw.closed = None /\ full = {} =>
             /\ r.next = next /\ r.mute = IF stale THEN fires ELSE {}
             /\ r.alerts = {Fill(o) : o \in fills} \cup (IF stale THEN {} ELSE fires)
        /\ r.price = price /\ r.signal \in BOOLEAN
    <2>1. silent = [next |-> None, alerts |-> {}, mute |-> {}, signal |-> FALSE, price |-> price]
      BY Silent
    <2> DEFINE speaks == signals /\ ~stale
               mute == IF stale THEN fires ELSE {}
               loud == IF stale THEN {} ELSE fires
    <2>2. speaks \in BOOLEAN
      BY DEF SignalFires
    <2>6. raw.closed = None /\ full = {} =>
             r = [next |-> next, alerts |-> {Fill(o) : o \in fills} \cup loud, mute |-> mute,
                  signal |-> speaks, price |-> price]
      BY <1>8, Zenon DEF Loud
    <2> HIDE DEF born, seen, next, fills, fires, full, signals, stale, raw, r, silent, speaks
    <2> HIDE DEF mute, loud
    <2>3. CASE raw.closed # None
      BY <1>8, <2>1, <2>3
    <2>4. CASE raw.closed = None /\ full # {}
      BY <1>8, <2>1, <2>4, ZenonT(40) DEF Loud
    <2>5. CASE raw.closed = None /\ full = {}
      BY <2>2, <2>5, <2>6 DEF mute, loud
    <2> QED
      BY <2>3, <2>4, <2>5
  <1>10. next \in StateOf(w) /\ born \in StateOf(w) /\ seen \in StateOf(w)
    BY <1>2, <1>5, <1>7
  <1>11. /\ r.next \in StateOf(w) /\ r.alerts \subseteq Alerts(w) /\ r.mute \subseteq Levels[w]
         /\ r.signal \in BOOLEAN /\ r.price \in Int
    <2>1. {Fill(o) : o \in fills} \subseteq Alerts(w)
      BY <1>3 DEF Alerts
    <2>2. fires \subseteq Alerts(w)
      BY <1>4 DEF Alerts
    <2>3. price \in Int
      BY WatchdogAssumption
    <2> HIDE DEF born, seen, next, fills, fires, full, signals, stale, raw, r
    <2> QED
      BY <1>4, <1>9, <1>10, <2>1, <2>2, <2>3
  <1>12. r = [next |-> r.next, alerts |-> r.alerts, mute |-> r.mute, signal |-> r.signal,
              price |-> r.price]
    <2>1. silent = [next |-> None, alerts |-> {}, mute |-> {}, signal |-> FALSE, price |-> price]
      BY Silent
    <2> HIDE DEF born, seen, next, fills, fires, full, signals, stale, raw, r, silent
    <2> QED
      BY <1>8, <2>1
  <1>13. r \in ResultOf(w)
    <2> HIDE DEF r
    <2> QED
      BY <1>11, <1>12 DEF ResultOf
  <1>14. /\ raw.closed # None => r.next.seen = raw.seen /\ r.next.levels = levels
                                 /\ r.next.closed # None
         /\ raw.closed = None => r.next.seen = raw.seen \cup fills
         /\ raw.closed = None /\ full # {} => r.next.levels = levels /\ r.next.closed # None
         /\ raw.closed = None /\ full = {} => r.next.closed = None /\
              r.next.levels = IF Levels[w] = {} THEN levels ELSE EvaluateLevels(w, price, levels)
         /\ r.next.created = Anchor(file[w], tick.at)
    <2> HIDE DEF born, seen, next, fills, fires, full, signals, stale, raw, r, levels
    <2> QED
      BY <1>2, <1>5, <1>7, <1>9
  <1>15. \A o \in Order : Fill(o) \in r.alerts <=> o \in r.next.seen \ raw.seen
    <2>1. \A o \in Order : Fill(o) \notin fires
      BY <1>4, FillIsNoLevel
    <2>2. \A o, q : Fill(o) = Fill(q) => o = q
      BY DEF Fill
    <2> HIDE DEF born, seen, next, fills, fires, full, signals, stale, raw, r, levels, Fill
    <2> QED
      BY <1>3, <1>9, <1>14, <2>1, <2>2
  <1>16. \A o \in r.next.seen \ raw.seen :
            /\ tick.orders # None /\ tick.orders[o] # None
            /\ tick.orders[o].kind \in StopKinds
            /\ tick.orders[o].at > r.next.created - Grace
    <2>1. \A o \in fills :
            /\ tick.orders # None /\ tick.orders[o] # None
            /\ tick.orders[o].kind \in StopKinds
            /\ tick.orders[o].at > born.created - Grace
      BY DEF Candidates
    <2> HIDE DEF born, seen, next, fills, fires, full, signals, stale, raw, r, levels, StopKinds
    <2> QED
      BY <1>2, <1>14, <2>1
  <1>17. r.next.levels.alerted \subseteq levels.alerted \cup r.alerts \cup r.mute
    <2>1. r.next.levels = levels \/
            /\ Levels[w] # {} /\ raw.closed = None /\ full = {}
            /\ r.next.levels = EvaluateLevels(w, price, levels)
      BY <1>14
    <2> HIDE DEF born, seen, next, fills, fires, full, signals, stale, raw, r, levels
    <2>2. raw.closed = None /\ full = {} => fires \subseteq r.alerts \cup r.mute
      BY <1>9
    <2> QED
      BY <1>6, <2>1, <2>2
  <1>18. r.next.levels.streak > 0 =>
           \/ levels.streak > 0 /\ (r.next.closed # None \/ Levels[w] = {} \/ Entry[w] = None)
           \/ r.next.closed = None /\ Levels[w] # {} /\ Entry[w] # None /\ price > Entry[w]
    <2> HIDE DEF born, seen, next, fills, fires, full, signals, stale, raw, r, levels
    <2>1. EvaluateLevels(w, price, levels).streak > 0 =>
              IF Entry[w] = None THEN levels.streak > 0 ELSE price > Entry[w]
      BY <1>0, LevelFacts
    <2> QED
      BY <1>14, <2>1
  <1>19. \A l \in r.alerts \cap Levels[w] : l.type = "recovery" =>
            /\ Entry[w] # None /\ price > Entry[w] /\ levels.streak > 0 /\ ~stale
            /\ \E d \in levels.alerted : d.type = "drop"
    <2>1. \A l \in r.alerts \cap Levels[w] : l \in fires /\ ~stale
      <3>1. \A o : Fill(o) \notin Levels[w]
        BY FillIsNoLevel
      <3> HIDE DEF born, seen, next, fills, fires, full, signals, stale, raw, r, levels, Fill
      <3> QED
        BY <1>9, <3>1
    <2>2. fires # {} => fires = Fires(w, price, levels)
      BY <1>6
    <2> HIDE DEF born, seen, next, fills, fires, full, signals, stale, raw, r, levels
    <2>3. \A l \in Fires(w, price, levels) : l.type = "recovery" =>
              /\ Entry[w] # None /\ price > Entry[w] /\ levels.streak > 0
              /\ \E d \in levels.alerted : d.type = "drop"
      BY <1>0, LevelFacts
    <2> QED
      BY <2>1, <2>2, <2>3
  <1>20. r.price = price /\ r.next.created = Anchor(file[w], tick.at)
    BY <1>9, <1>14, Zenon
  <1>21. raw.seen \subseteq r.next.seen
    <2> HIDE DEF born, seen, next, fills, fires, full, signals, stale, raw, r, levels
    <2> QED
      BY <1>14
  <1> HIDE DEF r, raw, levels
  <1> USE DEF stale
  <1> QED
    BY <1>13, <1>15, <1>16, <1>17, <1>18, <1>19, <1>20, <1>21, Zenon DEF r, raw, levels

(* The watch a tick is working on. *)
LEMMA HeadIsWatch ==
  ASSUME TypeOK, tick # None, tick.todo # <<>>
  PROVE  Head(tick.todo) \in Watches /\ Tail(tick.todo) \in Seq(Watches) /\ tick \in Ticks
  BY HeadTailProperties DEF TypeOK, Ticks

(* Values handed on by the handlers have the types of the variables. *)
LEMMA ResultIsHeld ==
  ASSUME NEW w \in Watches, NEW r \in ResultOf(w)
  PROVE  /\ r \in [next : StateWith(AllLevels) \cup {None},
                   alerts : SUBSET UNION {Alerts(x) : x \in Watches},
                   mute : SUBSET AllLevels, signal : BOOLEAN, price : Int \cup {None}]
         /\ {<<w, a>> : a \in r.alerts} \subseteq Watches \X UNION {Alerts(x) : x \in Watches}
         /\ Speaks(r) \in BOOLEAN
  <1>1. Levels[w] \subseteq AllLevels
    BY DEF AllLevels
  <1>2. StateOf(w) \subseteq StateWith(AllLevels)
    BY <1>1 DEF StateOf, StateWith
  <1>3. Alerts(w) \subseteq UNION {Alerts(x) : x \in Watches}
    OBVIOUS
  <1>4. SUBSET Alerts(w) \subseteq SUBSET UNION {Alerts(x) : x \in Watches}
    BY <1>3
  <1>5. SUBSET Levels[w] \subseteq SUBSET AllLevels
    BY <1>1
  <1>6. r.alerts \subseteq Alerts(w) /\ r.signal \in BOOLEAN
    BY DEF ResultOf
  <1> QED
    BY <1>2, <1>4, <1>5, <1>6, <1>3 DEF ResultOf, Speaks

(* Between two watches a tick holds no result.                             *)
LEMMA NothingIsHeld ==
  Nothing \in [next : StateWith(AllLevels) \cup {None},
               alerts : SUBSET UNION {Alerts(x) : x \in Watches},
               mute : SUBSET AllLevels, signal : BOOLEAN, price : Int \cup {None}]
  BY DEF Nothing

(* The tick goes on with its next watch.                                   *)
LEMMA DoneType ==
  ASSUME TypeOK, tick # None, tick.todo # <<>>
  PROVE  /\ Done(tick) \in Ticks
         /\ Done(tick).step = "watch" /\ Done(tick).at = tick.at /\ Done(tick).out = tick.out
         /\ Done(tick).orders = tick.orders /\ Done(tick).failed = tick.failed
         /\ Done(tick).asked = tick.asked /\ Done(tick).todo = Tail(tick.todo)
  BY HeadIsWatch, NothingIsHeld DEF Done, Ticks

(* What the process flushes when it ends is counted, up to two.            *)
LEMMA DeliverFacts ==
  ASSUME TypeOK, tick # None, Deliver
  PROVE  /\ DOMAIN heard' = Watches
         /\ \A w \in Watches : heard'[w] \in [Alerts(w) -> 0..2]
         /\ \A w \in Watches : \A a \in Alerts(w) :
               heard'[w][a] = IF <<w, a>> \in tick.out
                              THEN IF heard[w][a] = 0 THEN 1 ELSE 2
                              ELSE heard[w][a]
  <1>1. \A w \in Watches : \A a \in Alerts(w) :
          heard'[w][a] = Min({2, heard[w][a] + IF <<w, a>> \in tick.out THEN 1 ELSE 0})
    BY DEF Deliver
  <1>2. \A w \in Watches : \A a \in Alerts(w) : heard[w][a] \in 0..2
    BY DEF TypeOK
  <1>3. \A w \in Watches : \A a \in Alerts(w) :
               heard'[w][a] = IF <<w, a>> \in tick.out
                              THEN IF heard[w][a] = 0 THEN 1 ELSE 2
                              ELSE heard[w][a]
    <2> TAKE w \in Watches
    <2> TAKE a \in Alerts(w)
    <2>1. heard[w][a] \in 0..2
      BY <1>2
    <2>2. CASE <<w, a>> \in tick.out
      <3>1. heard'[w][a] = Min({2, heard[w][a] + 1})
        BY <1>1, <2>2
      <3> QED
        BY <2>1, <2>2, <3>1, MinOfTwo
    <2>3. CASE ~(<<w, a>> \in tick.out)
      <3>1. heard'[w][a] = Min({2, heard[w][a] + 0})
        BY <1>1, <2>3
      <3> QED
        BY <2>1, <2>3, <3>1, MinOfTwo
    <2> QED
      BY <2>2, <2>3
  <1>4. \A w \in Watches : \A a \in Alerts(w) : heard'[w][a] \in 0..2
    <2> TAKE w \in Watches
    <2> TAKE a \in Alerts(w)
    <2>1. heard[w][a] \in 0..2
      BY <1>2
    <2>2. heard'[w][a] \in {heard[w][a], 1, 2}
      BY <1>3
    <2> QED
      BY <2>1, <2>2
  <1>5. DOMAIN heard' = Watches /\ \A w \in Watches : heard'[w] = [a \in Alerts(w) |-> heard'[w][a]]
    BY DEF Deliver
  <1>6. \A w \in Watches : heard'[w] \in [Alerts(w) -> 0..2]
    BY <1>4, <1>5
  <1> QED
    BY <1>3, <1>5, <1>6

(* The record of a watch a tick has just looked at.                        *)
LEMMA BornType ==
  ASSUME TypeOK, tick # None, NEW w \in Watches
  PROVE  /\ Born(w) \in [born : Nat \cup {None}, fetches : Seq(BOOLEAN),
                         above : BOOLEAN, died : BOOLEAN]
         /\ Born(w).born = IF past[w].born = None THEN tick.at ELSE past[w].born
         /\ Born(w).fetches = past[w].fetches /\ Born(w).above = past[w].above
         /\ Born(w).died = past[w].died
  <1> DEFINE first == IF past[w].born = None THEN tick.at ELSE past[w].born
  <1>1. first \in Nat \cup {None}
    BY DEF TypeOK, Ticks
  <1>2. Born(w) = [past[w] EXCEPT !.born = first]
    BY DEF Born
  <1>3. past[w] \in [born : Nat \cup {None}, fetches : Seq(BOOLEAN),
                           above : BOOLEAN, died : BOOLEAN]
    BY DEF TypeOK
  <1>4. first = IF past[w].born = None THEN tick.at ELSE past[w].born
    OBVIOUS
  <1> HIDE DEF first
  <1> QED
    BY <1>1, <1>2, <1>3, <1>4

(* The type invariant holds at first, and each handler keeps it.           *)
LEMMA TypeInit == Init => TypeOK
  <1> SUFFICES ASSUME Init PROVE TypeOK
    OBVIOUS
  <1>1. past \in [Watches -> [born : Nat \cup {None}, fetches : Seq(BOOLEAN),
                              above : BOOLEAN, died : BOOLEAN]]
    BY EmptySeq DEF Init, Unborn
  <1>2. \A w \in Watches : heard[w] \in [Alerts(w) -> 0..2]
    BY DEF Init
  <1> QED
    BY <1>1, <1>2 DEF Init, TypeOK

(* A tick starts.                                                          *)
LEMMA StartType ==
  ASSUME TypeOK, NEW todo \in Seq(Watches), NEW read \in BOOLEAN, Start(todo, read)
  PROVE  tick' \in Ticks /\ TypeOK'
  <1> DEFINE orders == IF read /\ Range(todo) \cap Venue # {} THEN venue ELSE None
  <1>1. orders \in {None} \cup [Order -> ClosedOrders \cup {None}]
    BY DEF TypeOK
  <1>2. tick' = [step |-> "watch", at |-> now, todo |-> todo, asked |-> todo, orders |-> orders,
                 out |-> {}, failed |-> 0, told |-> FALSE, held |-> Nothing]
    BY DEF Start
  <1>3. tick' \in Ticks /\ tick'.step = "watch"
    <2> HIDE DEF orders
    <2>1. now \in Nat
      BY DEF TypeOK
    <2> QED
      BY <1>1, <1>2, <2>1, NothingIsHeld DEF Ticks
  <1> QED
    BY <1>3 DEF Start, TypeOK

(* A price arrived.                                                        *)
LEMMA EvaluateType ==
  ASSUME TypeOK, NEW price \in Prices, NEW idea \in BOOLEAN, Evaluate(price, idea)
  PROVE  tick' \in Ticks /\ TypeOK'
  <1> DEFINE w == Head(tick.todo)
             r == Process(w, price, idea)
             out == tick.out \cup {<<w, a>> : a \in r.alerts}
             told == tick.told \/ Speaks(r)
  <1>1. tick # None /\ tick.todo # <<>> /\ w \in Watches /\ tick \in Ticks
    BY HeadIsWatch DEF Evaluate
  <1>2. r \in ResultOf(w)
    BY <1>1, ProcessFacts
  <1>3. tick' = [tick EXCEPT !.step = "save", !.held = r, !.told = told, !.out = out]
    BY DEF Evaluate
  <1>4. /\ r \in [next : StateWith(AllLevels) \cup {None},
                 alerts : SUBSET UNION {Alerts(x) : x \in Watches},
                 mute : SUBSET AllLevels, signal : BOOLEAN, price : Int \cup {None}]
        /\ out \in SUBSET (Watches \X UNION {Alerts(x) : x \in Watches})
    <2> HIDE DEF r, w
    <2>1. tick.out \in SUBSET (Watches \X UNION {Alerts(x) : x \in Watches})
      BY <1>1 DEF Ticks
    <2> QED
      BY <1>1, <1>2, <2>1, ResultIsHeld
  <1>5. told \in BOOLEAN
    BY DEF Speaks
  <1> HIDE DEF r, w, out, told
  <1>6. tick' \in Ticks /\ tick'.step = "save" /\ tick'.held = r /\ tick'.todo = tick.todo
    BY <1>1, <1>3, <1>4, <1>5 DEF Ticks
  <1>7. Born(w) \in [born : Nat \cup {None}, fetches : Seq(BOOLEAN),
                         above : BOOLEAN, died : BOOLEAN]
    BY <1>1, BornType
  <1>8. past' = [past EXCEPT ![w] = Born(w)]
    BY DEF Evaluate, w
  <1>9. past' \in [Watches -> [born : Nat \cup {None}, fetches : Seq(BOOLEAN),
                         above : BOOLEAN, died : BOOLEAN]]
    BY <1>1, <1>7, <1>8 DEF TypeOK
  <1>10. tick'.held \in ResultOf(Head(tick'.todo)) /\ tick'.todo # <<>>
    BY <1>1, <1>2, <1>6 DEF w
  <1> QED
    BY <1>6, <1>9, <1>10 DEF Evaluate, TypeOK

(* A price did not arrive.                                                 *)
LEMMA FetchFailsType ==
  ASSUME TypeOK, FetchFails
  PROVE  tick' \in Ticks /\ TypeOK'
  <1> DEFINE w == Head(tick.todo)
  <1>1. tick # None /\ tick.todo # <<>> /\ w \in Watches /\ tick \in Ticks
    BY HeadIsWatch DEF FetchFails
  <1>2. tick' \in Ticks /\ tick'.step = "failed" /\ tick'.todo = tick.todo
    BY <1>1 DEF FetchFails, Ticks
  <1> HIDE DEF w
  <1>7. Born(w) \in [born : Nat \cup {None}, fetches : Seq(BOOLEAN),
                         above : BOOLEAN, died : BOOLEAN]
    BY <1>1, BornType
  <1>8. past' = [past EXCEPT ![w] = Born(w)]
    BY DEF FetchFails, w
  <1>9. past' \in [Watches -> [born : Nat \cup {None}, fetches : Seq(BOOLEAN),
                         above : BOOLEAN, died : BOOLEAN]]
    BY <1>1, <1>7, <1>8 DEF TypeOK
  <1> QED
    BY <1>1, <1>2, <1>9 DEF FetchFails, TypeOK

(* The failure is recorded in the file.                                    *)
LEMMA RecordFailureType ==
  ASSUME TypeOK, RecordFailure
  PROVE  tick' \in Ticks /\ TypeOK'
  <1> DEFINE w == Head(tick.todo)
             s == Raw(file[w])
             window == Cap(Append(s.window, TRUE), Lookback)
             fetches == Cap(Append(past[w].fetches, TRUE), Lookback)
  <1>1. tick # None /\ tick.todo # <<>> /\ w \in Watches /\ tick \in Ticks
    BY HeadIsWatch DEF RecordFailure, TypeOK
  <1>2. s \in StateOf(w) /\ Lookback \in Nat
    BY <1>1, RawType, WatchdogAssumption
  <1>3. window \in Seq(BOOLEAN) /\ fetches \in Seq(BOOLEAN)
    <2>1. s.window \in Seq(BOOLEAN) /\ past[w].fetches \in Seq(BOOLEAN)
      BY <1>1, <1>2 DEF StateOf, StateWith, TypeOK
    <2> HIDE DEF s, w
    <2> QED
      BY <1>2, <2>1, CapType
  <1>4. /\ file' = [file EXCEPT ![w] = [s EXCEPT !.window = window, !.updated = now]]
        /\ past' = [past EXCEPT ![w].fetches = fetches]
    BY Zenon DEF RecordFailure
  <1>5. tick' = [Done(tick) EXCEPT !.failed = @ + 1]
    BY DEF RecordFailure
  <1>6. tick' \in Ticks /\ tick'.step = "watch"
    <2> DEFINE d == Done(tick)
               count == tick.failed + 1
    <2>1. d \in Ticks /\ d.step = "watch"
      BY <1>1, DoneType
    <2>2. tick' = [d EXCEPT !.failed = count]
      BY <1>1, <1>5, DoneType
    <2>3. count \in Nat
      BY <1>1 DEF Ticks
    <2> HIDE DEF w, s, window, fetches, d, count
    <2> QED
      BY <2>1, <2>2, <2>3 DEF Ticks
  <1> HIDE DEF w, s, window, fetches
  <1>7. [s EXCEPT !.window = window, !.updated = now] \in StateOf(w)
    BY <1>2, <1>3 DEF StateOf, StateWith, TypeOK
  <1>8. DOMAIN file' = Watches /\ \A x \in Watches : file'[x] \in StateOf(x) \cup {None}
    BY <1>1, <1>4, <1>7 DEF TypeOK
  <1>9. past' \in [Watches -> [born : Nat \cup {None}, fetches : Seq(BOOLEAN),
                         above : BOOLEAN, died : BOOLEAN]]
    BY <1>1, <1>3, <1>4 DEF TypeOK
  <1> QED
    BY <1>6, <1>8, <1>9 DEF RecordFailure, TypeOK

(* The new state is saved.                                                 *)
LEMMA SaveType ==
  ASSUME TypeOK, Save
  PROVE  tick' \in Ticks /\ TypeOK'
  <1> DEFINE w == Head(tick.todo)
             r == tick.held
             window == AfterSuccess(file[w])
             fetches == Cap(Append(past[w].fetches, FALSE), Lookback)
             above == IF r.next.closed # None THEN past[w].above
                      ELSE Entry[w] # None /\ r.price > Entry[w]
  <1>1. tick # None /\ tick.todo # <<>> /\ w \in Watches /\ tick \in Ticks /\ r \in ResultOf(w)
    BY HeadIsWatch DEF Save, TypeOK
  <1>2. Raw(file[w]) \in StateOf(w) /\ Lookback \in Nat
    BY <1>1, RawType, WatchdogAssumption
  <1>3. window \in Seq(BOOLEAN) /\ fetches \in Seq(BOOLEAN)
    <2>1. Raw(file[w]).window \in Seq(BOOLEAN) /\ past[w].fetches \in Seq(BOOLEAN)
      BY <1>1, <1>2 DEF StateOf, StateWith, TypeOK
    <2> HIDE DEF w
    <2> QED
      BY <1>2, <2>1, CapType DEF AfterSuccess
  <1>4. above \in BOOLEAN
    BY <1>1 DEF TypeOK
  <1>5. /\ file' = [file EXCEPT ![w] = [r.next EXCEPT !.window = window, !.updated = now]]
        /\ past' = [past EXCEPT ![w].fetches = fetches, ![w].above = above]
        /\ muted' = [muted EXCEPT ![w] = @ \cup r.mute]
    BY Zenon DEF Save
  <1>6. tick' \in Ticks /\ tick'.step = "watch"
    BY <1>1, DoneType DEF Save
  <1>7. r.next \in StateOf(w) /\ r.mute \subseteq Levels[w]
    BY <1>1 DEF ResultOf
  <1> HIDE DEF w, r, window, fetches, above
  <1>8. [r.next EXCEPT !.window = window, !.updated = now] \in StateOf(w)
    BY <1>3, <1>7 DEF StateOf, StateWith, TypeOK
  <1>9. DOMAIN file' = Watches /\ \A x \in Watches : file'[x] \in StateOf(x) \cup {None}
    BY <1>1, <1>5, <1>8 DEF TypeOK
  <1>10. past' \in [Watches -> [born : Nat \cup {None}, fetches : Seq(BOOLEAN),
                         above : BOOLEAN, died : BOOLEAN]]
    <2>1. past[w] \in [born : Nat \cup {None}, fetches : Seq(BOOLEAN),
                         above : BOOLEAN, died : BOOLEAN]
      BY <1>1 DEF TypeOK
    <2>2. [[past[w] EXCEPT !.fetches = fetches] EXCEPT !.above = above]
            \in [born : Nat \cup {None}, fetches : Seq(BOOLEAN),
                         above : BOOLEAN, died : BOOLEAN]
      BY <1>3, <1>4, <2>1
    <2>3. past' = [past EXCEPT ![w] = [[past[w] EXCEPT !.fetches = fetches] EXCEPT !.above = above]]
      BY <1>1, <1>5 DEF TypeOK
    <2> QED
      BY <1>1, <2>2, <2>3 DEF TypeOK
  <1>11. DOMAIN muted' = Watches /\ \A x \in Watches : muted'[x] \subseteq Levels[x]
    BY <1>1, <1>5, <1>7 DEF TypeOK
  <1> QED
    BY <1>6, <1>9, <1>10, <1>11 DEF Save, TypeOK

(* Every step keeps the type invariant.                                    *)
LEMMA TypeStep == TypeOK /\ [Next]_vars => TypeOK'
  <1> SUFFICES ASSUME TypeOK, [Next]_vars PROVE TypeOK'
    OBVIOUS
  <1>0. \A c \in Configs : c \in Seq(Watches)
    BY WatchdogAssumption
  <1>1. ASSUME NEW todo \in Seq(Watches), NEW read \in BOOLEAN, Start(todo, read)
        PROVE  TypeOK'
    BY <1>1, StartType
  <1>2. ASSUME NEW price \in Prices, NEW idea \in BOOLEAN, Evaluate(price, idea)
        PROVE  TypeOK'
    BY <1>2, EvaluateType
  <1>3. CASE FetchFails
    BY <1>3, FetchFailsType
  <1>4. CASE RecordFailure
    BY <1>4, RecordFailureType
  <1>5. CASE Save
    BY <1>5, SaveType
  <1>6. CASE Finish
    <2>1. code' \in {None} \cup 0..2
      BY <1>6 DEF Finish
    <2>2. /\ DOMAIN heard' = Watches /\ \A w \in Watches : heard'[w] \in [Alerts(w) -> 0..2]
      BY <1>6, DeliverFacts DEF Finish
    <2> QED
      BY <1>6, <2>1, <2>2 DEF Finish, TypeOK
  <1>7. CASE SaveFails
    <2> DEFINE w == Head(tick.todo)
    <2>1. tick # None /\ tick.todo # <<>> /\ w \in Watches
      BY <1>7, HeadIsWatch DEF SaveFails, TypeOK
    <2>2. DOMAIN heard' = Watches /\ \A x \in Watches : heard'[x] \in [Alerts(x) -> 0..2]
      BY <1>7, DeliverFacts DEF SaveFails
    <2>3. past' = [past EXCEPT ![w].died = TRUE]
      BY <1>7 DEF SaveFails
    <2> HIDE DEF w
    <2>4. past' \in [Watches -> [born : Nat \cup {None}, fetches : Seq(BOOLEAN),
                           above : BOOLEAN, died : BOOLEAN]]
      BY <2>1, <2>3 DEF TypeOK
    <2>5. mishaps' \in Nat
      BY <1>7 DEF SaveFails, TypeOK
    <2> QED
      BY <1>7, <2>2, <2>4, <2>5 DEF SaveFails, TypeOK
  <1>8. CASE Kill
    <2>1. DOMAIN lost' = Watches /\ \A w \in Watches : lost'[w] \subseteq Alerts(w)
      BY <1>8 DEF Kill, TypeOK
    <2>2. mishaps' \in Nat
      BY <1>8 DEF Kill, TypeOK
    <2> QED
      BY <1>8, <2>1, <2>2 DEF Kill, TypeOK
  <1>9. ASSUME NEW w \in Watches, ClearMarker(w) PROVE TypeOK'
    <2>1. [file[w] EXCEPT !.closed = None] \in StateOf(w)
      BY <1>9 DEF ClearMarker, TypeOK, StateOf, StateWith
    <2>2. mishaps' \in Nat
      BY <1>9 DEF ClearMarker, TypeOK
    <2>3. DOMAIN file' = Watches /\ \A x \in Watches : file'[x] \in StateOf(x) \cup {None}
      BY <1>9, <2>1 DEF ClearMarker, TypeOK
    <2> QED
      BY <1>9, <2>2, <2>3 DEF ClearMarker, TypeOK
  <1>10. ASSUME NEW w \in Watches, Recreate(w) PROVE TypeOK'
    <2>1. mishaps' \in Nat
      BY <1>10 DEF Recreate, TypeOK
    <2>2. DOMAIN file' = Watches /\ \A x \in Watches : file'[x] \in StateOf(x) \cup {None}
      BY <1>10 DEF Recreate, TypeOK
    <2>3. past' \in [Watches -> [born : Nat \cup {None}, fetches : Seq(BOOLEAN),
                           above : BOOLEAN, died : BOOLEAN]]
      BY <1>10, EmptySeq DEF Recreate, Unborn, TypeOK
    <2>4. DOMAIN heard' = Watches /\ \A x \in Watches : heard'[x] \in [Alerts(x) -> 0..2]
      BY <1>10 DEF Recreate, TypeOK
    <2>5. /\ DOMAIN lost' = Watches /\ \A x \in Watches : lost'[x] \subseteq Alerts(x)
          /\ DOMAIN muted' = Watches /\ \A x \in Watches : muted'[x] \subseteq Levels[x]
      BY <1>10 DEF Recreate, TypeOK
    <2> QED
      BY <1>10, <2>1, <2>2, <2>3, <2>4, <2>5 DEF Recreate, TypeOK
  <1>11. ASSUME NEW o \in Order, Execute(o) PROVE TypeOK'
    <2>1. PICK r \in Orders : venue' = [venue EXCEPT ![o] = ClosedOrder(r)]
      BY <1>11 DEF Execute
    <2>2. ClosedOrder(r) \in ClosedOrders
      BY <2>1, WatchdogAssumption DEF ClosedOrder, ClosedOrders, TypeOK
    <2>3. venue' \in [Order -> ClosedOrders \cup {None}]
      BY <2>1, <2>2 DEF TypeOK
    <2> QED
      BY <1>11, <2>3 DEF Execute, TypeOK
  <1>12. CASE Pass
    BY <1>12 DEF Pass, TypeOK
  <1>13. CASE UNCHANGED vars
    BY <1>13 DEF vars, TypeOK
  <1>14. \A w \in Range(config) : config \in Seq(Watches) /\ <<w>> \in Seq(Watches)
    <2>1. config \in Seq(Watches)
      BY <1>0 DEF TypeOK
    <2> QED
      BY <2>1 DEF Range
  <1>15. config \in Seq(Watches)
    BY <1>0 DEF TypeOK
  <1> QED
    BY <1>1, <1>2, <1>3, <1>4, <1>5, <1>6, <1>7, <1>8, <1>9, <1>10, <1>11, <1>12, <1>13, <1>14, <1>15
       DEF Next

(* Evaluate, for the watch at the head of the tick. *)
LEMMA EvaluateFacts ==
  ASSUME TypeOK, NEW price \in Prices, NEW idea \in BOOLEAN, Evaluate(price, idea),
         NEW w, w = Head(tick.todo), NEW r, r = Process(w, price, idea)
  PROVE  /\ tick # None /\ tick' # None /\ w \in Watches /\ w = Head(tick'.todo)
         /\ tick.step = "watch" /\ tick'.step = "save" /\ tick'.held = r
         /\ tick'.out = tick.out \cup {<<w, a>> : a \in r.alerts}
         /\ tick'.at = tick.at /\ tick'.orders = tick.orders
         /\ \A x \in Watches : /\ past'[x].fetches = past[x].fetches
                               /\ past'[x].above = past[x].above
                               /\ past'[x].died = past[x].died
                               /\ x # w => past'[x].born = past[x].born
         /\ past'[w].born = IF past[w].born = None THEN tick.at ELSE past[w].born
         /\ UNCHANGED <<now, venue, file, code, heard, lost, muted>>
  <1>1. tick # None /\ tick.todo # <<>> /\ w \in Watches /\ tick \in Ticks
    BY HeadIsWatch DEF Evaluate
  <1> DEFINE out == tick.out \cup {<<w, a>> : a \in r.alerts}
             told == tick.told \/ Speaks(r)
  <1>2. tick' = [tick EXCEPT !.step = "save", !.held = r, !.told = told, !.out = out]
    BY DEF Evaluate
  <1>3. /\ tick'.step = "save" /\ tick'.held = r /\ tick'.todo = tick.todo /\ tick'.at = tick.at
        /\ tick'.orders = tick.orders /\ tick'.out = out
    <2> HIDE DEF out, told
    <2> QED
      BY <1>1, <1>2 DEF Ticks
  <1>4. tick' # None
    BY EvaluateType, NoneAssumption
  <1>5. past' = [past EXCEPT ![w] = Born(w)]
    BY DEF Evaluate
  <1>6. \A x \in Watches : past'[x] = IF x = w THEN Born(w) ELSE past[x]
    BY <1>1, <1>5 DEF TypeOK
  <1> HIDE DEF out, told
  <1>7. tick'.out = tick.out \cup {<<w, a>> : a \in r.alerts}
    BY <1>3 DEF out
  <1>8. tick.step = "watch" /\ UNCHANGED <<now, venue, file, code, heard, lost, muted>>
    BY DEF Evaluate
  <1> QED
    BY <1>1, <1>3, <1>4, <1>6, <1>7, <1>8, BornType

(* FetchFails, for the watch at the head of the tick.                      *)
LEMMA FetchFailsFacts ==
  ASSUME TypeOK, FetchFails, NEW w, w = Head(tick.todo)
  PROVE  /\ tick # None /\ tick' # None /\ w \in Watches /\ w = Head(tick'.todo)
         /\ tick.step = "watch" /\ tick'.step = "failed"
         /\ tick'.out = tick.out /\ tick'.at = tick.at /\ tick'.orders = tick.orders
         /\ \A x \in Watches : /\ past'[x].fetches = past[x].fetches
                               /\ past'[x].above = past[x].above
                               /\ past'[x].died = past[x].died
                               /\ x # w => past'[x].born = past[x].born
         /\ past'[w].born = IF past[w].born = None THEN tick.at ELSE past[w].born
         /\ UNCHANGED <<now, venue, file, code, heard, lost, muted>>
  <1>1. tick # None /\ tick.todo # <<>> /\ w \in Watches /\ tick \in Ticks
    BY HeadIsWatch DEF FetchFails
  <1>2. tick' = [tick EXCEPT !.step = "failed"]
    BY DEF FetchFails
  <1>3. /\ tick'.step = "failed" /\ tick'.todo = tick.todo /\ tick'.at = tick.at
        /\ tick'.orders = tick.orders /\ tick'.out = tick.out
    BY <1>1, <1>2 DEF Ticks
  <1>4. tick' # None
    BY FetchFailsType, NoneAssumption
  <1>5. past' = [past EXCEPT ![w] = Born(w)]
    BY DEF FetchFails
  <1>6. \A x \in Watches : past'[x] = IF x = w THEN Born(w) ELSE past[x]
    BY <1>1, <1>5 DEF TypeOK
  <1>8. tick.step = "watch" /\ UNCHANGED <<now, venue, file, code, heard, lost, muted>>
    BY DEF FetchFails
  <1> QED
    BY <1>1, <1>3, <1>4, <1>6, <1>8, BornType

(* RecordFailure, for the watch at the head of the tick.                   *)
LEMMA RecordFailureFacts ==
  ASSUME TypeOK, RecordFailure, NEW w, w = Head(tick.todo)
  PROVE  /\ tick # None /\ tick' # None /\ w \in Watches
         /\ tick.step = "failed" /\ tick'.step = "watch"
         /\ tick'.out = tick.out /\ tick'.at = tick.at /\ tick'.orders = tick.orders
         /\ \A x \in Watches : /\ past'[x].above = past[x].above
                               /\ past'[x].died = past[x].died
                               /\ past'[x].born = past[x].born
                               /\ x # w => past'[x].fetches = past[x].fetches /\ file'[x] = file[x]
         /\ past[w].fetches = Raw(file[w]).window => past'[w].fetches = file'[w].window
         /\ file'[w] # None
         /\ file'[w].updated = now
         /\ file'[w].seen = Raw(file[w]).seen /\ file'[w].levels = Raw(file[w]).levels
         /\ file'[w].created = Raw(file[w]).created
         /\ UNCHANGED <<now, venue, code, heard, lost, muted>>
  <1> DEFINE s == Raw(file[w])
             window == Cap(Append(s.window, TRUE), Lookback)
             fetches == Cap(Append(past[w].fetches, TRUE), Lookback)
             d == Done(tick)
             count == tick.failed + 1
  <1>1. tick # None /\ tick.todo # <<>> /\ w \in Watches /\ tick \in Ticks
    BY HeadIsWatch DEF RecordFailure, TypeOK
  <1>2. tick' # None
    BY RecordFailureType, NoneAssumption
  <1>3. s \in StateOf(w)
    BY <1>1, RawType
  <1>4. d \in Ticks /\ d.step = "watch" /\ d.at = tick.at /\ d.orders = tick.orders
        /\ d.out = tick.out /\ d.failed = tick.failed
    BY <1>1, DoneType
  <1>5. tick' = [d EXCEPT !.failed = count]
    BY <1>4 DEF RecordFailure
  <1>6. /\ file' = [file EXCEPT ![w] = [s EXCEPT !.window = window, !.updated = now]]
        /\ past' = [past EXCEPT ![w].fetches = fetches]
    BY Zenon DEF RecordFailure
  <1>7. tick.step = "failed" /\ UNCHANGED <<now, venue, code, heard, lost, muted>>
    BY DEF RecordFailure
  <1> HIDE DEF s, window, fetches, d, count
  <1>8. tick'.step = "watch" /\ tick'.at = tick.at /\ tick'.orders = tick.orders /\ tick'.out = tick.out
    BY <1>4, <1>5 DEF Ticks
  <1>9. /\ \A x \in Watches : x # w => file'[x] = file[x]
        /\ file'[w] = [s EXCEPT !.window = window, !.updated = now]
    BY <1>1, <1>6 DEF TypeOK
  <1>10. /\ file'[w].window = window /\ file'[w].updated = now /\ file'[w].seen = s.seen
         /\ file'[w].levels = s.levels /\ file'[w].created = s.created
    BY <1>3, <1>9 DEF StateOf, StateWith
  <1>11. file'[w] # None
    <2>1. window \in Seq(BOOLEAN)
      <3>1. s.window \in Seq(BOOLEAN) /\ Lookback \in Nat
        BY <1>3, WatchdogAssumption DEF StateOf, StateWith
      <3> QED
        BY <3>1, CapType DEF window
    <2>2. file'[w] \in StateOf(w)
      BY <1>3, <1>9, <2>1 DEF StateOf, StateWith, TypeOK
    <2> QED
      BY <1>1, <2>2, NoneAssumption
  <1>12. \A x \in Watches : /\ past'[x].above = past[x].above
                            /\ past'[x].died = past[x].died
                            /\ past'[x].born = past[x].born
                            /\ x # w => past'[x].fetches = past[x].fetches
    BY <1>1, <1>6 DEF TypeOK
  <1>13. past'[w].fetches = fetches
    BY <1>1, <1>6 DEF TypeOK
  <1>14. past[w].fetches = s.window => fetches = window
    BY DEF fetches, window
  <1> QED
    BY <1>1, <1>2, <1>7, <1>8, <1>9, <1>10, <1>11, <1>12, <1>13, <1>14 DEF s

(* Save, for the watch at the head of the tick.                            *)
LEMMA SaveFacts ==
  ASSUME TypeOK, Save, NEW w, w = Head(tick.todo), NEW r, r = tick.held
  PROVE  /\ tick # None /\ tick' # None /\ w \in Watches /\ r \in ResultOf(w)
         /\ tick.step = "save" /\ tick'.step = "watch"
         /\ tick'.out = tick.out /\ tick'.at = tick.at /\ tick'.orders = tick.orders
         /\ \A x \in Watches : /\ past'[x].died = past[x].died
                               /\ past'[x].born = past[x].born
                               /\ x # w => /\ past'[x].fetches = past[x].fetches
                                           /\ past'[x].above = past[x].above
                                           /\ file'[x] = file[x]
                                           /\ muted'[x] = muted[x]
         /\ past[w].fetches = Raw(file[w]).window => past'[w].fetches = file'[w].window
         /\ r.next.closed # None => past'[w].above = past[w].above
         /\ r.next.closed = None => (past'[w].above <=> Entry[w] # None /\ r.price > Entry[w])
         /\ muted'[w] = muted[w] \cup r.mute
         /\ file'[w] # None
         /\ file'[w].updated = now
         /\ file'[w].seen = r.next.seen /\ file'[w].levels = r.next.levels
         /\ file'[w].created = r.next.created
         /\ UNCHANGED <<now, venue, code, heard, lost>>
  <1> DEFINE window == AfterSuccess(file[w])
             fetches == Cap(Append(past[w].fetches, FALSE), Lookback)
             above == IF r.next.closed # None THEN past[w].above
                      ELSE Entry[w] # None /\ r.price > Entry[w]
             d == Done(tick)
  <1>1. tick # None /\ tick.todo # <<>> /\ w \in Watches /\ tick \in Ticks /\ r \in ResultOf(w)
    BY HeadIsWatch DEF Save, TypeOK
  <1>2. tick' # None
    BY SaveType, NoneAssumption
  <1>3. r.next \in StateOf(w)
    BY <1>1 DEF ResultOf
  <1>4. d \in Ticks /\ d.step = "watch" /\ d.at = tick.at /\ d.orders = tick.orders /\ d.out = tick.out
    BY <1>1, DoneType
  <1>5. tick' = d
    BY DEF Save
  <1>6. /\ file' = [file EXCEPT ![w] = [r.next EXCEPT !.window = window, !.updated = now]]
        /\ past' = [past EXCEPT ![w].fetches = fetches, ![w].above = above]
        /\ muted' = [muted EXCEPT ![w] = @ \cup r.mute]
    BY Zenon DEF Save
  <1>7. tick.step = "save" /\ UNCHANGED <<now, venue, code, heard, lost>>
    BY DEF Save
  <1> HIDE DEF window, fetches, above, d
  <1>8. tick'.step = "watch" /\ tick'.at = tick.at /\ tick'.orders = tick.orders /\ tick'.out = tick.out
    BY <1>4, <1>5
  <1>9. /\ \A x \in Watches : x # w => file'[x] = file[x] /\ muted'[x] = muted[x]
        /\ file'[w] = [r.next EXCEPT !.window = window, !.updated = now]
        /\ muted'[w] = muted[w] \cup r.mute
    BY <1>1, <1>6 DEF TypeOK
  <1>10. /\ file'[w].window = window /\ file'[w].updated = now /\ file'[w].seen = r.next.seen
         /\ file'[w].levels = r.next.levels /\ file'[w].created = r.next.created
    BY <1>3, <1>9 DEF StateOf, StateWith
  <1>11. file'[w] # None
    <2>1. window \in Seq(BOOLEAN)
      <3>1. Raw(file[w]).window \in Seq(BOOLEAN) /\ Lookback \in Nat
        BY <1>1, RawType, WatchdogAssumption DEF StateOf, StateWith
      <3> QED
        BY <3>1, CapType DEF window, AfterSuccess
    <2>2. file'[w] \in StateOf(w)
      BY <1>3, <1>9, <2>1 DEF StateOf, StateWith, TypeOK
    <2> QED
      BY <1>1, <2>2, NoneAssumption
  <1>12. \A x \in Watches : /\ past'[x].died = past[x].died
                            /\ past'[x].born = past[x].born
                            /\ x # w => /\ past'[x].fetches = past[x].fetches
                                        /\ past'[x].above = past[x].above
    BY <1>1, <1>6 DEF TypeOK
  <1>13. past'[w].fetches = fetches /\ past'[w].above = above
    BY <1>1, <1>6 DEF TypeOK
  <1>14. /\ r.next.closed # None => above = past[w].above
         /\ r.next.closed = None => (above <=> Entry[w] # None /\ r.price > Entry[w])
    BY DEF above
  <1>16. past[w].fetches = Raw(file[w]).window => fetches = window
    BY DEF fetches, window, AfterSuccess
  <1>15. /\ r.next.closed # None => past'[w].above = past[w].above
         /\ r.next.closed = None => (past'[w].above <=> Entry[w] # None /\ r.price > Entry[w])
    BY <1>13, <1>14
  <1> QED
    BY <1>1, <1>2, <1>7, <1>8, <1>9, <1>10, <1>11, <1>12, <1>13, <1>15, <1>16

(* The inductive invariant holds at first.                                 *)
LEMMA InvInit == Init => IInv
  <1> SUFFICES ASSUME Init PROVE IInv
    OBVIOUS
  <1>1. TypeOK
    BY TypeInit
  <1>2. tick = None /\ code = None /\ \A w \in Watches : file[w] = None
    BY DEF Init
  <1>3. \A w \in Watches, o \in Order : heard[w][Fill(o)] = 0
    BY DEF Init, Alerts
  <1>4. \A w \in Watches : past[w].born = None /\ past[w].fetches = <<>>
    BY DEF Init, Unborn
  <1>5. TickInv /\ HeldInv /\ NothingSwallowed /\ RecoveryIsConfirmed /\ StreakInv
    BY <1>2 DEF TickInv, HeldInv, NothingSwallowed, RecoveryIsConfirmed, StreakInv, Saving
  <1>6. FillInv /\ ReportedOnce /\ NoForeignFill
    BY <1>2, <1>3 DEF FillInv, ReportedOnce, NoForeignFill, Told, Pending
  <1>7. BirthInv /\ WindowInv
    BY <1>2, <1>3, <1>4 DEF BirthInv, WindowInv, Told, Pending, Saving
  <1> QED
    BY <1>1, <1>5, <1>6, <1>7 DEF IInv

(* Steps that leave the files, the alerts and the venue alone: a tick that *)
(* starts, time that passes.                                               *)
LEMMA QuietStep ==
  ASSUME IInv, TypeOK', tick = None, UNCHANGED <<file, heard, lost, muted, past, venue>>,
         now' \in {now, now + 1},
         \/ tick' = None
         \/ /\ code' = None /\ now' = now /\ tick'.at = now /\ tick'.step = "watch"
            /\ tick'.out = {} /\ tick'.orders \in {venue, None}
  PROVE  IInv'
  <1>1. TickInv' /\ HeldInv' /\ RecoveryIsConfirmed'
    BY DEF TickInv, HeldInv, RecoveryIsConfirmed, Saving
  <1>2. \A w, a : ~Pending(w, a) /\ ~Pending(w, a)'
    BY DEF Pending
  <1>3. \A w \in Watches : ~Saving(w) /\ ~Saving(w)'
    BY DEF Saving
  <1>4. now \in Nat /\ \A w \in Watches : past[w].born # None => past[w].born \in Nat
    BY DEF IInv, TypeOK
  <1>5. FillInv' /\ NothingSwallowed' /\ ReportedOnce' /\ NoForeignFill'
    BY <1>2, <1>3 DEF IInv, FillInv, NothingSwallowed, ReportedOnce, NoForeignFill, Told, Seen
  <1>6. StreakInv' /\ WindowInv'
    BY <1>3 DEF IInv, StreakInv, WindowInv
  <1>7. BirthInv'
    BY <1>2, <1>3, <1>4 DEF IInv, BirthInv, Told, Since
  <1> QED
    BY <1>1, <1>5, <1>6, <1>7 DEF IInv

(* An evaluation: its new fills are unknown to the file and to the reader, *)
(* closed in the lifetime of the state, and printed as they are held.      *)
LEMMA EvaluateStep ==
  ASSUME IInv, NEW price \in Prices, NEW idea \in BOOLEAN, Evaluate(price, idea)
  PROVE  IInv'
  <1>a. PICK w : w = Head(tick.todo)
    OBVIOUS
  <1>b. PICK r : r = Process(w, price, idea)
    OBVIOUS
  <1>c. PICK raw : raw = Raw(file[w])
    OBVIOUS
  <1>d. PICK levels : levels = IF Stale(file[w]) THEN NoLevels ELSE file[w].levels
    OBVIOUS
  <1>0. TypeOK /\ TypeOK'
    BY EvaluateType DEF IInv
  <1>1. /\ tick # None /\ tick' # None /\ w \in Watches /\ w = Head(tick'.todo)
        /\ tick.step = "watch" /\ tick'.step = "save" /\ tick'.held = r
        /\ tick'.out = tick.out \cup {<<w, a>> : a \in r.alerts}
        /\ tick'.at = tick.at /\ tick'.orders = tick.orders
        /\ \A x \in Watches : /\ past'[x].fetches = past[x].fetches
                              /\ past'[x].above = past[x].above
                              /\ past'[x].died = past[x].died
                              /\ x # w => past'[x].born = past[x].born
        /\ past'[w].born = IF past[w].born = None THEN tick.at ELSE past[w].born
        /\ UNCHANGED <<now, venue, file, code, heard, lost, muted>>
    BY <1>0, <1>a, <1>b, EvaluateFacts
  <1>2. /\ raw.seen \subseteq r.next.seen
        /\ \A o \in Order : Fill(o) \in r.alerts <=> o \in r.next.seen \ raw.seen
        /\ \A o \in r.next.seen \ raw.seen :
             /\ tick.orders # None /\ tick.orders[o] # None
             /\ tick.orders[o].kind \in StopKinds
             /\ tick.orders[o].at > r.next.created - Grace
        /\ r.next.created = Anchor(file[w], tick.at)
        /\ r.next.levels.alerted \subseteq levels.alerted \cup r.alerts \cup r.mute
        /\ r.price = price
        /\ r.next.levels.streak > 0 =>
             \/ levels.streak > 0 /\ (r.next.closed # None \/ Levels[w] = {} \/ Entry[w] = None)
             \/ r.next.closed = None /\ Levels[w] # {} /\ Entry[w] # None /\ price > Entry[w]
        /\ \A l \in r.alerts \cap Levels[w] : l.type = "recovery" =>
             /\ Entry[w] # None /\ price > Entry[w] /\ levels.streak > 0 /\ ~Stale(file[w])
             /\ \E d \in levels.alerted : d.type = "drop"
    <2>1. TypeOK /\ tick # None /\ w \in Watches
      BY <1>0, <1>1
    <2> QED
      BY <1>b, <1>c, <1>d, <2>1, ProcessFacts
  <1>3. /\ raw.seen = Seen(w)
        /\ file[w] = None => levels = NoLevels
        /\ levels.alerted # {} \/ levels.streak > 0 => file[w] # None /\ levels = file[w].levels
    BY <1>c, <1>d DEF Raw, Blank, Seen, Stale, NoLevels
  <1>4. r \in ResultOf(w)
    BY <1>0, <1>1, <1>b, ProcessFacts
  <1>5. \A x \in Watches : ~Saving(x) /\ (Saving(x)' <=> x = w)
    BY <1>1, <1>a DEF Saving
  <1>6. \A x \in Watches : \A a : Pending(x, a)' <=> Pending(x, a) \/ (x = w /\ a \in r.alerts)
    BY <1>1 DEF Pending
  <1>7. \A x \in Watches : \A a : Told(x, a) => Told(x, a)'
    BY <1>1, <1>6 DEF Told
  <1>8. r.next.seen \subseteq Order /\ r.next.closed \in Order \cup {None} /\ r.next.created \in Nat \cup {None}
    BY <1>4 DEF ResultOf, StateOf, StateWith
  <1>11. TickInv'
    BY <1>1 DEF IInv, TickInv
  <1>12. HeldInv'
    <2>1. {Fill(o) : o \in r.next.seen \ Seen(w)} \subseteq r.alerts
      BY <1>2, <1>3, <1>8
    <2>2. \A l \in r.next.levels.alerted : Told(w, l)' \/ l \in lost[w] \cup muted[w] \cup r.mute
      <3> SUFFICES ASSUME NEW l \in r.next.levels.alerted
                   PROVE  Told(w, l)' \/ l \in lost[w] \cup muted[w] \cup r.mute
        OBVIOUS
      <3>1. CASE l \in levels.alerted
        <4>1. file[w] # None /\ l \in file[w].levels.alerted
          BY <1>3, <3>1
        <4>2. Told(w, l) \/ l \in lost[w] \cup muted[w]
          BY <1>1, <4>1 DEF IInv, NothingSwallowed
        <4> QED
          BY <1>1, <1>7, <4>2
      <3>2. CASE l \in r.alerts
        <4>1. Pending(w, l)'
          BY <1>1, <1>6, <3>2
        <4> QED
          BY <4>1 DEF Told
      <3> QED
        BY <1>2, <3>1, <3>2
    <2>3. \A a \in r.alerts : Pending(w, a)'
      BY <1>1, <1>6
    <2>4. Seen(w)' = Seen(w) /\ Seen(w) \subseteq r.next.seen
      BY <1>1, <1>2, <1>3 DEF Seen
    <2> QED
      BY <1>1, <1>5, <2>1, <2>2, <2>3, <2>4 DEF HeldInv
  <1>13. FillInv'
    BY <1>1, <1>2, <1>3, <1>5, <1>6 DEF IInv, FillInv, Seen
  <1>9. /\ \A x \in Watches : past[x].born # None => past[x].born \in Nat
        /\ now \in Nat /\ tick.at = now
    BY <1>0, <1>1 DEF TypeOK, IInv, TickInv
  <1>10. Since(w, r.next.created)'
    <2>1. file[w] # None => /\ file[w].created \in Nat \cup {None}
                            /\ file[w].updated \in Nat \cup {None}
      BY <1>0, <1>1 DEF TypeOK, StateOf, StateWith
    <2>2. past'[w].born = IF past[w].born = None THEN now ELSE past[w].born
      BY <1>1, <1>9
    <2>3. past'[w].born # None /\ now # None
      BY <1>9, <2>2, NoneAssumption
    <2>4. past[w].born # None => past[w].born <= now
      BY <1>1 DEF IInv, BirthInv
    <2>5. CASE file[w] = None
      BY <1>2, <1>9, <2>2, <2>3, <2>4, <2>5 DEF Since, Anchor
    <2>6. CASE file[w] # None /\ file[w].created # None
      BY <1>1, <1>2, <2>2, <2>3, <2>6 DEF Since, Anchor, IInv, BirthInv
    <2>7. CASE file[w] # None /\ file[w].created = None
      BY <1>1, <1>2, <2>2, <2>3, <2>7 DEF Since, Anchor, IInv, BirthInv
    <2> QED
      BY <2>5, <2>6, <2>7
  <1>14. BirthInv'
    <2>1. \A x \in Watches, o \in Order : Told(x, Fill(o))' =>
             Told(x, Fill(o)) \/ (x = w /\ o \in r.next.seen \ raw.seen)
      BY <1>1, <1>2, <1>6 DEF Told
    <2>2. \A o \in r.next.seen \ raw.seen : venue[o] # None
      BY <1>1, <1>2, <1>8 DEF IInv, TickInv
    <2>3. past'[w].born # None
      BY <1>1, <1>9, NoneAssumption
    <2>4. \A x \in Watches, o \in Order : Told(x, Fill(o))' => past'[x].born # None /\ venue'[o] # None
      BY <1>1, <2>1, <2>2, <2>3 DEF IInv, BirthInv
    <2>5. \A x \in Watches : /\ past'[x].born # None => past'[x].born <= now'
                             /\ past[x].born # None => past'[x].born = past[x].born
      BY <1>1, <1>9 DEF IInv, BirthInv
    <2>6. \A x \in Watches : \A t : Since(x, t) => Since(x, t)'
      BY <1>1, <2>5 DEF Since
    <2> QED
      BY <1>1, <1>5, <1>10, <2>4, <2>5, <2>6 DEF IInv, BirthInv
  <1>15. StreakInv'
    BY <1>1, <1>2, <1>3, <1>5 DEF IInv, StreakInv
  <1>16. WindowInv'
    BY <1>1 DEF IInv, WindowInv
  <1>17. NothingSwallowed'
    BY <1>1, <1>7 DEF IInv, NothingSwallowed
  <1>18. ReportedOnce'
    <2>1. \A x \in Watches, o \in Order : heard[x][Fill(o)] \in 0..2
      <3>1. \A x \in Watches, o \in Order : Fill(o) \in Alerts(x)
        BY DEF Alerts
      <3>2. \A x \in Watches : heard[x] \in [Alerts(x) -> 0..2]
        BY <1>0 DEF TypeOK
      <3> QED
        BY <3>1, <3>2
    <2> QED
      BY <1>1, <1>2, <1>3, <1>6, <2>1 DEF IInv, ReportedOnce, FillInv
  <1>19. NoForeignFill'
    <2> SUFFICES ASSUME NEW x \in Watches, NEW o \in Order, Told(x, Fill(o))'
                 PROVE  venue[o].kind \in StopKinds /\ venue[o].at > past'[x].born - Grace
      BY <1>1 DEF NoForeignFill
    <2>1. CASE Told(x, Fill(o))
      BY <1>1, <2>1 DEF IInv, NoForeignFill, BirthInv
    <2>2. CASE x = w /\ o \in r.next.seen \ raw.seen
      <3>1. venue[o] = tick.orders[o] /\ venue[o] \in ClosedOrders
        BY <1>0, <1>1, <1>2, <2>2 DEF IInv, TickInv, TypeOK
      <3>2. venue[o].kind \in StopKinds /\ venue[o].at > r.next.created - Grace
        BY <1>2, <2>2, <3>1
      <3>3. venue[o].at \in Nat /\ Grace \in Nat
        BY <3>1, WatchdogAssumption DEF ClosedOrders
      <3>4. past'[w].born \in Nat /\ past'[w].born <= r.next.created /\ r.next.created \in Nat
        BY <1>1, <1>8, <1>9, <1>10 DEF Since
      <3> QED
        BY <2>2, <3>2, <3>3, <3>4
    <2> QED
      BY <1>1, <1>2, <1>6, <2>1, <2>2 DEF Told
  <1>20. RecoveryIsConfirmed'
    BY <1>1, <1>2, <1>3, <1>5 DEF IInv, RecoveryIsConfirmed, StreakInv
  <1> QED
    BY <1>0, <1>11, <1>12, <1>13, <1>14, <1>15, <1>16, <1>17, <1>18, <1>19, <1>20 DEF IInv

(* A failed fetch only begins the lifetime of a state.                     *)
LEMMA FetchFailsStep ==
  ASSUME IInv, FetchFails
  PROVE  IInv'
  <1>a. PICK w : w = Head(tick.todo)
    OBVIOUS
  <1>0. TypeOK /\ TypeOK'
    BY FetchFailsType DEF IInv
  <1>1. /\ tick # None /\ tick' # None /\ w \in Watches /\ w = Head(tick'.todo)
        /\ tick.step = "watch" /\ tick'.step = "failed"
        /\ tick'.out = tick.out /\ tick'.at = tick.at /\ tick'.orders = tick.orders
        /\ \A x \in Watches : /\ past'[x].fetches = past[x].fetches
                              /\ past'[x].above = past[x].above
                              /\ past'[x].died = past[x].died
                              /\ x # w => past'[x].born = past[x].born
        /\ past'[w].born = IF past[w].born = None THEN tick.at ELSE past[w].born
        /\ UNCHANGED <<now, venue, file, code, heard, lost, muted>>
    BY <1>0, <1>a, FetchFailsFacts
  <1>2. \A x \in Watches : ~Saving(x) /\ ~Saving(x)'
    BY <1>1 DEF Saving
  <1>3. \A x \in Watches : \A a : /\ Pending(x, a)' <=> Pending(x, a)
                                  /\ Told(x, a)' <=> Told(x, a)
    BY <1>1 DEF Told, Pending
  <1>4. /\ \A x \in Watches : past[x].born # None => past[x].born \in Nat
        /\ now \in Nat /\ tick.at = now
    BY <1>0, <1>1 DEF TypeOK, IInv, TickInv
  <1>5. \A x \in Watches : /\ past'[x].born # None => past'[x].born <= now'
                           /\ past[x].born # None => past'[x].born = past[x].born
    BY <1>1, <1>4 DEF IInv, BirthInv
  <1>6. TickInv' /\ HeldInv' /\ RecoveryIsConfirmed'
    BY <1>1, <1>2 DEF IInv, TickInv, HeldInv, RecoveryIsConfirmed
  <1>7. FillInv' /\ NothingSwallowed' /\ ReportedOnce'
    BY <1>1, <1>2, <1>3 DEF IInv, FillInv, NothingSwallowed, ReportedOnce, Seen
  <1>8. StreakInv' /\ WindowInv'
    BY <1>1, <1>2 DEF IInv, StreakInv, WindowInv
  <1>9. BirthInv'
    <2>1. past'[w].born # None
      BY <1>1, <1>4, NoneAssumption
    <2>2. \A x \in Watches : \A t : Since(x, t) => Since(x, t)'
      BY <1>5 DEF Since
    <2> QED
      BY <1>1, <1>2, <1>3, <1>5, <2>1, <2>2 DEF IInv, BirthInv
  <1>10. NoForeignFill'
    BY <1>1, <1>3, <1>5 DEF IInv, NoForeignFill, BirthInv
  <1> QED
    BY <1>0, <1>6, <1>7, <1>8, <1>9, <1>10 DEF IInv

(* Recording a failure keeps everything else the file says.                *)
LEMMA RecordFailureStep ==
  ASSUME IInv, RecordFailure
  PROVE  IInv'
  <1>a. PICK w : w = Head(tick.todo)
    OBVIOUS
  <1>0. TypeOK /\ TypeOK'
    BY RecordFailureType DEF IInv
  <1>1. /\ tick # None /\ tick' # None /\ w \in Watches
        /\ tick.step = "failed" /\ tick'.step = "watch"
        /\ tick'.out = tick.out /\ tick'.at = tick.at /\ tick'.orders = tick.orders
        /\ \A x \in Watches : /\ past'[x].above = past[x].above
                              /\ past'[x].died = past[x].died
                              /\ past'[x].born = past[x].born
                              /\ x # w => past'[x].fetches = past[x].fetches /\ file'[x] = file[x]
        /\ past[w].fetches = Raw(file[w]).window => past'[w].fetches = file'[w].window
        /\ file'[w] # None
        /\ file'[w].updated = now
        /\ file'[w].seen = Raw(file[w]).seen /\ file'[w].levels = Raw(file[w]).levels
        /\ file'[w].created = Raw(file[w]).created
        /\ UNCHANGED <<now, venue, code, heard, lost, muted>>
    BY <1>0, <1>a, RecordFailureFacts
  <1>2. \A x \in Watches : ~Saving(x) /\ ~Saving(x)'
    BY <1>1 DEF Saving
  <1>3. \A x \in Watches : \A a : /\ Pending(x, a)' <=> Pending(x, a)
                                  /\ Told(x, a)' <=> Told(x, a)
    BY <1>1 DEF Told, Pending
  <1>4. /\ file[w] = None => /\ Raw(file[w]).seen = {} /\ Raw(file[w]).window = <<>> /\ Raw(file[w]).created = None
                             /\ Raw(file[w]).levels.alerted = {} /\ Raw(file[w]).levels.streak = 0
        /\ file[w] # None => Raw(file[w]) = file[w]
    BY DEF Raw, Blank, NoLevels
  <1>5. \A x \in Watches : Seen(x)' = Seen(x)
    BY <1>1, <1>4 DEF Seen
  <1>6. TickInv' /\ HeldInv' /\ RecoveryIsConfirmed'
    BY <1>1, <1>2 DEF IInv, TickInv, HeldInv, RecoveryIsConfirmed
  <1>7. FillInv' /\ ReportedOnce'
    BY <1>1, <1>2, <1>3, <1>5 DEF IInv, FillInv, ReportedOnce
  <1>8. NothingSwallowed'
    BY <1>1, <1>3, <1>4 DEF IInv, NothingSwallowed
  <1>9. StreakInv'
    BY <1>1, <1>2, <1>4 DEF IInv, StreakInv
  <1>10. WindowInv'
    <2>1. past[w].fetches = Raw(file[w]).window
      BY <1>1, <1>4 DEF IInv, WindowInv
    <2> QED
      BY <1>1, <2>1 DEF IInv, WindowInv
  <1>11. NoForeignFill'
    BY <1>1, <1>3 DEF IInv, NoForeignFill
  <1>12. BirthInv'
    <2>1. past[w].born # None /\ past[w].born <= now
      BY <1>1, <1>a DEF IInv, BirthInv
    <2>2. now # None
      BY <1>0, NoneAssumption DEF TypeOK
    <2>3. \A x \in Watches : \A t : Since(x, t)' <=> Since(x, t)
      BY <1>1 DEF Since
    <2>4. Since(w, now)
      BY <2>1, <2>2 DEF Since
    <2> QED
      BY <1>1, <1>2, <1>3, <1>4, <2>3, <2>4 DEF IInv, BirthInv
  <1> QED
    BY <1>0, <1>6, <1>7, <1>8, <1>9, <1>10, <1>11, <1>12 DEF IInv

(* Saving makes known to the file what the tick has printed.               *)
LEMMA SaveStep ==
  ASSUME IInv, Save
  PROVE  IInv'
  <1>a. PICK w : w = Head(tick.todo)
    OBVIOUS
  <1>b. PICK r : r = tick.held
    OBVIOUS
  <1>0. TypeOK /\ TypeOK'
    BY SaveType DEF IInv
  <1>1. /\ tick # None /\ tick' # None /\ w \in Watches /\ r \in ResultOf(w)
        /\ tick.step = "save" /\ tick'.step = "watch"
        /\ tick'.out = tick.out /\ tick'.at = tick.at /\ tick'.orders = tick.orders
        /\ \A x \in Watches : /\ past'[x].died = past[x].died
                              /\ past'[x].born = past[x].born
                              /\ x # w => /\ past'[x].fetches = past[x].fetches
                                          /\ past'[x].above = past[x].above
                                          /\ file'[x] = file[x]
                                          /\ muted'[x] = muted[x]
        /\ past[w].fetches = Raw(file[w]).window => past'[w].fetches = file'[w].window
        /\ r.next.closed # None => past'[w].above = past[w].above
        /\ r.next.closed = None => (past'[w].above <=> Entry[w] # None /\ r.price > Entry[w])
        /\ muted'[w] = muted[w] \cup r.mute
        /\ file'[w] # None
        /\ file'[w].updated = now
        /\ file'[w].seen = r.next.seen /\ file'[w].levels = r.next.levels
        /\ file'[w].created = r.next.created
        /\ UNCHANGED <<now, venue, code, heard, lost>>
    BY <1>0, <1>a, <1>b, SaveFacts
  <1>2. \A x \in Watches : (Saving(x) <=> x = w) /\ ~Saving(x)'
    BY <1>1, <1>a DEF Saving
  <1>3. \A x \in Watches : \A a : /\ Pending(x, a)' <=> Pending(x, a)
                                  /\ Told(x, a)' <=> Told(x, a)
    BY <1>1 DEF Told, Pending
  <1>4. r.next.seen \subseteq Order
    BY <1>1 DEF ResultOf, StateOf, StateWith
  <1>5. /\ Seen(w)' = r.next.seen /\ Seen(w) \subseteq r.next.seen
        /\ \A x \in Watches : x # w => Seen(x)' = Seen(x)
    BY <1>1, <1>2, <1>b DEF Seen, IInv, HeldInv
  <1>6. TickInv' /\ HeldInv' /\ RecoveryIsConfirmed'
    BY <1>1, <1>2 DEF IInv, TickInv, HeldInv, RecoveryIsConfirmed
  <1>7. FillInv' /\ ReportedOnce'
    BY <1>1, <1>2, <1>3, <1>5, <1>b DEF IInv, FillInv, ReportedOnce
  <1>8. NothingSwallowed'
    <2>1. \A o \in r.next.seen : Told(w, Fill(o))' \/ Fill(o) \in lost'[w]
      <3> SUFFICES ASSUME NEW o \in r.next.seen
                   PROVE  Told(w, Fill(o))' \/ Fill(o) \in lost'[w]
        OBVIOUS
      <3>1. CASE o \in Seen(w)
        BY <1>1, <1>3, <3>1 DEF IInv, NothingSwallowed, Seen
      <3>2. CASE o \notin Seen(w)
        <4>1. Fill(o) \in r.alerts
          BY <1>1, <1>2, <1>b, <3>2 DEF IInv, HeldInv
        <4>2. Pending(w, Fill(o))
          BY <1>1, <1>2, <1>b, <4>1 DEF IInv, HeldInv
        <4> QED
          BY <1>1, <1>3, <4>2 DEF Told
      <3> QED
        BY <3>1, <3>2
    <2>2. \A l \in r.next.levels.alerted : Told(w, l)' \/ l \in lost'[w] \cup muted'[w]
      BY <1>1, <1>2, <1>3, <1>b DEF IInv, HeldInv
    <2>3. \A x \in Watches : x # w /\ file'[x] # None =>
            /\ \A o \in file'[x].seen : Told(x, Fill(o))' \/ Fill(o) \in lost'[x]
            /\ \A l \in file'[x].levels.alerted : Told(x, l)' \/ l \in lost'[x] \cup muted'[x]
      BY <1>1, <1>3 DEF IInv, NothingSwallowed
    <2>4. \A x \in Watches : file'[x] # None =>
            /\ \A o \in file'[x].seen : Told(x, Fill(o))' \/ Fill(o) \in lost'[x]
            /\ \A l \in file'[x].levels.alerted : Told(x, l)' \/ l \in lost'[x] \cup muted'[x]
      BY <1>1, <2>1, <2>2, <2>3
    <2> QED
      BY <2>4 DEF NothingSwallowed
  <1>9. StreakInv'
    BY <1>1, <1>2, <1>b DEF IInv, StreakInv
  <1>10. WindowInv'
    <2>1. past[w].fetches = Raw(file[w]).window
      BY <1>1 DEF IInv, WindowInv, Raw, Blank
    <2> QED
      BY <1>1, <2>1 DEF IInv, WindowInv
  <1>11. NoForeignFill'
    BY <1>1, <1>3 DEF IInv, NoForeignFill
  <1>12. BirthInv'
    <2>1. Since(w, r.next.created) /\ past[w].born <= now
      BY <1>1, <1>2, <1>b DEF IInv, BirthInv, Since
    <2>2. now # None
      BY <1>0, NoneAssumption DEF TypeOK
    <2>3. \A x \in Watches : \A t : Since(x, t)' <=> Since(x, t)
      BY <1>1 DEF Since
    <2>4. Since(w, now)
      BY <2>1, <2>2 DEF Since
    <2> QED
      BY <1>1, <1>2, <1>3, <2>1, <2>3, <2>4 DEF IInv, BirthInv
  <1> QED
    BY <1>0, <1>6, <1>7, <1>8, <1>9, <1>10, <1>11, <1>12 DEF IInv

(* The tick ends, by an exit or by an exception: what it printed is read.  *)
LEMMA DeliverStep ==
  ASSUME IInv, TypeOK', tick # None, tick' = None, Deliver,
         UNCHANGED <<now, venue, file, lost, muted>>,
         \A x \in Watches : /\ past'[x].born = past[x].born /\ past'[x].fetches = past[x].fetches
                            /\ past'[x].above = past[x].above
                            /\ past[x].died => past'[x].died
                            /\ Saving(x) => past'[x].died
  PROVE  IInv'
  <1>0. TypeOK
    BY DEF IInv
  <1>1. \A x \in Watches : \A a : ~Saving(x)' /\ ~Pending(x, a)'
    BY DEF Saving, Pending
  <1>2. \A x \in Watches : \A a \in Alerts(x) :
          /\ heard[x][a] \in 0..2
          /\ heard'[x][a] = IF Pending(x, a) THEN IF heard[x][a] = 0 THEN 1 ELSE 2
                            ELSE heard[x][a]
    <2>1. \A x \in Watches : heard[x] \in [Alerts(x) -> 0..2]
      BY <1>0 DEF TypeOK
    <2> QED
      BY <1>0, <2>1, DeliverFacts DEF Pending
  <1>3. \A x \in Watches, o \in Order : Fill(o) \in Alerts(x)
    BY DEF Alerts
  <1>4. \A x \in Watches : \A l \in Levels[x] : l \in Alerts(x)
    BY DEF Alerts
  <1>5. \A x \in Watches : \A a \in Alerts(x) : Told(x, a)' <=> Told(x, a)
    BY <1>1, <1>2 DEF Told
  <1>6. \A x \in Watches : file[x] # None => file[x].seen \subseteq Order
                                             /\ file[x].levels.alerted \subseteq Levels[x]
    BY <1>0 DEF TypeOK, StateOf, StateWith
  <1>7. TickInv' /\ HeldInv' /\ RecoveryIsConfirmed'
    BY <1>1 DEF TickInv, HeldInv, RecoveryIsConfirmed
  <1>8. FillInv'
    <2>1. \A x \in Watches, o \in Order : heard'[x][Fill(o)] > 0 => past'[x].died \/ o \in Seen(x)
      BY <1>2, <1>3 DEF IInv, FillInv
    <2> QED
      BY <1>1, <2>1 DEF FillInv, Seen
  <1>9. NothingSwallowed'
    BY <1>3, <1>4, <1>5, <1>6 DEF IInv, NothingSwallowed
  <1>10. ReportedOnce'
    BY <1>1, <1>2, <1>3 DEF IInv, ReportedOnce
  <1>11. NoForeignFill'
    BY <1>3, <1>5 DEF IInv, NoForeignFill
  <1>12. StreakInv' /\ WindowInv'
    BY <1>1 DEF IInv, StreakInv, WindowInv
  <1>13. BirthInv'
    BY <1>1, <1>3, <1>5 DEF IInv, BirthInv, Since
  <1> QED
    BY <1>7, <1>8, <1>9, <1>10, <1>11, <1>12, <1>13 DEF IInv

(* A tick ends with its exit code.                                         *)
LEMMA FinishStep == ASSUME IInv, TypeOK', Finish PROVE IInv'
  <1>1. tick # None /\ tick' = None /\ Deliver /\ UNCHANGED <<now, venue, file, lost, muted, past>>
        /\ tick.step = "watch"
    BY DEF Finish
  <1> QED
    BY <1>1, DeliverStep DEF Saving

(* A tick dies of a save that failed, which its watch remembers.           *)
LEMMA SaveFailsStep == ASSUME IInv, TypeOK', SaveFails PROVE IInv'
  <1>1. tick # None /\ tick' = None /\ Deliver /\ UNCHANGED <<now, venue, file, lost, muted>>
    BY DEF SaveFails
  <1>2. past' = [past EXCEPT ![Head(tick.todo)].died = TRUE]
    BY DEF SaveFails
  <1>3. \A x \in Watches : /\ past'[x].born = past[x].born /\ past'[x].fetches = past[x].fetches
                           /\ past'[x].above = past[x].above
                           /\ past[x].died => past'[x].died
                           /\ Saving(x) => past'[x].died
    BY <1>2 DEF IInv, TypeOK, Saving
  <1> QED
    BY <1>1, <1>3, DeliverStep

(* What a killed tick printed is lost, its reader and the files know       *)
(* nothing of it.                                                          *)
LEMMA KillStep == ASSUME IInv, TypeOK', Kill PROVE IInv'
  <1>0. TypeOK
    BY DEF IInv
  <1>1. tick # None /\ tick' = None /\ UNCHANGED <<now, venue, file, heard, muted, past>>
    BY DEF Kill
  <1>2. \A x \in Watches : lost'[x] = lost[x] \cup {a \in Alerts(x) : <<x, a>> \in tick.out}
    BY DEF Kill
  <1>3. \A x \in Watches : \A a : ~Saving(x)' /\ ~Pending(x, a)' /\ (Told(x, a)' => Told(x, a))
    BY <1>1 DEF Saving, Pending, Told
  <1>4. \A x \in Watches : \A a \in Alerts(x) : Told(x, a) => Told(x, a)' \/ a \in lost'[x]
    BY <1>1, <1>2 DEF Told, Pending
  <1>5. \A x \in Watches : lost[x] \subseteq lost'[x]
    BY <1>2
  <1>6. \A x \in Watches : file[x] # None => /\ \A o \in file[x].seen : Fill(o) \in Alerts(x)
                                             /\ file[x].levels.alerted \subseteq Alerts(x)
    BY <1>0 DEF TypeOK, StateOf, StateWith, Alerts
  <1>7. TickInv' /\ HeldInv' /\ RecoveryIsConfirmed'
    BY <1>1, <1>3 DEF TickInv, HeldInv, RecoveryIsConfirmed
  <1>8. FillInv'
    BY <1>1, <1>3 DEF IInv, FillInv, Seen
  <1>9. NothingSwallowed'
    BY <1>1, <1>4, <1>5, <1>6 DEF IInv, NothingSwallowed
  <1>10. ReportedOnce'
    <2>1. \A x \in Watches, o \in Order : heard[x][Fill(o)] \in 0..2
      <3>1. \A x \in Watches, o \in Order : Fill(o) \in Alerts(x)
        BY DEF Alerts
      <3>2. \A x \in Watches : heard[x] \in [Alerts(x) -> 0..2]
        BY <1>0 DEF TypeOK
      <3> QED
        BY <3>1, <3>2
    <2> QED
      BY <1>1, <1>3, <2>1 DEF IInv, ReportedOnce
  <1>11. NoForeignFill'
    BY <1>1, <1>3 DEF IInv, NoForeignFill
  <1>12. StreakInv' /\ WindowInv'
    BY <1>1, <1>3 DEF IInv, StreakInv, WindowInv
  <1>13. BirthInv'
    BY <1>1, <1>3 DEF IInv, BirthInv, Since
  <1> QED
    BY <1>7, <1>8, <1>9, <1>10, <1>11, <1>12, <1>13 DEF IInv

(* Removing the closure marker forgets nothing that was reported.          *)
LEMMA ClearMarkerStep == ASSUME IInv, TypeOK', NEW w \in Watches, ClearMarker(w) PROVE IInv'
  <1>1. tick = None /\ tick' = None /\ UNCHANGED <<now, venue, heard, lost, muted, past>>
        /\ file[w] # None
    BY DEF ClearMarker
  <1>2. \A x \in Watches : /\ file'[x] # None <=> file[x] # None
                           /\ file[x] # None => /\ file'[x].seen = file[x].seen
                                                /\ file'[x].levels = file[x].levels
                                                /\ file'[x].created = file[x].created
                                                /\ file'[x].window = file[x].window
                                                /\ file'[x].updated = file[x].updated
    <2>1. file' = [file EXCEPT ![w].closed = None] /\ DOMAIN file = Watches /\ file[w] \in StateOf(w)
      BY <1>1 DEF ClearMarker, IInv, TypeOK
    <2>2. [file[w] EXCEPT !.closed = None] # None
      <3>1. [file[w] EXCEPT !.closed = None] \in StateOf(w)
        BY <2>1 DEF StateOf, StateWith
      <3> QED
        BY <3>1, NoneAssumption
    <2>3. \A x \in Watches : x # w => file'[x] = file[x]
      BY <2>1
    <2>4. file'[w] = [file[w] EXCEPT !.closed = None]
      BY <2>1
    <2>5. /\ file'[w] # None /\ file'[w].seen = file[w].seen /\ file'[w].levels = file[w].levels
          /\ file'[w].created = file[w].created /\ file'[w].window = file[w].window
          /\ file'[w].updated = file[w].updated
      BY <2>1, <2>2, <2>4 DEF StateOf, StateWith
    <2> QED
      BY <1>1, <2>3, <2>5
  <1>3. \A x \in Watches : \A a : ~Saving(x)' /\ ~Pending(x, a)' /\ ~Saving(x) /\ ~Pending(x, a)
    BY <1>1 DEF Saving, Pending
  <1>4. \A x \in Watches : Seen(x)' = Seen(x)
    BY <1>2 DEF Seen
  <1>5. TickInv' /\ HeldInv' /\ RecoveryIsConfirmed'
    BY <1>1, <1>3 DEF TickInv, HeldInv, RecoveryIsConfirmed
  <1>6. FillInv' /\ ReportedOnce' /\ NoForeignFill'
    BY <1>1, <1>3, <1>4 DEF IInv, FillInv, ReportedOnce, NoForeignFill, Told
  <1>7. NothingSwallowed'
    BY <1>1, <1>2, <1>3 DEF IInv, NothingSwallowed, Told
  <1>8. StreakInv' /\ WindowInv'
    BY <1>1, <1>2, <1>3 DEF IInv, StreakInv, WindowInv
  <1>9. BirthInv'
    BY <1>1, <1>2, <1>3 DEF IInv, BirthInv, Since, Told
  <1> QED
    BY <1>5, <1>6, <1>7, <1>8, <1>9 DEF IInv

(* A recreated watch starts a lifetime of its own.                         *)
LEMMA RecreateStep == ASSUME IInv, TypeOK', NEW w \in Watches, Recreate(w) PROVE IInv'
  <1>1. tick = None /\ tick' = None /\ UNCHANGED <<now, venue>>
    BY DEF Recreate
  <1>2. /\ file'[w] = None /\ past'[w].born = None /\ past'[w].fetches = <<>>
        /\ \A o \in Order : heard'[w][Fill(o)] = 0
        /\ \A x \in Watches : x # w => /\ file'[x] = file[x] /\ heard'[x] = heard[x]
                                       /\ lost'[x] = lost[x] /\ muted'[x] = muted[x]
                                       /\ past'[x] = past[x]
    BY DEF Recreate, IInv, TypeOK, Unborn, Alerts
  <1>3. \A x \in Watches : \A a : ~Saving(x)' /\ ~Pending(x, a)' /\ ~Saving(x) /\ ~Pending(x, a)
    BY <1>1 DEF Saving, Pending
  <1>5. TickInv' /\ HeldInv' /\ RecoveryIsConfirmed'
    BY <1>1, <1>3 DEF TickInv, HeldInv, RecoveryIsConfirmed
  <1>6. FillInv' /\ ReportedOnce' /\ NoForeignFill'
    BY <1>1, <1>2, <1>3 DEF IInv, FillInv, ReportedOnce, NoForeignFill, Told, Seen
  <1>7. NothingSwallowed'
    BY <1>1, <1>2, <1>3 DEF IInv, NothingSwallowed, Told
  <1>8. StreakInv' /\ WindowInv'
    BY <1>1, <1>2, <1>3, ZenonT(40) DEF IInv, StreakInv, WindowInv
  <1>9. BirthInv'
    BY <1>1, <1>2, <1>3 DEF IInv, BirthInv, Since, Told
  <1> QED
    BY <1>5, <1>6, <1>7, <1>8, <1>9 DEF IInv

(* An order that closes now is none that was reported.                     *)
LEMMA ExecuteStep == ASSUME IInv, TypeOK', NEW o \in Order, Execute(o) PROVE IInv'
  <1>1. venue[o] = None /\ code' = None /\ UNCHANGED <<now, file, tick, heard, lost, muted, past>>
    BY DEF Execute
  <1>2. \A q \in Order : venue[q] # None => venue'[q] = venue[q]
    BY DEF Execute, IInv, TypeOK
  <1>3. \A x \in Watches : \A a : /\ Saving(x)' <=> Saving(x)
                                  /\ Pending(x, a)' <=> Pending(x, a)
                                  /\ Told(x, a)' <=> Told(x, a)
    BY <1>1 DEF Saving, Pending, Told
  <1>4. \A x \in Watches : Seen(x)' = Seen(x)
    BY <1>1 DEF Seen
  <1>5. TickInv'
    BY <1>1, <1>2 DEF IInv, TickInv, TypeOK
  <1>6. HeldInv' /\ RecoveryIsConfirmed'
    BY <1>1, <1>3, <1>4 DEF IInv, HeldInv, RecoveryIsConfirmed
  <1>7. FillInv' /\ ReportedOnce' /\ NothingSwallowed'
    BY <1>1, <1>3, <1>4 DEF IInv, FillInv, ReportedOnce, NothingSwallowed
  <1>8. StreakInv' /\ WindowInv'
    BY <1>1, <1>3 DEF IInv, StreakInv, WindowInv
  <1>9. BirthInv'
    BY <1>1, <1>2, <1>3 DEF IInv, BirthInv, Since
  <1>10. NoForeignFill'
    BY <1>1, <1>2, <1>3 DEF IInv, NoForeignFill, BirthInv
  <1> QED
    BY <1>5, <1>6, <1>7, <1>8, <1>9, <1>10 DEF IInv

(* Every step keeps the inductive invariant.                               *)
LEMMA InvStep == IInv /\ [Next]_vars => IInv'
  <1> SUFFICES ASSUME IInv, [Next]_vars PROVE IInv'
    OBVIOUS
  <1>0. TypeOK /\ TypeOK'
    BY TypeStep DEF IInv
  <1>1. ASSUME NEW todo, NEW read, Start(todo, read) PROVE IInv'
    <2>1. tick = None /\ UNCHANGED <<now, venue, file, heard, lost, muted, past>> /\ code' = None
      BY <1>1 DEF Start
    <2>2. tick'.at = now /\ tick'.step = "watch" /\ tick'.out = {} /\ tick'.orders \in {venue, None}
      BY <1>1 DEF Start
    <2> QED
      BY <1>0, <2>1, <2>2, QuietStep
  <1>2. CASE Pass
    BY <1>0, <1>2, QuietStep DEF Pass
  <1>3. CASE UNCHANGED vars
    BY <1>3, ZenonT(40) DEF vars, IInv, TypeOK, TickInv, HeldInv, FillInv, BirthInv, StreakInv, WindowInv,
         NothingSwallowed, ReportedOnce, NoForeignFill, RecoveryIsConfirmed, Told, Pending, Saving,
         Seen, Since
  <1> QED
    BY <1>0, <1>1, <1>2, <1>3, EvaluateStep, FetchFailsStep, RecordFailureStep, SaveStep, FinishStep,
       SaveFailsStep, KillStep, ClearMarkerStep, RecreateStep, ExecuteStep DEF Next

(* A capped history ends with what was appended last.                      *)
LEMMA CapLast ==
  ASSUME NEW S, NEW a \in Seq(S), a # <<>>, NEW n \in Nat \ {0}
  PROVE  Cap(a, n) # <<>> /\ Cap(a, n)[Len(Cap(a, n))] = a[Len(a)]
  <1>1. CASE Len(a) > n
    <2>1. /\ Tail(a) \in Seq(S) /\ Len(Tail(a)) = Len(a) - 1
          /\ \A i \in 1..Len(Tail(a)) : Tail(a)[i] = a[i+1]
      BY HeadTailProperties
    <2>2. Len(a) \in Nat /\ Len(Tail(a)) \in Nat /\ Len(Tail(a)) >= 1
      BY <1>1, <2>1
    <2>4. Len(Tail(a)) \in 1..Len(Tail(a)) /\ Tail(a) # <<>>
      <3>1. Len(<<>>) = 0
        OBVIOUS
      <3>2. PICK t : t = Tail(a)
        OBVIOUS
      <3>3. Len(t) >= 1 /\ Len(t) \in Nat
        BY <2>2, <3>2
      <3>4. t # <<>>
        BY <3>1, <3>3
      <3> QED
        BY <3>2, <3>3, <3>4
    <2>3. Cap(a, n) = Tail(a)
      BY <1>1 DEF Cap
    <2> QED
      BY <2>1, <2>2, <2>3, <2>4
  <1>2. CASE ~(Len(a) > n)
    BY <1>2 DEF Cap
  <1> QED
    BY <1>1, <1>2

(* So does the history it is made of.                                      *)
LEMMA AppendLast ==
  ASSUME NEW S, NEW s \in Seq(S), NEW e \in S
  PROVE  Append(s, e) \in Seq(S) /\ Append(s, e) # <<>> /\ Append(s, e)[Len(Append(s, e))] = e
  BY AppendProperties

(* The outcome just recorded is the last one of the window.                *)
LEMMA LastRecorded ==
  ASSUME NEW s \in Seq(BOOLEAN), NEW n \in Nat \ {0}
  PROVE  /\ Cap(Append(s, TRUE), n) # <<>>
         /\ Cap(Append(s, TRUE), n)[Len(Cap(Append(s, TRUE), n))]
         /\ ~Cap(Append(s, FALSE), n)[Len(Cap(Append(s, FALSE), n))]
  <1>1. /\ Append(s, TRUE) \in Seq(BOOLEAN) /\ Append(s, TRUE) # <<>>
        /\ Append(s, TRUE)[Len(Append(s, TRUE))]
    <2>1. PICK e : e = TRUE
      OBVIOUS
    <2>2. e \in BOOLEAN
      BY <2>1
    <2>3. Append(s, e) \in Seq(BOOLEAN) /\ Append(s, e) # <<>> /\ Append(s, e)[Len(Append(s, e))] = e
      BY <2>2, AppendLast
    <2> QED
      BY <2>1, <2>3
  <1>2. /\ Append(s, FALSE) \in Seq(BOOLEAN) /\ Append(s, FALSE) # <<>>
        /\ ~Append(s, FALSE)[Len(Append(s, FALSE))]
    BY AppendLast, ZenonT(40)
  <1> QED
    BY <1>1, <1>2, CapLast

(* What a fetch leaves at the end of the history. *)
LEMMA RecordedFetch ==
  ASSUME TypeOK, NEW w, w = Head(tick.todo), tick # None, tick.todo # <<>>
  PROVE  /\ RecordFailure => past'[w].fetches # <<>> /\ past'[w].fetches[Len(past'[w].fetches)]
         /\ Save => ~past'[w].fetches[Len(past'[w].fetches)]
  <1>1. w \in Watches /\ Lookback \in Nat \ {0} /\ past[w].fetches \in Seq(BOOLEAN)
    BY HeadIsWatch, WatchdogAssumption DEF TypeOK
  <1>2. RecordFailure => past'[w].fetches = Cap(Append(past[w].fetches, TRUE), Lookback)
    BY <1>1 DEF RecordFailure, TypeOK
  <1>3. Save => past'[w].fetches = Cap(Append(past[w].fetches, FALSE), Lookback)
    <2> SUFFICES ASSUME Save PROVE past'[w].fetches = Cap(Append(past[w].fetches, FALSE), Lookback)
      OBVIOUS
    <2> DEFINE fetches == Cap(Append(past[w].fetches, FALSE), Lookback)
               above == IF tick.held.next.closed # None THEN past[w].above
                        ELSE Entry[w] # None /\ tick.held.price > Entry[w]
    <2>1. past' = [past EXCEPT ![w].fetches = fetches, ![w].above = above]
      BY Zenon DEF Save
    <2> HIDE DEF fetches, above
    <2>2. past'[w].fetches = fetches
      BY <1>1, <2>1 DEF TypeOK
    <2> QED
      BY <2>2 DEF fetches
  <1> QED
    BY <1>1, <1>2, <1>3, LastRecorded

(* Every step keeps the count of a tick, if its watches are distinct.      *)
LEMMA CountStep == ASSUME NamesAreUnique PROVE IInv /\ CountInv /\ [Next]_vars => CountInv'
  <1> SUFFICES ASSUME IInv, CountInv, [Next]_vars PROVE CountInv'
    OBVIOUS
  <1>0. TypeOK /\ TypeOK'
    BY TypeStep DEF IInv
  <1>1. ASSUME NEW todo \in Seq(Watches), todo # <<>>,
               \A i, j \in DOMAIN todo : todo[i] = todo[j] => i = j,
               NEW read, Start(todo, read) PROVE CountInv'
    <2>1. tick'.todo = todo /\ tick'.asked = todo /\ tick'.failed = 0
      BY <1>1 DEF Start
    <2>2. Len(todo) \in Nat /\ Len(todo) - Len(todo) = 0 /\ DOMAIN todo = 1..Len(todo)
      BY <1>1
    <2>3. Counted(todo, todo, 0)'
      <3>1. \A i \in DOMAIN todo : todo[i] = todo[0 + i]
        BY <2>2
      <3> QED
        BY <1>1, <2>2, <3>1 DEF Counted
    <2> QED
      BY <2>1, <2>3 DEF CountInv
  <1>a. PICK asked : asked = tick.asked
    OBVIOUS
  <1>b. PICK todo : todo = tick.todo
    OBVIOUS
  <1>c. PICK failed : failed = tick.failed
    OBVIOUS
  <1>d. tick # None => /\ asked \in Seq(Watches) /\ todo \in Seq(Watches) /\ failed \in Nat
                       /\ Counted(asked, todo, failed)
    BY <1>0, <1>a, <1>b, <1>c DEF TypeOK, Ticks, CountInv
  (* The counters of the tick and the histories it counts stay as they are. *)
  <1>2. ASSUME tick'.todo = todo, tick'.asked = asked, tick'.failed = failed,
               tick # None, \A x \in Watches : past'[x].fetches = past[x].fetches
        PROVE  CountInv'
    <2>1. \A x \in Watches : LastFailed(x)' <=> LastFailed(x)
      BY <1>2 DEF LastFailed
    <2>2. \A i \in 1..Len(asked) : LastFailed(asked[i])' <=> LastFailed(asked[i])
      BY <1>2, <1>d, <2>1
    <2>3. Len(asked) - Len(todo) <= Len(asked)
      BY <1>2, <1>d
    <2>4. Counted(asked, todo, failed)'
      BY <1>2, <1>d, <2>2, <2>3 DEF Counted
    <2> QED
      BY <1>2, <2>4 DEF CountInv
  (* The fetch of the first watch still to do is recorded. *)
  <1>3. ASSUME tick # None, todo # <<>>, tick'.todo = Tail(todo), tick'.asked = asked,
               \A x \in Watches : x # todo[1] => past'[x].fetches = past[x].fetches,
               \/ tick'.failed = failed + 1 /\ LastFailed(todo[1])'
               \/ tick'.failed = failed /\ ~LastFailed(todo[1])'
        PROVE  CountInv'
    <2>1. PICK done : done = Len(asked) - Len(todo)
      OBVIOUS
    <2>a. /\ Len(asked) \in Nat /\ Len(todo) \in Nat /\ Len(todo) >= 1
          /\ DOMAIN asked = 1..Len(asked) /\ DOMAIN todo = 1..Len(todo)
          /\ \A i \in 1..Len(asked) : asked[i] \in Watches
      <3>1. Len(todo) # 0
        BY <1>3, <1>d, EmptySeq
      <3> QED
        BY <1>3, <1>d, <3>1
    <2>b. done \in Nat /\ Len(asked) = done + Len(todo)
      BY <1>3, <1>d, <2>1, <2>a DEF Counted
    <2>2. /\ \A i \in 1..Len(todo) : todo[i] = asked[done + i]
          /\ \A i, j \in 1..Len(asked) : asked[i] = asked[j] => i = j
          /\ failed <= done /\ asked # <<>>
          /\ failed = done <=> \A i \in 1..done : LastFailed(asked[i])
      BY <1>3, <1>d, <2>1, <2>a DEF Counted
    <2>3. PICK rest : rest = Tail(todo)
      OBVIOUS
    <2>4. /\ rest \in Seq(Watches) /\ Len(rest) = Len(todo) - 1
          /\ \A i \in 1..Len(rest) : rest[i] = todo[i + 1]
      BY <1>3, <1>d, <2>3, HeadTailProperties
    <2>5. done + 1 \in 1..Len(asked) /\ todo[1] = asked[done + 1]
      BY <2>a, <2>b, <2>2
    <2>6. \A i \in 1..done : LastFailed(asked[i])' <=> LastFailed(asked[i])
      <3>1. \A i \in 1..done : i \in 1..Len(asked) /\ asked[i] # todo[1]
        BY <2>a, <2>b, <2>2, <2>5
      <3>2. \A i \in 1..done : past'[asked[i]].fetches = past[asked[i]].fetches
        BY <1>3, <2>a, <3>1
      <3> QED
        BY <3>2 DEF LastFailed
    <2>7. Len(asked) - Len(rest) = done + 1
      BY <2>a, <2>b, <2>4
    <2>8. \A i \in 1..Len(rest) : rest[i] = asked[(done + 1) + i]
      <3> TAKE i \in 1..Len(rest)
      <3>1. i + 1 \in 1..Len(todo) /\ (done + 1) + i = done + (i + 1)
        BY <2>a, <2>b, <2>4
      <3> QED
        BY <2>2, <2>4, <3>1
    <2>9. PICK count : count = tick'.failed
      OBVIOUS
    <2>10. count <= done + 1 /\ (count = done + 1 <=> \A i \in 1..(done + 1) : LastFailed(asked[i])')
      <3>1. CASE count = failed + 1 /\ LastFailed(todo[1])'
        <4>1. (\A i \in 1..(done + 1) : LastFailed(asked[i])') <=> (\A i \in 1..done : LastFailed(asked[i])')
          BY <2>b, <2>5, <3>1
        <4> QED
          BY <1>3, <1>d, <2>b, <2>2, <2>6, <3>1, <4>1
      <3>2. CASE count = failed /\ ~LastFailed(todo[1])'
        <4>1. ~LastFailed(asked[done + 1])'
          BY <2>5, <3>2
        <4>2. ~(\A i \in 1..(done + 1) : LastFailed(asked[i])')
          BY <2>b, <4>1
        <4>3. count \in Nat /\ count <= done
          BY <1>3, <1>d, <2>2, <3>2
        <4> QED
          BY <2>b, <4>2, <4>3
      <3> QED
        BY <1>3, <2>9, <3>1, <3>2
    <2>11. Counted(asked, rest, count)'
      <3>1. DOMAIN rest = 1..Len(rest) /\ done + 1 >= 0
        BY <2>b, <2>4
      <3>2. /\ asked # <<>> /\ \A i, j \in DOMAIN asked : asked[i] = asked[j] => i = j
            /\ Len(asked) - Len(rest) = done + 1
            /\ \A i \in DOMAIN rest : rest[i] = asked[(done + 1) + i]
        BY <2>a, <2>2, <2>7, <2>8, <3>1
      <3> QED
        BY <2>10, <3>1, <3>2 DEF Counted
    <2> QED
      BY <1>3, <2>3, <2>9, <2>11 DEF CountInv
  <1>4. ASSUME NEW price \in Prices, NEW idea \in BOOLEAN, Evaluate(price, idea) PROVE CountInv'
    <2>1. \A x \in Watches : past'[x].fetches = past[x].fetches
      BY <1>0, <1>4, EvaluateFacts
    <2>2. tick # None /\ tick'.todo = tick.todo /\ tick'.asked = tick.asked /\ tick'.failed = tick.failed
      BY <1>0, <1>4 DEF Evaluate, TypeOK, Ticks
    <2> QED
      BY <1>a, <1>b, <1>c, <1>2, <2>1, <2>2
  <1>5. CASE FetchFails
    <2>1. \A x \in Watches : past'[x].fetches = past[x].fetches
      BY <1>0, <1>5, FetchFailsFacts
    <2>2. tick # None /\ tick'.todo = tick.todo /\ tick'.asked = tick.asked /\ tick'.failed = tick.failed
      BY <1>0, <1>5 DEF FetchFails, TypeOK, Ticks
    <2> QED
      BY <1>a, <1>b, <1>c, <1>2, <2>1, <2>2
  <1>6. CASE RecordFailure
    <2>1. tick # None /\ todo # <<>> /\ todo[1] = Head(tick.todo) /\ todo[1] \in Watches
      BY <1>0, <1>6, <1>b, HeadIsWatch DEF RecordFailure, TypeOK
    <2>2. \A x \in Watches : x # todo[1] => past'[x].fetches = past[x].fetches
      BY <1>0, <1>6, <2>1, RecordFailureFacts
    <2>3. LastFailed(todo[1])'
      BY <1>0, <1>6, <1>b, <2>1, RecordedFetch DEF LastFailed
    <2>4. tick'.todo = Tail(todo) /\ tick'.asked = asked /\ tick'.failed = failed + 1
      <3>1. PICK d : d = Done(tick)
        OBVIOUS
      <3>2. d \in Ticks /\ d.todo = Tail(todo) /\ d.asked = asked /\ d.failed = failed
        BY <1>0, <1>a, <1>b, <1>c, <2>1, <3>1, DoneType
      <3>3. tick' = [d EXCEPT !.failed = @ + 1]
        BY <1>6, <3>1 DEF RecordFailure
      <3> QED
        BY <3>2, <3>3 DEF Ticks
    <2> QED
      BY <1>3, <2>1, <2>2, <2>3, <2>4
  <1>7. CASE Save
    <2>1. tick # None /\ todo # <<>> /\ todo[1] = Head(tick.todo) /\ todo[1] \in Watches
      <3>1. tick # None /\ tick.step = "save"
        BY <1>7 DEF Save
      <3>2. tick.todo # <<>>
        BY <1>0, <3>1 DEF TypeOK
      <3>3. Head(tick.todo) \in Watches
        BY <1>0, <3>1, <3>2, HeadIsWatch
      <3> QED BY <1>b, <3>1, <3>2, <3>3
    <2>2. \A x \in Watches : x # todo[1] => past'[x].fetches = past[x].fetches
      <3>1. PICK r : r = tick.held
        OBVIOUS
      <3> QED
        BY <1>0, <1>7, <2>1, <3>1, SaveFacts
    <2>3. ~LastFailed(todo[1])'
      BY <1>0, <1>7, <1>b, <2>1, RecordedFetch DEF LastFailed
    <2>4. tick'.todo = Tail(todo) /\ tick'.asked = asked /\ tick'.failed = failed
      BY <1>0, <1>7, <1>a, <1>b, <1>c, <2>1, DoneType DEF Save
    <2> QED
      BY <1>3, <2>1, <2>2, <2>3, <2>4
  <1>8. ASSUME tick' = None PROVE CountInv'
    BY <1>8 DEF CountInv
  <1>9. ASSUME NEW o \in Order, Execute(o) PROVE CountInv'
    BY <1>a, <1>b, <1>c, <1>2, <1>8, <1>9 DEF Execute
  <1>10. CASE UNCHANGED vars
    BY <1>a, <1>b, <1>c, <1>2, <1>8, <1>10 DEF vars
  <1>11. ASSUME NEW read \in BOOLEAN, Start(config, read) PROVE CountInv'
    <2>1. config \in Seq(Watches) /\ config # <<>> /\ \A i, j \in DOMAIN config : config[i] = config[j] => i = j
      BY <1>0, WatchdogAssumption DEF TypeOK, NamesAreUnique
    <2> QED
      BY <1>1, <1>11, <2>1
  <1>12. ASSUME NEW w \in Range(config), NEW read \in BOOLEAN, Start(<<w>>, read) PROVE CountInv'
    <2>1. w \in Watches
      BY <1>0, WatchdogAssumption DEF TypeOK, Range
    <2>2. <<w>> \in Seq(Watches) /\ <<w>> # <<>> /\ DOMAIN <<w>> = {1}
      BY <2>1
    <2> QED
      BY <1>1, <1>12, <2>2
  <1> QED
    BY <1>4, <1>5, <1>6, <1>7, <1>8, <1>9, <1>10, <1>11, <1>12
       DEF Next, Finish, SaveFails, Kill, ClearMarker, Recreate, Pass

(* The inductive invariant holds throughout.                               *)
LEMMA InvHolds == Spec => []IInv
  BY InvInit, InvStep, PTL DEF Spec

(* Every variable keeps its type: a saved state has all its keys, a tick   *)
(* about to save holds a result for the watch at its head.                 *)
THEOREM TypeCorrect == Spec => []TypeOK
  BY InvHolds, PTL DEF IInv

(* Whatever is killed or fails between printing, saving and exiting, what  *)
(* the file calls alerted was heard, is about to be, or was lost with a    *)
(* killed process; only levels are ever silenced.                          *)
THEOREM NothingIsSwallowed == Spec => []NothingSwallowed
  BY InvHolds, PTL DEF IInv

(* A venue fill is reported once in the lifetime of a state file, unless a *)
(* save failed after the report.                                           *)
THEOREM FillsAreReportedOnce == Spec => []ReportedOnce
  BY InvHolds, PTL DEF IInv

(* A reported fill is a stop of the venue that closed in the lifetime of   *)
(* the watch, or at most Grace before it.                                  *)
THEOREM FillsAreNotForeign == Spec => []NoForeignFill
  BY InvHolds, PTL DEF IInv

(* A recovery alert follows two saved prices above the entry and a drop.   *)
THEOREM RecoveriesAreConfirmed == Spec => []RecoveryIsConfirmed
  BY InvHolds, PTL DEF IInv

(* The exit code of a tick that has done all its watches.                  *)
LEMMA FatalStep ==
  IInv /\ CountInv /\ [Next]_vars =>
    [tick # None /\ tick.step = "watch" /\ tick.todo = <<>> /\ code' # code =>
       (code' = 1 <=>
          \A w \in Range(tick.asked) :
            LET f == past[w].fetches IN
            /\ f # <<>> /\ f[Len(f)]
            /\ Cardinality({i \in DOMAIN f : f[i]}) >= Threshold)]_vars
  <1> SUFFICES ASSUME IInv, CountInv, [Next]_vars,
                      tick # None, tick.step = "watch", tick.todo = <<>>, code' # code
               PROVE  code' = 1 <=>
                        \A w \in Range(tick.asked) :
                          LET f == past[w].fetches IN
                          /\ f # <<>> /\ f[Len(f)]
                          /\ Cardinality({i \in DOMAIN f : f[i]}) >= Threshold
    BY Zenon
  <1>1. Finish
    BY DEF Next, Start, Evaluate, FetchFails, RecordFailure, Save, SaveFails, Kill, ClearMarker,
           Recreate, Execute, Pass, vars, IInv, TickInv
  <1>2. PICK asked : asked = tick.asked
    OBVIOUS
  <1>3. PICK failed : failed = tick.failed
    OBVIOUS
  <1>4. /\ asked \in Seq(Watches) /\ failed \in Nat /\ Counted(asked, <<>>, failed)
        /\ Len(asked) \in Nat /\ DOMAIN asked = 1..Len(asked)
    BY <1>2, <1>3 DEF IInv, TypeOK, Ticks, CountInv
  <1>5. failed = Len(asked) <=> \A i \in 1..Len(asked) : LastFailed(asked[i])
    <2>1. Len(<<>>) = 0 /\ Len(asked) - 0 = Len(asked)
      BY <1>4
    <2> QED
      BY <1>4, <2>1 DEF Counted
  <1>6. Range(asked) = {asked[i] : i \in 1..Len(asked)} /\ Range(asked) \subseteq Watches
    BY <1>4 DEF Range
  <1>7. failed = Len(asked) <=> \A w \in Range(asked) : LastFailed(w)
    BY <1>5, <1>6
  <1>8. Len(asked) > 0
    <2>1. asked # <<>>
      BY <1>4 DEF Counted
    <2>2. Len(asked) # 0
      BY <1>4, <2>1, EmptySeq
    <2> QED
      BY <1>4, <2>2
  <1>9. \A w \in Range(asked) : LastFailed(w) =>
          (Sustained(w) <=>
             Cardinality({i \in DOMAIN past[w].fetches : past[w].fetches[i]}) >= Threshold)
    BY <1>6 DEF LastFailed, Sustained, IInv, WindowInv
  <1>10. code' = 1 <=> failed > 0 /\ failed = Len(asked) /\ \A w \in Range(asked) : Sustained(w)
    BY <1>1, <1>2, <1>3 DEF Finish
  <1>11. code' = 1 <=> \A w \in Range(asked) : LastFailed(w) /\ Sustained(w)
    BY <1>4, <1>7, <1>8, <1>10
  <1> QED
    BY <1>2, <1>9, <1>11 DEF LastFailed

(* With distinct names in the configuration, the exit code is fatal        *)
(* exactly when every watch of the tick failed now and often before: the   *)
(* counter of the tick and the windows in the files agree with what        *)
(* happened to the fetches.                                                *)
THEOREM FatalMeansOutage == ASSUME NamesAreUnique PROVE Spec => FatalIsAnOutage
  <1>1. Init => CountInv
    BY DEF Init, CountInv
  <1>2. IInv /\ CountInv /\ [Next]_vars => CountInv'
    BY CountStep
  <1> QED
    BY <1>1, <1>2, FatalStep, InvHolds, PTL DEF Spec, FatalIsAnOutage
=============================================================================
