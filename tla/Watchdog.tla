------------------------------- MODULE Watchdog -------------------------------
(***************************************************************************)
(* The position watchdog: a scheduled tick that walks the configured       *)
(* watches, fetches a price for each, evaluates its levels, its strategy   *)
(* signals and the venue's stop fills against the state saved by earlier   *)
(* ticks, prints the alerts and replaces the state file.  A tick can be    *)
(* killed, or die of a failed save, between any two of those steps.  What  *)
(* it prints sits in the process's output buffer until it exits.           *)
(***************************************************************************)
EXTENDS Integers, FiniteSets, SequencesExt

CONSTANTS
  Watches,      \* watch names
  Configs,      \* configuration files: sequences of enabled watches
  Levels,       \* Levels[w]: records [type, at], a zone [type, low, high]
  Entry,        \* Entry[w]: its entry price, or None
  Signals,      \* the watches with a signals block (one strategy, one direction)
  Venue,        \* the watches on kraken that have venue stops on
  Order,        \* venue orders
  Orders,       \* the records [watch, kind, full] an order may turn out to be
  Prices,       \* prices a fetch may return
  None,         \* an absent value
  Cooldown, Grace, StaleAfter,   \* durations, in the model's units of time
  Lookback, Threshold,           \* the window of fetch outcomes
  MaxTime, MaxMishaps            \* bounds, per configuration: the clock; kills, failed saves, resets

ASSUME WatchdogAssumption ==
  /\ Configs \subseteq Seq(Watches)
  /\ \A w \in Watches : \A l \in Levels[w] : "type" \in DOMAIN l
  /\ Entry \in [Watches -> Int \cup {None}] /\ Prices \subseteq Int
  /\ Orders \subseteq [watch : Watches, kind : STRING, full : BOOLEAN]
  /\ {Cooldown, Grace, StaleAfter} \subseteq Nat /\ {Lookback, Threshold} \subseteq Nat \ {0}

VARIABLES
  config,   \* the watches the configuration file enables, in its order
  now,      \* the clock
  venue,    \* venue[o]: the closed order [watch, kind, full, at], or None
  file,     \* file[w]: the saved state of watch w, or None
  tick,     \* the running tick, or None
  code,     \* the exit code of the tick that just ended, or None
  mishaps,  \* kills, failed saves and resets so far
  heard,    \* heard[w]: how often (0, 1, more) each alert reached the reader, since
            \* the file was created
  lost,     \* lost[w]: alerts that died in the buffer of a killed tick
  muted,    \* muted[w]: levels marked as fired by a tick that could not alert
  past      \* past[w]: what really happened to w since the file was created

Zones(w) == {l \in Levels[w] : l.type = "zone"}
Fill(o) == [fill |-> o]
Alerts(w) == Levels[w] \cup {Fill(o) : o \in Order}
Facts == {"stop", "tp", "drop", "invalidation"}
StopKinds == {"stop-loss", "trailing-stop"}

vars == <<config, now, venue, file, tick, code, mishaps, heard, lost, muted, past>>

NoLevels == [alerted |-> {}, streak |-> 0, prev |-> None]
(* A state file without any of the keys the evaluators read. *)
Blank == [levels |-> NoLevels, signal |-> None, seen |-> {}, closed |-> None,
          created |-> None, window |-> <<>>, updated |-> None]
Unborn == [born |-> None, fetches |-> <<>>, above |-> FALSE, died |-> FALSE]
(* What _process_watch returned for the watch about to be saved. *)
Nothing == [next |-> None, alerts |-> {}, mute |-> {}, signal |-> FALSE, price |-> None]
Speaks(r) == r.alerts # {} \/ r.signal

Cap(s, n) == IF Len(s) > n THEN Tail(s) ELSE s

Init ==
  /\ config \in Configs
  /\ now = 0
  /\ venue = [o \in Order |-> None]
  /\ file = [w \in Watches |-> None]
  /\ tick = None
  /\ code = None
  /\ mishaps = 0
  /\ heard = [w \in Watches |-> [a \in Alerts(w) |-> 0]]
  /\ lost = [w \in Watches |-> {}]
  /\ muted = [w \in Watches |-> {}]
  /\ past = [w \in Watches |-> Unborn]

-----------------------------------------------------------------------------
(* The evaluators *)

Hit(l, price) ==
  CASE l.type \in {"stop", "drop"} -> price <= l.at
    [] l.type = "tp" -> price >= l.at
    [] l.type = "invalidation" -> price < l.at
    [] l.type = "zone" -> l.low <= price /\ price <= l.high
    [] OTHER -> FALSE

(* Mutant: the streak survives a price at or below the entry. *)
Streak_Sticky(w, price, st) ==
  IF price > Entry[w] THEN Min({2, st.streak + 1}) ELSE st.streak

(* Consecutive prices above the entry: only a recovery level counts them,  *)
(* every price that is not above resets them.  Two are as good as more.    *)
Streak(w, price, st) ==
  IF price > Entry[w] THEN Min({2, st.streak + 1}) ELSE 0

(* evaluate_levels: the levels that alert at this price, and the new state. *)
Fires(w, price, st) ==
  LET once == {l \in Levels[w] : l.type \in Facts /\ Hit(l, price) /\ l \notin st.alerted}
      entered == {l \in Zones(w) : Hit(l, price) /\ (st.prev = None \/ ~Hit(l, st.prev))}
      recovered == {l \in Levels[w] :
        /\ l.type = "recovery" /\ Entry[w] # None
        /\ price > Entry[w] /\ Streak(w, price, st) >= 2
        /\ \E d \in st.alerted : d.type = "drop"
        /\ l \notin st.alerted}
  IN once \cup entered \cup recovered

EvaluateLevels(w, price, st) ==
  [alerted |-> st.alerted \cup Fires(w, price, st),
   streak |-> IF Entry[w] = None THEN st.streak
              ELSE IF \E l \in Levels[w] : l.type = "recovery" THEN Streak(w, price, st)
              ELSE IF price > Entry[w] THEN st.streak ELSE 0,
   prev |-> price]

(* evaluate_signals: an idea alerts unless one did within the cooldown. *)
SignalFires(idea, last, at) == idea /\ (last = None \/ at - last >= Cooldown)

(* Mutant: the state's lifetime is not looked at. *)
Candidates_AnyAge(w, orders, st) ==
  {o \in Order : /\ orders[o] # None
                 /\ orders[o].watch = w /\ orders[o].kind \in StopKinds
                 /\ o \notin st.seen}

(* evaluate_venue_stop_fills: executed stop-family sells of the watch's    *)
(* asset, not reported yet, that closed within the state's lifetime.       *)
Candidates(w, orders, st) ==
  {o \in Order : /\ orders[o] # None
                 /\ orders[o].watch = w /\ orders[o].kind \in StopKinds
                 /\ o \notin st.seen
                 /\ orders[o].at > st.created - Grace}

(* _state_is_stale *)
Stale(s) == s = None \/ now - s.updated > StaleAfter

(* Mutant: a stale file is treated as empty altogether. *)
Raw_Fresh(s) == IF Stale(s) THEN Blank ELSE s
(* What a tick keeps of a file however old it is: the ledger of reported   *)
(* fills, the closure and the anchor.                                      *)
Raw(s) == IF s = None THEN Blank ELSE s

(* The start of the state's lifetime: the saved one, else the last save of *)
(* a file that has none, else this tick.                                   *)
Anchor(s, at) ==
  IF s = None THEN at ELSE IF s.created # None THEN s.created ELSE s.updated

(* Mutant: events of a stale state are dropped, venue fills included. *)
Loud_Stale(stale, fills, levels) == IF stale THEN {} ELSE {Fill(o) : o \in fills} \cup levels
(* The alerts of a tick: a stale state silences levels, never fills. *)
Loud(stale, fills, levels) == {Fill(o) : o \in fills} \cup (IF stale THEN {} ELSE levels)

(* _process_watch, price in hand: the new state, and the alerts. *)
Process(w, price, idea) ==
  LET raw == Raw(file[w])
      stale == Stale(file[w])
      kept == IF stale THEN Blank ELSE file[w]
      born == [raw EXCEPT !.created = Anchor(file[w], tick.at),
                          !.levels = kept.levels, !.signal = kept.signal]
      reading == tick.orders # None /\ w \in Venue
      fills == IF reading THEN Candidates(w, tick.orders, born) ELSE {}
      full == {o \in fills : tick.orders[o].full}
      fires == IF Levels[w] # {} THEN Fires(w, price, born.levels) ELSE {}
      signals == w \in Signals /\ SignalFires(idea, born.signal, tick.at)
      seen == [born EXCEPT !.seen = @ \cup fills,
                           !.closed = IF full = {} THEN None ELSE CHOOSE o \in full : TRUE]
      silent == [Nothing EXCEPT !.price = price]
  IN IF raw.closed # None THEN [silent EXCEPT !.next = born]
     ELSE IF full # {} THEN [silent EXCEPT !.next = seen, !.alerts = Loud(stale, fills, {})]
     ELSE [next |-> [seen EXCEPT !.levels = IF Levels[w] = {} THEN @
                                            ELSE EvaluateLevels(w, price, @),
                                 !.signal = IF signals THEN tick.at ELSE @],
           alerts |-> Loud(stale, fills, fires),
           mute |-> IF stale THEN fires ELSE {},
           signal |-> signals /\ ~stale,
           price |-> price]

-----------------------------------------------------------------------------
(* One tick *)

(* main, up to the loop: the configuration (all of it, or --watch), and    *)
(* one read of the venue's closed orders, which may fail or not be asked.  *)
Start(todo, read) ==
  /\ tick = None
  /\ tick' = [step |-> "watch", at |-> now, todo |-> todo, asked |-> todo,
              orders |-> IF read /\ Range(todo) \cap Venue # {}
                         THEN venue ELSE None,
              out |-> {}, failed |-> 0, told |-> FALSE, held |-> Nothing]
  /\ code' = None
  /\ UNCHANGED <<config, now, venue, file, mishaps, heard, lost, muted, past>>

(* The lifetime of w's state begins with the first tick that looks at it. *)
Born(w) == [past[w] EXCEPT !.born = IF @ = None THEN tick.at ELSE @]

(* The price arrived: evaluate and print. *)
Evaluate(price, idea) ==
  /\ tick # None /\ tick.step = "watch" /\ tick.todo # <<>>
  /\ LET w == Head(tick.todo)
         r == Process(w, price, idea)
     IN /\ tick' = [tick EXCEPT !.step = "save", !.held = r, !.told = @ \/ Speaks(r),
                                 !.out = @ \cup {<<w, a>> : a \in r.alerts}]
        /\ past' = [past EXCEPT ![w] = Born(w)]
  /\ UNCHANGED <<config, now, venue, file, code, mishaps, heard, lost, muted>>

(* No price: nothing is evaluated, the failure is still to be recorded. *)
FetchFails ==
  /\ tick # None /\ tick.step = "watch" /\ tick.todo # <<>>
  /\ tick' = [tick EXCEPT !.step = "failed"]
  /\ past' = [past EXCEPT ![Head(tick.todo)] = Born(Head(tick.todo))]
  /\ UNCHANGED <<config, now, venue, file, code, mishaps, heard, lost, muted>>

Done(t) == [t EXCEPT !.step = "watch", !.todo = Tail(@), !.held = Nothing]

(* _record_fetch_outcome: the file as it is now, one more failure, a new stamp. *)
RecordFailure ==
  /\ tick # None /\ tick.step = "failed"
  /\ LET w == Head(tick.todo)
         s == Raw(file[w])
     IN /\ file' = [file EXCEPT ![w] =
             [s EXCEPT !.window = Cap(Append(@, TRUE), Lookback), !.updated = now]]
        /\ past' = [past EXCEPT ![w].fetches = Cap(Append(@, TRUE), Lookback)]
  /\ tick' = [Done(tick) EXCEPT !.failed = @ + 1]
  /\ UNCHANGED <<config, now, venue, code, mishaps, heard, lost, muted>>

(* Mutant: the new state carries no window over from the file. *)
AfterSuccess_Forgets(s) == <<FALSE>>

(* _window_after_success *)
AfterSuccess(s) == Cap(Append(Raw(s).window, FALSE), Lookback)

(* _save_state: the window is read from the file once more. *)
Save ==
  /\ tick # None /\ tick.step = "save"
  /\ LET w == Head(tick.todo)
         r == tick.held
     IN /\ file' = [file EXCEPT ![w] =
             [r.next EXCEPT !.window = AfterSuccess(file[w]), !.updated = now]]
        /\ muted' = [muted EXCEPT ![w] = @ \cup r.mute]
        /\ past' = [past EXCEPT ![w].fetches = Cap(Append(@, FALSE), Lookback),
                                ![w].above = IF r.next.closed # None THEN @
                                             ELSE Entry[w] # None /\ r.price > Entry[w]]
  /\ tick' = Done(tick)
  /\ UNCHANGED <<config, now, venue, code, mishaps, heard, lost>>

Sustained(w) ==
  file[w] # None /\ Cardinality({i \in DOMAIN file[w].window : file[w].window[i]}) >= Threshold

Deliver ==
  heard' = [w \in Watches |-> [a \in Alerts(w) |->
              Min({2, heard[w][a] + IF <<w, a>> \in tick.out THEN 1 ELSE 0})]]

(* main, after the loop: the exit code. *)
Finish ==
  /\ tick # None /\ tick.step = "watch" /\ tick.todo = <<>>
  /\ code' = IF /\ tick.failed > 0 /\ tick.failed = Len(tick.asked)
                /\ \A w \in Range(tick.asked) : Sustained(w) THEN 1
             ELSE IF tick.failed > 0 /\ tick.told THEN 2 ELSE 0
  /\ Deliver
  /\ tick' = None
  /\ UNCHANGED <<config, now, venue, file, mishaps, lost, muted, past>>

-----------------------------------------------------------------------------
(* What can go wrong, and what happens around the ticks *)

(* The state directory cannot be written: the exception ends the process,  *)
(* which flushes what it printed.                                          *)
SaveFails ==
  /\ tick # None /\ tick.step \in {"save", "failed"}
  /\ mishaps < MaxMishaps[config]
  /\ mishaps' = mishaps + 1
  /\ Deliver
  /\ past' = [past EXCEPT ![Head(tick.todo)].died = TRUE]
  /\ tick' = None
  /\ UNCHANGED <<config, now, venue, file, code, lost, muted>>

(* SIGKILL: the output buffer goes with the process. *)
Kill ==
  /\ tick # None
  /\ mishaps < MaxMishaps[config]
  /\ mishaps' = mishaps + 1
  /\ lost' = [w \in Watches |-> lost[w] \cup {a \in Alerts(w) : <<w, a>> \in tick.out}]
  /\ tick' = None
  /\ UNCHANGED <<config, now, venue, file, code, heard, muted, past>>

(* The operator re-enters a position: the closure marker is edited out. *)
ClearMarker(w) ==
  /\ tick = None
  /\ mishaps < MaxMishaps[config]
  /\ file[w] # None /\ file[w].closed # None
  /\ mishaps' = mishaps + 1
  /\ file' = [file EXCEPT ![w].closed = None]
  /\ UNCHANGED <<config, now, venue, tick, code, heard, lost, muted, past>>

(* The operator recreates a watch: its state file is deleted. *)
Recreate(w) ==
  /\ tick = None
  /\ mishaps < MaxMishaps[config]
  /\ file[w] # None
  /\ mishaps' = mishaps + 1
  /\ file' = [file EXCEPT ![w] = None]
  /\ heard' = [heard EXCEPT ![w] = [a \in Alerts(w) |-> 0]]
  /\ lost' = [lost EXCEPT ![w] = {}]
  /\ muted' = [muted EXCEPT ![w] = {}]
  /\ past' = [past EXCEPT ![w] = Unborn]
  /\ UNCHANGED <<config, now, venue, tick, code>>

ClosedOrder(r) == [watch |-> r.watch, kind |-> r.kind, full |-> r.full, at |-> now]

(* The venue executes an order. *)
Execute(o) ==
  /\ venue[o] = None
  /\ \E r \in Orders : r.watch \in Range(config) /\ venue' = [venue EXCEPT ![o] = ClosedOrder(r)]
  /\ code' = None
  /\ UNCHANGED <<config, now, file, tick, mishaps, heard, lost, muted, past>>

(* A tick is over within a fraction of the unit of time. *)
Pass ==
  /\ tick = None
  /\ now < MaxTime[config]
  /\ now' = now + 1
  /\ code' = None
  /\ UNCHANGED <<config, venue, file, tick, mishaps, heard, lost, muted, past>>

Next ==
  \/ \E read \in BOOLEAN : Start(config, read)
  \/ \E w \in Range(config), read \in BOOLEAN : Start(<<w>>, read)
  \/ \E price \in Prices, idea \in BOOLEAN : Evaluate(price, idea)
  \/ FetchFails
  \/ RecordFailure
  \/ Save
  \/ Finish
  \/ SaveFails
  \/ Kill
  \/ \E w \in Watches : ClearMarker(w) \/ Recreate(w)
  \/ \E o \in Order : Execute(o)
  \/ Pass

Spec == Init /\ [][Next]_vars

-----------------------------------------------------------------------------
(* Types.  The file of a watch, what an evaluation returned for it, a tick. *)

AllLevels == UNION {Levels[w] : w \in Watches}
StateWith(levels) ==
  [levels : [alerted : SUBSET levels, streak : 0..2, prev : Int \cup {None}],
   signal : Nat \cup {None}, seen : SUBSET Order, closed : Order \cup {None},
   created : Nat \cup {None}, window : Seq(BOOLEAN), updated : Nat \cup {None}]
StateOf(w) == StateWith(Levels[w])
ResultOf(w) ==
  [next : StateOf(w), alerts : SUBSET Alerts(w), mute : SUBSET Levels[w],
   signal : BOOLEAN, price : Int]
ClosedOrders == [watch : Watches, kind : STRING, full : BOOLEAN, at : Nat]
Ticks ==
  [step : {"watch", "save", "failed"}, at : Nat, todo : Seq(Watches), asked : Seq(Watches),
   orders : {None} \cup [Order -> ClosedOrders \cup {None}],
   out : SUBSET (Watches \X UNION {Alerts(w) : w \in Watches}), failed : Nat, told : BOOLEAN,
   held : [next : StateWith(AllLevels) \cup {None}, alerts : SUBSET UNION {Alerts(w) : w \in Watches},
           mute : SUBSET AllLevels, signal : BOOLEAN, price : Int \cup {None}]]

(* An absent value is none of the values it stands for. *)
ASSUME NoneAssumption ==
  /\ None \notin Int \cup Order \cup Ticks
  /\ \A w \in Watches : None \notin StateOf(w)

TypeOK ==
  /\ config \in Configs /\ now \in Nat /\ mishaps \in Nat /\ code \in {None} \cup 0..2
  /\ venue \in [Order -> ClosedOrders \cup {None}]
  /\ DOMAIN file = Watches /\ \A w \in Watches : file[w] \in StateOf(w) \cup {None}
  /\ tick \in Ticks \cup {None}
  /\ tick # None /\ tick.step # "watch" => tick.todo # <<>>
  /\ tick # None /\ tick.step = "save" => tick.held \in ResultOf(Head(tick.todo))
  /\ DOMAIN heard = Watches /\ \A w \in Watches : heard[w] \in [Alerts(w) -> 0..2]
  /\ DOMAIN lost = Watches /\ \A w \in Watches : lost[w] \subseteq Alerts(w)
  /\ DOMAIN muted = Watches /\ \A w \in Watches : muted[w] \subseteq Levels[w]
  /\ past \in [Watches -> [born : Nat \cup {None}, fetches : Seq(BOOLEAN),
                           above : BOOLEAN, died : BOOLEAN]]

-----------------------------------------------------------------------------
(* Properties *)

Pending(w, a) == tick # None /\ <<w, a>> \in tick.out
Told(w, a) == heard[w][a] > 0 \/ Pending(w, a)
Closed(w) == file[w] # None /\ file[w].closed # None

(* What the file calls alerted reached the reader, unless it died in the   *)
(* buffer of a killed tick or a level was silenced by a stale state; a     *)
(* venue fill is never silenced.                                           *)
NothingSwallowed ==
  \A w \in Watches : file[w] # None =>
    /\ \A o \in file[w].seen : Told(w, Fill(o)) \/ Fill(o) \in lost[w]
    /\ \A l \in file[w].levels.alerted : Told(w, l) \/ l \in lost[w] \cup muted[w]

(* Within one lifetime of the state file a venue fill is reported once,    *)
(* however old the file gets, whatever is killed and even if the closure   *)
(* marker is removed: only a save that failed after the report repeats it. *)
ReportedOnce ==
  \A w \in Watches, o \in Order :
    heard[w][Fill(o)] + (IF Pending(w, Fill(o)) THEN 1 ELSE 0) > 1 => past[w].died

(* A reported fill is an exit order of the venue that closed in this       *)
(* lifetime, or at most Grace before it: a recreated watch does not report *)
(* the exits of the previous one.                                          *)
NoForeignFill ==
  \A w \in Watches, o \in Order : Told(w, Fill(o)) =>
    venue[o].kind \in StopKinds /\ venue[o].at > past[w].born - Grace

(* A recovery alert needs the last two saved prices above the entry, and   *)
(* a drop level that was marked as fired before.                           *)
RecoveryIsConfirmed ==
  tick # None /\ tick.step = "save" =>
    LET w == Head(tick.todo) IN
    \A l \in tick.held.alerts \cap Levels[w] : l.type = "recovery" =>
      /\ past[w].above /\ tick.held.price > Entry[w]
      /\ \E d \in file[w].levels.alerted : d.type = "drop"

(* A tick is fatal exactly when every watch it was asked for failed now    *)
(* and in Threshold of its last Lookback recorded fetches, those of other  *)
(* ticks (--watch) included.                                               *)
FatalIsAnOutage ==
  [][tick # None /\ tick.step = "watch" /\ tick.todo = <<>> /\ code' # code =>
       (code' = 1 <=>
          \A w \in Range(tick.asked) :
            LET f == past[w].fetches IN
            /\ f # <<>> /\ f[Len(f)]
            /\ Cardinality({i \in DOMAIN f : f[i]}) >= Threshold)]_vars
=============================================================================
