------------------------------ MODULE MCWatchdog ------------------------------
(* TLC instance of Watchdog with two configuration files: a kraken watch   *)
(* with levels and venue stops, and two watches of another venue of which  *)
(* one has signals, the other a zone and a take-profit.                    *)
EXTENDS Watchdog

MCWatches == {"held", "idea", "idle"}
MCConfigs == {<<"held">>, <<"idea">>, <<"idle", "idea">>}
(* The pair is there for the exit code, for which time does not matter. *)
MCMaxTime == [c \in MCConfigs |-> IF Len(c) = 1 THEN 2 ELSE 0]
MCMaxMishaps == [c \in MCConfigs |-> 1]
MCSignals == {"idea"}
MCLevels ==
  [w \in MCWatches |->
     CASE w = "held" -> {[type |-> "drop", at |-> 1], [type |-> "recovery"]}
       [] w = "idle" -> {[type |-> "zone", low |-> 1, high |-> 2], [type |-> "tp", at |-> 3]}
       [] OTHER -> {}]
MCEntry == [w \in MCWatches |-> IF w = "held" THEN 2 ELSE None]
MCOrders ==
  {[watch |-> "held", kind |-> "stop-loss", full |-> TRUE],
   [watch |-> "held", kind |-> "trailing-stop", full |-> FALSE],
   [watch |-> "held", kind |-> "market", full |-> TRUE]}
=============================================================================
