------------------------- MODULE MCBacktestPipeline -------------------------
(* One strategy on one interval over one symbol listed by two providers;   *)
(* the watchlist names the hl market twice, by its alias and in full.      *)
EXTENDS BacktestPipeline

Combo(k, p) == [key |-> k, strategy |-> "s", interval |-> "1d", prefix |-> p,
                symbol |-> "X"]
Alias == Combo("X", "hl")
Full == Combo("hl:X", "hl")
Other == Combo("kraken:X", "kraken")

Symmetry == Permutations(Runs)

MCCombos == {Alias, Full, Other}
MCGrids == {{}, {Other}, MCCombos}
MCOffer == Alias :> {"error", "strong"} @@ Full :> {"bankrupt", "losing"}
           @@ Other :> {"error", "short", "few", "silent", "weak"}
=============================================================================
