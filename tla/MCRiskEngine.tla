---------------------------- MODULE MCRiskEngine ----------------------------
(* A small portfolio: two assets, each in a tier with a cap of its own when *)
(* the portfolio is asked for by name.                                      *)
EXTENDS RiskEngine

CONSTANTS p1, p2, btc, sol

MCVet == {p1, p2}
MCAsset == {btc, sol}
MCCost == btc :> 4 @@ sol :> 1
MCQuotes == {2, 5}
MCTier == btc :> "tier1" @@ sol :> "tier2"
MCDefaults == [positionPct |-> 25, drawdownPct |-> 20, budget |-> 10, cooldown |-> 4,
               tierPct |-> NoLimits, leverage |-> 2, marginPct |-> 1, liquidationPct |-> 30,
               stopMinPct |-> 2, stopMaxPct |-> 25, fundingPct |-> 1, holdDays |-> 3]
MCOverrides == [global |-> [budget |-> 2],
                portfolio |-> [positionPct |-> 40, tierPct |-> ("tier1" :> 60 @@ "tier2" :> 20)],
                pair |-> (btc :> NoLimits @@ sol :> [positionPct |-> 10, budget |-> 1])]

(* A re-based portfolio, one whose old peak counted the cash twice, and    *)
(* one that never booked its allocation.                                   *)
MCFirstBooks ==
  {[held |-> (btc :> 1 @@ sol :> 0), cash |-> 6, peak |-> 0, rebased |-> TRUE],
   [held |-> (btc :> 1 @@ sol :> 1), cash |-> 5, peak |-> 15, rebased |-> FALSE],
   [held |-> (btc :> 0 @@ sol :> 2), cash |-> None, peak |-> 3, rebased |-> FALSE]}

Spot(a, side, vol, limit) ==
  [asset |-> a, side |-> side, venue |-> "spot", vol |-> vol, limit |-> limit,
   lev |-> None, stop |-> None, entry |-> None]
Perps(a, side, lev, stop, entry) ==
  [asset |-> a, side |-> side, venue |-> "perps", vol |-> 100, limit |-> None,
   lev |-> lev, stop |-> stop, entry |-> entry]
MCIntents ==
  {Spot(btc, "buy", v, None) : v \in {50, 80, 105, 140}}
  \cup {Spot(btc, "sell", 100, None), Spot(sol, "buy", 100, 1), Spot(sol, "buy", 150, 1),
        Perps(btc, "buy", 2, 90, 100), Perps(sol, "sell", 5, 101, 100)}
MCOutside == {[named |-> TRUE, macro |-> "RISK_OFF", perps |-> {}, funding |-> None],
              [named |-> FALSE, macro |-> None, perps |-> {[asset |-> btc, side |-> "buy"]}, funding |-> 0]}

Symmetry == Permutations(MCVet)
=============================================================================
