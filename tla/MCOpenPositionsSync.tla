-------------------------- MODULE MCOpenPositionsSync --------------------------
(* TLC instances of OpenPositionsSync: two providers' keys of one ticker,  *)
(* two portfolios, a watch by exact key, one by ticker, one parked.        *)
EXTENDS OpenPositionsSync, TLC

Entry(p, side, a, q, x) ==
  [pid |-> p, ts |-> 1, side |-> side, asset |-> a, qty |-> q, price |-> x,
   fee |-> 0, hash |-> NoHash]

MCPid == 1..2
MCAsset == {"kraken:X", "ccxt:X"}
MCCash == [p \in MCPid |-> {}]
MCTicker == ("kraken:X" :> "X") @@ ("ccxt:X" :> "X") @@ ("X/EUR" :> "X")
MCEntries == {Entry(1, "BUY", "kraken:X", 1, 1), Entry(1, "SELL", "kraken:X", 1, 2),
              Entry(1, "BUY", "ccxt:X", 1, 0), Entry(2, "SELL", "kraken:X", 1, 2)}
MCName == {"a", "b"}
MCScopes == {MCPid, {1}}
MCHand == {[cost |-> 5, qty |-> 1]}

W(n, m, on) == [name |-> n, monitor |-> m, enabled |-> on, size |-> Null, price |-> Null]
MCFirst ==
  LET R(i, e) == Row(e, i)
      buy == Entry(1, "BUY", "kraken:X", 1, 1)
      sell == Entry(1, "SELL", "kraken:X", 1, 2)
      gift == Entry(1, "BUY", "ccxt:X", 1, 0)
      a == W("a", "kraken:X", TRUE)
      b == W("b", "X/EUR", TRUE)
  IN {[rows |-> {R(1, buy), R(2, gift)}, file |-> <<a>>],
      [rows |-> {R(1, sell), R(2, buy)}, file |-> <<a, b>>]}

CONSTANTS s1, s2
Symmetry == Permutations({s1, s2})
=============================================================================
