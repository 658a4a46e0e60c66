------------------------------- MODULE MCLedger -------------------------------
(* A TLC instance of Ledger: portfolio 1 with a cash row in its base       *)
(* currency and one traded asset, portfolio 2 with another base currency,  *)
(* for which portfolio 1's cash key is an ordinary asset.  Portfolio 1 is  *)
(* named by the digits of the other's id.                                  *)
EXTENDS Reports

Entry(p, ts, side, a, q, x, f) ==
  [pid |-> p, ts |-> ts, side |-> side, asset |-> a, qty |-> q, price |-> x,
   fee |-> f, hash |-> NoHash]

MCPid == 1..2
MCAsset == {"EUR", "X"}
MCCash == [p \in MCPid |-> IF p = 1 THEN {"EUR"} ELSE {}]
MCTokens == {"main", "2"}
MCAsId == [k \in MCTokens |-> IF k = "2" THEN {2} ELSE {}]
MCNameOf == [p \in MCPid |-> IF p = 1 THEN "2" ELSE "main"]
MCPrices == {<<>>, [a \in {"X", "EUR"} |-> 2]}

(* Trades before and after the first cash row, and a sale that may come    *)
(* first or last.                                                          *)
MCEntries ==
  {Entry(1, 2, "BUY", "EUR", 3, 1, 0),
   Entry(1, 3, "SELL", "EUR", 1, 1, 0),
   Entry(1, 1, "BUY", "X", 1, 1, 0),
   Entry(1, 3, "BUY", "X", 2, 2, 1),
   Entry(1, 1, "SELL", "X", 2, 3, 1),
   Entry(1, 3, "SELL", "X", 2, 3, 1),
   [Entry(2, 1, "BUY", "X", 1, 1, 0) EXCEPT !.hash = "h"],
   Entry(2, 2, "SELL", "EUR", 1, 2, 1)}
=============================================================================
