------------------------------ MODULE MCVenues ------------------------------
(***************************************************************************)
(* Small instances of the venue components for TLC: perps on Drift,        *)
(* bonding curves, concentrated liquidity, and the feed their guards read. *)
(* They share no state, so one behaviour moves one of them (`focus`).      *)
(***************************************************************************)
EXTENDS PerpsTrading, BondingCurve, Liquidity, MarketFeed, TLC

CONSTANT Parts   \* the components this run looks at

VARIABLE focus
vars == <<focus, perpVars, curveVars, lpVars, feedVars>>

\* a component out of focus waits in one initial state of its own
Init ==
  /\ focus \in Parts
  /\ PerpInit /\ CurveInit /\ LpInit /\ FeedInit
  /\ focus # "curve" => launch = CHOOSE l \in Launches : TRUE
  /\ focus # "curve" => evidence = CHOOSE e \in Evidences : TRUE
  /\ focus # "lp" => facts = CHOOSE f \in PoolFacts : TRUE
  /\ focus # "lp" => mode = CHOOSE m \in Modes : TRUE

Next ==
  \/ focus = "perps" /\ PerpNext /\ UNCHANGED <<focus, curveVars, lpVars, feedVars>>
  \/ focus = "curve" /\ CurveNext /\ UNCHANGED <<focus, perpVars, lpVars, feedVars>>
  \/ focus = "lp" /\ LpNext /\ UNCHANGED <<focus, perpVars, curveVars, feedVars>>
  \/ focus = "feed" /\ FeedNext /\ UNCHANGED <<focus, perpVars, curveVars, lpVars>>

Spec == Init /\ [][Next]_vars

-----------------------------------------------------------------------------
(* Constants *)

\* No action tells one slot for an order from another
MCSymmetry == Permutations(Orders)
Cond(status, oracle, mark, funded) ==
  [named |-> TRUE, status |-> status, oracle |-> oracle, mark |-> mark, funded |-> funded,
   funding |-> 0, margin |-> 5]
MCConditions == {Cond("active", 10, 10, TRUE), Cond("active", 8, 9, TRUE), Cond("reduce-only", 10, 0, FALSE)}
Req(kind, m, side, c, l, d) ==
  [kind |-> kind, market |-> m, side |-> side, collateral |-> c, leverage |-> l, delta |-> d,
   fraction |-> 100, slippage |-> 10, limit |-> FALSE, limitPrice |-> 0]
AtLimit(r, price) == [r EXCEPT !.limit = TRUE, !.limitPrice = price]
MCRequests ==
  {Req("perp_open", "S", "long", 2, 200, 0),
   Req("perp_open", "S", "long", 2, 400, 0), AtLimit(Req("perp_open", "B", "short", 1, 200, 0), 10),
   Req("perp_increase", "S", "long", 1, 100, 1), Req("perp_reduce", "S", "long", 0, 0, 1),
   Req("perp_close", "S", "long", 0, 0, 0)}
MCSwitches ==
  {[kill |-> k, armed |-> TRUE, enabled |-> TRUE, windDown |-> ~k] : k \in BOOLEAN}
MCOverrides ==
  [maxLeverage |-> 500, minDistance |-> 20, maxSlippage |-> 20, maxDivergence |-> 15,
   maxOpen |-> 2,
   caps |-> [b \in {"sol", "usdc"} |-> [collateral |-> 2, notional |-> 4, portfolio |-> 7]]]

MCConfigured ==
  [sol |-> [spend |-> 11, position |-> 24, floor |-> 5],
   usdc |-> [spend |-> 5, position |-> 12, floor |-> 5],
   maxPositions |-> 3, baseLegPct |-> 25, maxRugHeat |-> 60, maxSlippage |-> 20,
   minCurveSol |-> 4, allowlist |-> {}, token2022 |-> FALSE, maxSpan |-> 4]
Mint(m, live) ==
  [mint |-> m, read |-> TRUE, token2022 |-> FALSE, mintAuthority |-> live,
   freezeAuthority |-> FALSE]
Account(length, quote, program, mayhem, feeSource) ==
  [length |-> length, quote |-> quote, program |-> program, mayhem |-> mayhem,
   cashback |-> FALSE, feeSource |-> feeSource]
MCLaunches ==
  {Account(115, "sol", "spl", FALSE, "tiered"), Account(81, "other", "spl", TRUE, "fallback"),
   Account(115, "other", "spl", FALSE, "flat"), Account(0, "sol", "spl", FALSE, "global"),
   Account(49, "sol", "spl", FALSE, "global"), Account(115, "sol", "2022", FALSE, "global")}
Tier(threshold, fee) ==
  [threshold |-> threshold, fees |-> [protocol |-> fee, creator |-> fee]]
Seen(live, heat) ==
  [mint |-> Mint("t", live), heat |-> heat, fees |-> <<Tier(0, 0), Tier(600, 1)>>]
MCEvidences == {Seen(FALSE, 20), Seen(FALSE, -1), Seen(TRUE, 20)}
MCReserves == [vS |-> 30, vT |-> 107, rS |-> 6, rT |-> 40, complete |-> FALSE]

Facts(heat, apr) ==
  [quoteMint |-> "sol", liquidity |-> 9, mints |-> <<Mint("t", FALSE), Mint("sol", FALSE)>>,
   heat |-> heat, apr |-> apr, fee |-> 1]
MCFacts == {Facts(20, 400), Facts(60, -1)}
MCRange == [lower |-> 0, upper |-> 2]
LpReq(tool, at, bps) ==
  [tool |-> tool, at |-> at, quote |-> 5, base |-> 1, below |-> 1, above |-> 3, bps |-> bps,
   entry |-> 1]
MCLpRequests ==
  {LpReq("open", "p1", 0), LpReq("open", "new", 0), LpReq("close", "p1", 100),
   LpReq("close", "p2", 50), LpReq("rebalance", "p1", 0), LpReq("rebalance", "p2", 0)}
MCBell == [d \in 0..10 |-> CASE d = 0 -> 100 [] d = 1 -> 60 [] d = 2 -> 13 [] OTHER -> 1]
MCPolicy ==
  [driftBins |-> 0, edgePct |-> 10, minInterval |-> 1, maxPerDay |-> 2, horizon |-> 2,
   requireIl |-> TRUE, minNet |-> 0, below |-> 1, above |-> 1]

Printed(mint, buy, sol, trader) ==
  [mint |-> mint, buy |-> buy, sol |-> sol, trader |-> trader, ts |-> 0]
MCTrades == {Printed("a", TRUE, 12, "x"), Printed("a", FALSE, 1, "y")}
=============================================================================
