----------------------------- MODULE PerpsGuards -----------------------------
(***************************************************************************)
(* The perps guards (perps/guards.ts) and what they are computed from: the *)
(* policy, the liquidation model, the portfolio exposure and the shape of  *)
(* an intent.  Pure operators: an intent i is a record of the perp leg's   *)
(* fields, a context c is what guardContext collects.                      *)
(*                                                                         *)
(* Ratios (leverage, margin, slippage, divergence, funding) count in       *)
(* 1/Bps; amounts and prices are integers.  A price that is missing or not *)
(* usable is 0.                                                            *)
(***************************************************************************)
EXTENDS Units, FiniteSets, FiniteSetsExt, Functions

CONSTANT
  Overrides     \* the PerpsPolicyOverrides, without the switches an operator moves

Undefined == 0 - 1
Abs(x) == IF x < 0 THEN 0 - x ELSE x
Larger(x, y) == IF x > y THEN x ELSE y
Smaller(x, y) == IF x < y THEN x ELSE y

Reducing(kind) == kind \in {"perp_reduce", "perp_close"}
Opening(kind) == kind \in {"perp_open", "perp_increase"}
Opposite(side) == IF side = "long" THEN "short" ELSE "long"
Usable(price) == price > 0

-----------------------------------------------------------------------------
(* Liquidation *)

\* The distance of the modelled liquidation price from the entry, in 1/Bps of the
\* entry and rounded down: modelLiquidationPrice divides the entry's margin
\* cushion by 1 - m (long) or 1 + m (short), liquidationDistanceBps takes the
\* signed gap and has no answer on the wrong side.  The entry price cancels.
ModelDistance(side, lev, m) ==
  LET scale == IF side = "long" THEN Bps - m ELSE Bps + m
      gap == IF side = "long" THEN lev * scale - (lev - Bps) * Bps
                              ELSE (lev + Bps) * Bps - lev * scale
  IN  IF lev <= 0 \/ m < 0 \/ m >= Bps \/ gap < 0
         \/ (side = "long" /\ lev < Bps)
      THEN Undefined
      ELSE (gap * Bps) \div (lev * scale)

\* liquidationDistanceBps of a price the venue gives
VenueDistance(side, entry, liq) ==
  LET gap == IF side = "long" THEN entry - liq ELSE liq - entry
  IN  IF ~Usable(entry) \/ liq < 0 \/ gap < 0 THEN Undefined ELSE (gap * Bps) \div entry

\* reconcileLiquidation: the nearer of the usable estimates, or none
Reconcile(venue, model) ==
  IF venue = Undefined THEN model
  ELSE IF model = Undefined THEN venue
  ELSE IF venue <= model THEN venue ELSE model

OracleDivergence(mark, oracle) ==
  IF Usable(mark) /\ Usable(oracle) THEN (Abs(mark - oracle) * Bps) \div oracle ELSE Undefined

-----------------------------------------------------------------------------
(* Policy and exposure *)

\* defaultPerpsPolicy, per cent and whole units where the code has basis points of
\* base units; a null allowlist allows every market (here: any but the empty name)
DefaultPolicy ==
  [maxLeverage |-> 3 * Bps, minDistance |-> (20 * Bps) \div 100,
   maxFunding |-> 5, maxAdverse |-> 2, maxSlippage |-> Bps \div 100,
   maxDivergence |-> Bps \div 100, maxOpen |-> 3,
   caps |-> [sol |-> [collateral |-> 1, notional |-> 3, portfolio |-> 10],
             usdc |-> [collateral |-> 200, notional |-> 600, portfolio |-> 2000]],
   allow |-> {"any"}, deny |-> {}, mints |-> {"usdc", "sol"}]

\* applyPerpsPolicyOverrides
Policy == [f \in DOMAIN DefaultPolicy |->
             IF f \in DOMAIN Overrides THEN Overrides[f] ELSE DefaultPolicy[f]]

\* quoteBucketFor: the mints whose amounts can be capped
Bucket(mint) ==
  CASE mint = "sol" -> "sol" [] mint \in {"usdc", "usdt"} -> "usdc" [] OTHER -> "none"

\* notionalFromCollateral
NotionalFrom(collateral, lev) ==
  IF lev <= 0 \/ collateral < 0 THEN Undefined ELSE (collateral * lev) \div Bps

\* exposureFrom, of the positions (records [market, side, base, notional, mint])
ExposureFrom(positions) ==
  [open |-> Cardinality(positions),
   notional |-> [b \in {"sol", "usdc"} |->
     SumFunctionOnSet([p \in positions |-> p.notional], {p \in positions : Bucket(p.mint) = b})],
   stale |-> \E p \in positions : Bucket(p.mint) = "none"]

\* staleExposure
StaleExposure == [open |-> 0, notional |-> [b \in {"sol", "usdc"} |-> 0], stale |-> TRUE]

\* positionIn
PositionIn(positions, m) == {p \in positions : p.market = m}

-----------------------------------------------------------------------------
(* assertPerpIntentShape *)

Shape(i) ==
  /\ Opening(i.kind) \/ Reducing(i.kind)
  /\ i.side \in {"long", "short"}
  /\ i.leverage > 0 /\ i.slippage >= 0
  /\ i.base > 0 /\ i.minBase >= 0 /\ i.minBase <= i.base
  /\ i.collateral >= 0 /\ i.notional >= 0
  /\ Usable(i.entry) /\ Usable(i.mark) /\ Usable(i.oracle)
  /\ i.margin \in 0..(Bps - 1)
  /\ i.limit => Usable(i.limitPrice)
  /\ i.reduceOnly = Reducing(i.kind)

-----------------------------------------------------------------------------
(* The rules, each the set of its violations *)

Refuse(when, code) == IF when THEN {code} ELSE {}

ArmState(i, c) ==
  IF c.kill /\ Opening(i.kind) THEN {"KILL_SWITCH"}
  ELSE IF ~c.dryRun /\ ~c.armed THEN {"PERPS_DISABLED"}
  ELSE IF ~c.enabled /\ Opening(i.kind) THEN {"PERPS_DISABLED"}
  ELSE Refuse(c.windDown /\ Opening(i.kind), "WIND_DOWN_ONLY")

AccountReady(i, c) == Refuse(~c.account, "ACCOUNT_NOT_INITIALIZED")

MarketAllowed(i, c) ==
  Refuse(i.market \in Policy.deny \/ Policy.allow \cap {"any", i.market} = {}, "MARKET_DENIED")

MarketTradeable(i, c) ==
  Refuse(i.status # "active" /\ ~(i.status = "reduce-only" /\ Reducing(i.kind)),
         "MARKET_NOT_TRADEABLE")

CollateralAllowed(i, c) == Refuse(i.mint \notin Policy.mints, "COLLATERAL_MINT_DENIED")

CollateralCappable(i, c) == Refuse(Bucket(i.mint) = "none", "COLLATERAL_NOT_CAPPABLE")

SlippageWithinClamp(i, c) == Refuse(i.slippage > Policy.maxSlippage, "SLIPPAGE_EXCEEDED")

ReduceIsAReduction(i, c) ==
  IF ~Reducing(i.kind) THEN {}
  ELSE IF c.position = {} THEN {"NO_POSITION"}
  ELSE UNION {Refuse(p.side = i.side, "POSITION_SIDE_MISMATCH") \cup
              Refuse(p.side # i.side /\ i.base > p.base, "SIZE_EXCEEDS_POSITION") :
              p \in c.position}

IncreaseMatchesPosition(i, c) ==
  IF i.kind # "perp_increase" THEN {}
  ELSE IF c.position = {} THEN {"NO_POSITION"}
  ELSE UNION {Refuse(p.side # i.side, "POSITION_SIDE_MISMATCH") : p \in c.position}

LeverageWithinCap(i, c) ==
  Refuse(Opening(i.kind) /\ i.leverage > Policy.maxLeverage, "LEVERAGE_EXCEEDED")

\* The rules on caps say nothing of collateral that has no bucket, refused above
Cappable(i) == Bucket(i.mint) # "none"

CollateralWithinCap(i, c) ==
  Refuse(Cappable(i) /\ i.collateral > Policy.caps[Bucket(i.mint)].collateral, "COLLATERAL_CAP_EXCEEDED")

\* Fault: the margin is counted, not the position it carries
MarginOnly(i) == i.collateral

\* The larger of the venue's notional and the one the margin and leverage give
Effective(i) == Larger(i.notional, NotionalFrom(i.collateral, i.leverage))

NotionalWithinCap(i, c) ==
  Refuse(/\ Opening(i.kind) /\ Cappable(i)
         /\ \/ NotionalFrom(i.collateral, i.leverage) = Undefined
            \/ Effective(i) > Policy.caps[Bucket(i.mint)].notional,
         "NOTIONAL_CAP_EXCEEDED")

PortfolioWithinCap(i, c) ==
  IF ~Opening(i.kind) \/ ~Cappable(i) THEN {}
  ELSE IF c.exposure.stale THEN {"EXPOSURE_UNKNOWN"}
  ELSE Refuse(c.exposure.notional[Bucket(i.mint)] + Effective(i) > Policy.caps[Bucket(i.mint)].portfolio,
              "PORTFOLIO_EXPOSURE_EXCEEDED")

PositionCountWithinCap(i, c) ==
  IF i.kind # "perp_open" THEN {}
  ELSE IF c.exposure.stale THEN {"EXPOSURE_UNKNOWN"}
  ELSE Refuse(c.position = {} /\ c.exposure.open >= Policy.maxOpen, "POSITION_COUNT_EXCEEDED")

LiquidationDistanceOk(i, c) ==
  LET distance == Reconcile(
        IF i.venueLiq = Undefined THEN Undefined ELSE VenueDistance(i.side, i.entry, i.venueLiq),
        ModelDistance(i.side, i.leverage, i.margin))
  IN  IF ~Opening(i.kind) THEN {}
      ELSE IF distance = Undefined THEN {"LIQUIDATION_UNKNOWN"}
      ELSE Refuse(distance < Policy.minDistance, "LIQUIDATION_TOO_CLOSE")

OracleAgreesWithMark(i, c) ==
  LET divergence == OracleDivergence(i.mark, i.oracle)
  IN  Refuse(Opening(i.kind) /\ (divergence = Undefined \/ divergence > Policy.maxDivergence),
             "ORACLE_DIVERGENCE")

\* Funding is signed: longs pay a positive rate, shorts a negative one
FundingSane(i, c) ==
  IF ~Opening(i.kind) THEN {}
  ELSE IF ~i.funded THEN {"FUNDING_RATE_UNKNOWN"}
  ELSE IF Abs(i.funding) > Policy.maxFunding THEN {"FUNDING_RATE_UNSANE"}
  ELSE Refuse((IF i.side = "long" THEN i.funding ELSE 0 - i.funding) > Policy.maxAdverse,
              "FUNDING_RATE_ADVERSE")

\* evaluatePerpGuards: every violation of PERP_RULES, or that of the shape alone
EvaluatePerpGuards(i, c) ==
  IF ~Shape(i) THEN {"INVALID_PERP_INTENT"}
  ELSE ArmState(i, c) \cup AccountReady(i, c) \cup MarketAllowed(i, c)
       \cup MarketTradeable(i, c) \cup CollateralAllowed(i, c) \cup CollateralCappable(i, c)
       \cup SlippageWithinClamp(i, c) \cup ReduceIsAReduction(i, c)
       \cup IncreaseMatchesPosition(i, c) \cup LeverageWithinCap(i, c)
       \cup CollateralWithinCap(i, c) \cup NotionalWithinCap(i, c)
       \cup PortfolioWithinCap(i, c) \cup PositionCountWithinCap(i, c)
       \cup LiquidationDistanceOk(i, c) \cup OracleAgreesWithMark(i, c) \cup FundingSane(i, c)
=============================================================================
