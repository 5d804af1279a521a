----------------------------- MODULE PoolGuards -----------------------------
(***************************************************************************)
(* The guards of liquidity and bonding-curve actions (pools/guards), pure  *)
(* and fail-closed, and the intent they let through (pools/intent).  A     *)
(* value nobody could read is Unknown.                                     *)
(***************************************************************************)
EXTENDS Units, Sequences, FiniteSets

CONSTANTS
  Usdc,         \* base units in one USDC
  MaxLevels,    \* MAX_LEVELS_PER_POSITION, also MAX_BIN_PER_POSITION
  Configured,   \* the operator's guard configuration, or NoConfig
  NoConfig

Passed == "passed"
Unknown == -1

-----------------------------------------------------------------------------
(* Configuration *)

Limits(spend, position, floor) ==
  [spend |-> spend, position |-> position, floor |-> floor]

defaultPoolGuardConfig ==
  [sol |-> Limits(Sol \div 2, 2 * Sol, 50 * Sol),
   usdc |-> Limits(100 * Usdc, 400 * Usdc, 10000 * Usdc),
   maxPositions |-> 5, baseLegPct |-> 25, maxRugHeat |-> 60,
   maxSlippage |-> (300 * Bps) \div 10000, minCurveSol |-> 2 * Sol,
   allowlist |-> {}, token2022 |-> FALSE, maxSpan |-> MaxLevels]

\* resolveDeps
Config == IF Configured = NoConfig THEN defaultPoolGuardConfig ELSE Configured

Capped(mint) == mint \in {"sol", "usdc"}
limitsFor(mint) == IF mint = "sol" THEN Config.sol ELSE Config.usdc

-----------------------------------------------------------------------------
(* Guards, each Passed or the code of its refusal *)

guardSpend(input) ==
  IF input.amount <= 0 \/ (Capped(input.mint) /\ input.amount > limitsFor(input.mint).spend)
  THEN "POOL_SPEND_CAP" ELSE Passed

\* what is wrong with a mint record, in the order it is looked at
Fault(info) ==
  IF ~info.read THEN "POOL_MINT_AUTHORITY"
  ELSE IF info.token2022 /\ ~Config.token2022 THEN "POOL_TOKEN2022"
  ELSE IF info.mint \in Config.allowlist THEN Passed
  ELSE IF info.mintAuthority THEN "POOL_MINT_AUTHORITY"
  ELSE IF info.freezeAuthority THEN "POOL_FREEZE_AUTHORITY"
  ELSE Passed

\* the first check that refuses (`first`)
First(checks) ==
  LET refused == SelectSeq(checks, LAMBDA c : c # Passed)
  IN  IF refused = <<>> THEN Passed ELSE Head(refused)

guardTokenAuthorities(mints) ==
  IF mints = <<>> THEN "POOL_MINT_AUTHORITY"
  ELSE First([i \in DOMAIN mints |-> Fault(mints[i])])

\* readRugHeat answers Unknown when no engine is mounted or it throws
guardRugHeat(heat) ==
  IF heat = Unknown \/ heat >= Config.maxRugHeat THEN "POOL_RUG_HEAT" ELSE Passed

guardPoolLiquidity(quoteMint, liquidity) ==
  IF ~Capped(quoteMint) \/ liquidity = Unknown \/ liquidity < limitsFor(quoteMint).floor
  THEN "POOL_LIQUIDITY_FLOOR" ELSE Passed

guardLpSizing(quoteMint, add, existing, openPositions, isNew) ==
  IF ~Capped(quoteMint) \/ add < 0 \/ existing < 0
       \/ existing + add > limitsFor(quoteMint).position THEN "POOL_POSITION_CAP"
  ELSE IF isNew /\ openPositions >= Config.maxPositions THEN "POOL_MAX_POSITIONS"
  ELSE Passed

guardBaseLeg(baseAmount, holdings) ==
  IF baseAmount <= 0 THEN Passed
  ELSE IF Config.baseLegPct <= 0 \/ holdings <= 0   \* Unknown is not positive either
            \/ baseAmount > (holdings * Config.baseLegPct) \div 100
  THEN "POOL_BASE_LEG_CAP" ELSE Passed

LeastOf(a, b) == IF a < b THEN a ELSE b

guardLevelRange(range) ==
  IF range.upper < range.lower
       \/ range.upper - range.lower + 1 > LeastOf(Config.maxSpan, MaxLevels)
  THEN "POOL_RANGE_INVALID" ELSE Passed

guardCurveSlippage(slippage) ==
  IF slippage < 0 \/ slippage > Config.maxSlippage THEN "POOL_SLIPPAGE" ELSE Passed

guardCurveLiquidity(realSol, complete) ==
  IF complete THEN "POOL_MIGRATED"
  ELSE IF realSol = Unknown \/ realSol < Config.minCurveSol THEN "POOL_LIQUIDITY_FLOOR"
  ELSE Passed

guardLpOpen(s) ==
  First(<<guardTokenAuthorities(s.mints), guardRugHeat(s.heat),
          guardPoolLiquidity(s.input.mint, s.liquidity), guardSpend(s.input),
          guardLpSizing(s.input.mint, s.input.amount, s.existing, s.open, s.isNew),
          guardBaseLeg(s.baseAmount, s.holdings), guardLevelRange(s.range)>>)

guardCurveBuy(s) ==
  First(<<guardTokenAuthorities(s.mints), guardRugHeat(s.heat),
          guardCurveLiquidity(s.realSol, s.complete), guardCurveSlippage(s.slippage),
          guardSpend(s.input)>>)

guardCurveSell(s) ==
  IF s.complete THEN "POOL_MIGRATED"
  ELSE First(<<guardCurveSlippage(s.slippage), guardSpend(s.input)>>)

-----------------------------------------------------------------------------
(* Intents *)

\* the kernel is handed an intent the wallet can sign alone (assertWalletSignableAlone)
\* with a positive input leg and a minimum it can be held to (toTradeIntent)
toTradeIntent(draft) ==
  IF draft.extraSigners > 0 THEN "POOL_EXTRA_SIGNER"
  ELSE IF draft.input.amount <= 0 THEN "POOL_SPEND_CAP"
  ELSE IF draft.minOut > draft.expectedOut THEN "POOL_SLIPPAGE"
  ELSE Passed

\* a withdrawal declares what it costs: priority fee and one signature
withdrawInputLeg(priorityFee, signatureFee) ==
  [mint |-> "sol",
   amount |-> LET cost == (IF priorityFee > 0 THEN priorityFee ELSE 0) + signatureFee
              IN  IF cost > 0 THEN cost ELSE 1]
=============================================================================
