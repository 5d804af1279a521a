---------------------------- MODULE BondingCurve ----------------------------
(***************************************************************************)
(* Trading a pump.fun launch on its bonding curve: what the client decodes *)
(* (pumpfun/curve, client), the integer arithmetic of its quotes           *)
(* (pumpfun/math), the choice between curve and aggregator                 *)
(* (pumpfun/migration), and the tools pumpfun_curve, pumpfun_buy and       *)
(* pumpfun_sell from the read of the curve to the kernel's answer.         *)
(* The program on the chain is external: it fills a committed amount at    *)
(* the reserves it finds, within the bound the transaction carries.        *)
(***************************************************************************)
EXTENDS PoolGuards

CONSTANTS
  Launches,     \* accounts the curve may be read from, see launch
  Evidences,    \* what the chain and the signals engine may say: [mint, heat, fees]
  Budgets, Slippages,   \* what an agent may ask: SOL, bps
  Amounts, Shares,      \* and to sell: tokens, or percent of the holdings
  Reserves0,    \* reserves at the start: [vS, vT, rS, rT]
  Supply,       \* token supply
  Traders,      \* tool calls under way at once
  MaxTrades,    \* bound on the trades of others
  MaxTools      \* bound on the tool calls

\* The virtual reserves exceed the real ones; every fee tier is a pair of fees
ASSUME CurveAssumption ==
  /\ {Reserves0.rS, Reserves0.rT, Reserves0.vS, Reserves0.vT} \subseteq Nat
  /\ Reserves0.rS < Reserves0.vS /\ Reserves0.rT < Reserves0.vT
  /\ DOMAIN Reserves0 = {"vS", "vT", "rS", "rT", "complete"}
  /\ Budgets \subseteq Nat /\ Amounts \subseteq Nat /\ Shares \subseteq Nat
  /\ \A l \in Launches : l.feeSource \in {"tiered", "flat", "global", "fallback"}
  /\ \A e \in Evidences :
       /\ DOMAIN e.fees = 1..Len(e.fees) /\ Len(e.fees) \in Nat \ {0}
       /\ \A i \in DOMAIN e.fees : e.fees[i].fees.protocol \in Nat /\ e.fees[i].fees.creator \in Nat

VARIABLES
  reserves,     \* [vS, vT, rS, rT, complete] on the chain
  launch,       \* the account's layout: [length, quote, program, mayhem,
                \* cashback, feeSource]; length 0 when there is none
  evidence,     \* the mint's record, its rug-heat, the fee accounts
  held,         \* tokens in the wallet
  quoting,      \* the tool call of each trader
  trades, tools \* trades of others and tool calls so far

curveVars == <<reserves, launch, evidence, held, quoting, trades, tools>>

Resting == [phase |-> "idle"]

-----------------------------------------------------------------------------
(* Arithmetic.  / on bigint truncates; amounts are never negative here. *)

bondingCurveMarketCap(r) == (r.vS * Supply) \div r.vT

\* the highest tier at or below the market cap, else the first
calculateFeeTier(tiers, cap) ==
  LET reached == {i \in DOMAIN tiers : cap >= tiers[i].threshold}
  IN  IF reached = {} THEN tiers[1].fees
      ELSE tiers[CHOOSE i \in reached : \A j \in reached : j <= i].fees

curveFeeBps(fees) == fees.protocol + fees.creator

\* Fault: the program's round-up forgotten
tokensForSolLoose(r, solIn) ==
  LET left == (r.vS * r.vT) \div (r.vS + solIn)
      out == IF r.vT > left THEN r.vT - left ELSE 0
  IN  IF solIn <= 0 THEN 0 ELSE LeastOf(out, r.rT)

tokensForSol(r, solIn) ==
  LET left == (r.vS * r.vT) \div (r.vS + solIn) + 1
      out == IF r.vT > left THEN r.vT - left ELSE 0
  IN  IF solIn <= 0 THEN 0 ELSE LeastOf(out, r.rT)

solCostForTokens(r, tokens) ==
  IF tokens <= 0 THEN 0 ELSE (r.vS * r.vT) \div (r.vT - tokens) + 1 - r.vS

solForTokens(r, tokens) ==
  IF tokens <= 0 THEN 0 ELSE (tokens * r.vS) \div (r.vT + tokens)

quoteBuyForSolBudget(r, budget, fee, slippage) ==
  LET tokens == tokensForSol(r, (budget * Bps) \div (Bps + fee))
      cost == solCostForTokens(r, tokens)
      total == cost + (cost * fee) \div Bps
  IN  [tokens |-> tokens, total |-> total, bound |-> (total * (Bps + slippage)) \div Bps,
       ok |-> budget > 0 /\ ~r.complete /\ tokens > 0]

quoteSell(r, tokens, fee, slippage) ==
  LET gross == solForTokens(r, tokens)
      net == gross - (gross * fee) \div Bps
  IN  [tokens |-> tokens, total |-> net, bound |-> (net * (Bps - slippage)) \div Bps,
       ok |-> tokens > 0 /\ ~r.complete /\ slippage < Bps]

-----------------------------------------------------------------------------
(* Reading the curve *)

\* decodeBondingCurve: fields an older, shorter account does not hold are missing
\* (a length below 49 cannot be decoded)
Decoded(l) ==
  [creator |-> l.length >= 81,
   mayhem |-> (l.length >= 82 /\ l.mayhem) \/ (l.length >= 83 /\ l.cashback),
   solPaired |-> l.length >= 115 => l.quote = "sol"]

\* readCurve: tier table, its flat row, Global's own fields, or the fallback
FeesOf(l, e, r) ==
  CASE l.feeSource = "tiered" -> calculateFeeTier(e.fees, bondingCurveMarketCap(r))
    [] l.feeSource \in {"flat", "global"} -> e.fees[1].fees
    [] l.feeSource = "fallback" ->
         [protocol |-> (100 * Bps) \div 10000, creator |-> (5 * Bps) \div 10000]

\* routeForCurve and routeForMissingCurve
Route(l, r) ==
  IF l.length = 0 \/ r.complete THEN "jupiter"
  ELSE IF ~Decoded(l).solPaired THEN "POOL_UNSUPPORTED_CURVE"
  ELSE IF l.program # "spl" THEN "POOL_TOKEN2022"
  ELSE IF ~Decoded(l).creator \/ Decoded(l).mayhem THEN "POOL_UNSUPPORTED_CURVE"
  ELSE "bonding-curve"

-----------------------------------------------------------------------------
(* Tools *)

\* pumpfun_buy and pumpfun_sell load the curve; the accounts come in one read.  What is
\* not the curve's goes to the aggregator or is refused: the call is over.  A sale asks for
\* an amount or for a percentage.
Load(t, side, percent, amount, slippage) ==
  /\ quoting[t] = Resting /\ tools < MaxTools /\ tools' = tools + 1
  /\ launch.length = 0 \/ launch.length >= 49   \* else the decoder throws
  /\ quoting' =
       [quoting EXCEPT ![t] =
          IF Route(launch, reserves) # "bonding-curve" THEN Resting
          ELSE [phase |-> "read", side |-> side, percent |-> percent, amount |-> amount,
                slippage |-> slippage, curve |-> reserves,
                fee |-> curveFeeBps(FeesOf(launch, evidence, reserves))]]
  /\ UNCHANGED <<reserves, launch, evidence, held, trades>>

\* the intent of a call, against the curve it read: buy_exact tokens within maxSolCost
Offer(c, q, input, minOut, expectedOut) ==
  IF q.ok /\ toTradeIntent([extraSigners |-> 0, input |-> input, minOut |-> minOut,
                            expectedOut |-> expectedOut]) = Passed
  THEN [phase |-> "intent", side |-> c.side, tokens |-> q.tokens, bound |-> q.bound,
        input |-> input]
  ELSE Resting

\* pumpfun_buy's build: the mint and the heat are read after the curve
Buy(t) ==
  LET c == quoting[t]
      q == quoteBuyForSolBudget(c.curve, c.amount, c.fee, c.slippage)
      verdict == guardCurveBuy([mints |-> <<evidence.mint>>, heat |-> evidence.heat,
                                realSol |-> c.curve.rS, complete |-> c.curve.complete,
                                slippage |-> c.slippage,
                                input |-> [mint |-> "sol", amount |-> c.amount]])
  IN  /\ c.phase = "read" /\ c.side = "buy"
      /\ quoting' = [quoting EXCEPT ![t] =
           IF verdict # Passed THEN Resting
           ELSE Offer(c, q, [mint |-> "sol", amount |-> q.bound], q.tokens, q.tokens)]
      /\ UNCHANGED <<reserves, launch, evidence, held, trades, tools>>

\* pumpfun_sell's build: an amount or a share of what the wallet holds, at most all of it,
\* gated as an exit
Sell(t) ==
  LET c == quoting[t]
      tokens == IF c.percent THEN (held * c.amount) \div 100 ELSE c.amount
      q == quoteSell(c.curve, tokens, c.fee, c.slippage)
      input == [mint |-> "token", amount |-> tokens]
      verdict == guardCurveSell([complete |-> c.curve.complete, slippage |-> c.slippage,
                                 input |-> input])
  IN  /\ c.phase = "read" /\ c.side = "sell"
      /\ quoting' = [quoting EXCEPT ![t] =
           IF tokens <= 0 \/ tokens > held \/ verdict # Passed THEN Resting
           ELSE Offer(c, q, input, q.bound, q.total)]
      /\ UNCHANGED <<reserves, launch, evidence, held, trades, tools>>

-----------------------------------------------------------------------------
(* The program on the chain *)

Bought(r, tokens, cost) ==
  [r EXCEPT !.vS = @ + cost, !.rS = @ + cost, !.vT = @ - tokens, !.rT = @ - tokens,
            !.complete = r.rT = tokens]
Sold(r, tokens, gross) ==
  [r EXCEPT !.vS = @ - gross, !.rS = @ - gross, !.vT = @ + tokens, !.rT = @ + tokens]

\* the kernel signs and the program fills at the reserves of that moment
Fill(t) ==
  LET i == quoting[t]
      fee == curveFeeBps(FeesOf(launch, evidence, reserves))
      cost == solCostForTokens(reserves, i.tokens)
      gross == solForTokens(reserves, i.tokens)
  IN  /\ i.phase = "intent" /\ ~reserves.complete
      /\ \/ /\ i.side = "buy" /\ i.tokens <= reserves.rT
            /\ cost + (cost * fee) \div Bps <= i.bound
            /\ reserves' = Bought(reserves, i.tokens, cost)
            /\ held' = held + i.tokens
         \/ /\ i.side = "sell" /\ i.tokens <= held /\ gross <= reserves.rS
            /\ gross - (gross * fee) \div Bps >= i.bound
            /\ reserves' = Sold(reserves, i.tokens, gross)
            /\ held' = held - i.tokens
      /\ quoting' = [quoting EXCEPT ![t] = Resting]
      /\ UNCHANGED <<launch, evidence, trades, tools>>

\* the kernel refuses, or the transaction fails or expires
Fails(t) ==
  /\ quoting[t].phase = "intent"
  /\ quoting' = [quoting EXCEPT ![t] = Resting]
  /\ UNCHANGED <<reserves, launch, evidence, held, trades, tools>>

\* anybody else buys or sells, and the launch may complete
Others ==
  /\ ~reserves.complete /\ trades < MaxTrades /\ trades' = trades + 1
  /\ \/ \E sol \in Budgets :
          LET tokens == tokensForSol(reserves, sol)
          IN  /\ tokens > 0
              /\ reserves' = Bought(reserves, tokens, solCostForTokens(reserves, tokens))
     \/ \E tokens \in Budgets :
          LET gross == solForTokens(reserves, tokens)
          IN  gross \in 1..reserves.rS /\ reserves' = Sold(reserves, tokens, gross)
  /\ UNCHANGED <<launch, evidence, held, quoting, tools>>

\* the tape warms or cools, an authority is given up, the fee program is changed
Evidence ==
  /\ trades < MaxTrades /\ trades' = trades + 1
  /\ evidence' \in Evidences
  /\ UNCHANGED <<reserves, launch, held, quoting, tools>>

CurveInit ==
  /\ reserves = [Reserves0 EXCEPT !.complete = FALSE]
  /\ launch \in Launches
  /\ evidence \in Evidences
  /\ held = 0 /\ quoting = [t \in Traders |-> Resting]
  /\ trades = 0 /\ tools = 0

CurveNext ==
  \/ \E t \in Traders :
       \/ \E slip \in Slippages :
            \/ \E budget \in Budgets : Load(t, "buy", FALSE, budget, slip)
            \/ \E amount \in Amounts : Load(t, "sell", FALSE, amount, slip)
            \/ \E share \in Shares : Load(t, "sell", TRUE, share, slip)
       \/ Buy(t) \/ Sell(t) \/ Fill(t) \/ Fails(t)
  \/ Others
  \/ Evidence

CurveSpec == CurveInit /\ [][CurveNext]_curveVars

-----------------------------------------------------------------------------
(* Properties *)

\* Quoted at any reserves the curve can reach and with whatever fees it charges there, a buy
\* costs no more than its budget, fee included: the round-ups of pumpfun/math go the same
\* way as the program's.
BuyWithinBudget ==
  \A budget \in Budgets, e \in Evidences :
    LET q == quoteBuyForSolBudget(reserves, budget, curveFeeBps(FeesOf(launch, e, reserves)), 0)
    IN  q.ok => q.total <= budget
=============================================================================
