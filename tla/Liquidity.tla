----------------------------- MODULE Liquidity ------------------------------
(***************************************************************************)
(* Concentrated liquidity on a Meteora DLMM pool: the arithmetic of bins   *)
(* (meteora/bins), the venue's reads and builders (meteora/venue,          *)
(* real-sdk), the rebalance decision and its ledger (rebalance/decide,     *)
(* ledger), and the tools pools_open, pools_close and pools_rebalance from *)
(* the first read to the kernel's answer.                                  *)
(* The pool is external: others trade it, so the active bin moves and a    *)
(* position's tokens turn from one into the other.                         *)
(***************************************************************************)
EXTENDS PoolGuards, FiniteSetsExt, SequencesExt

CONSTANTS
  MinBin, MaxBin,   \* bins the pool may reach; MIN_BIN_ID and MAX_BIN_ID
  RootStep,         \* square root of the price ratio of neighbouring bins
  Bell,             \* the gaussian weight of a bin at a distance, 1 at least
  WeightScale,      \* WEIGHT_SCALE
  Accounts,         \* position addresses
  Range0, Quote0,   \* what a position covers and holds at the start
  PoolFacts,        \* what the pool may look like: [liquidity, mints, heat, apr, fee]
  Holdings,         \* the wallet's base tokens
  LpRequests,       \* what an agent may ask for, see Start below
  RebalanceSet,     \* the operator's rebalance policy, or NoConfig
  Hour, Day,
  PriorityFee, SignatureFee,
  Modes,            \* the kernel's modes: "live", "dry"
  Callers, MaxLpCalls, MaxTicks

VARIABLES
  active,       \* the pool's active bin
  facts,        \* the rest of the pool's state
  position,     \* of each address: [open, lower, upper, quote, base]
  history,      \* the rebalance ledger: times of each position, oldest first
  lpCall,       \* the tool call of each caller
  now, mode, lpCalls

lpVars == <<active, facts, position, history, lpCall, now, mode, lpCalls>>

NoTool == [phase |-> "idle"]

-----------------------------------------------------------------------------
(* Bins *)

priceOfBin(bin) == RootStep ^ (2 * bin)

binSpan(range) == range.upper - range.lower + 1

\* Positions fit the bins one may cover, weights are positive, no range is wider than
\* the scale of the weights, and prices are those of the bins
ASSUME LpAssumption ==
  /\ {MinBin, MaxBin, Range0.lower, Range0.upper} \subseteq Int
  /\ {MaxLevels, WeightScale, Quote0} \subseteq Nat /\ MaxLevels <= WeightScale
  /\ Range0.lower <= Range0.upper /\ binSpan(Range0) <= MaxLevels
  /\ \A d \in 0..MaxLevels : Bell[d] \in Nat \ {0}
  /\ \A bin \in {Range0.lower, Range0.upper} : priceOfBin(bin) \in Nat \ {0}
  /\ \A r \in LpRequests : {r.quote, r.base, r.bps} \subseteq Nat

\* rangeAroundActive: the wider side gives way first until the span fits one position
rangeAroundActive(bin, below, above, maxSpan) ==
  LET cap == Max({1, LeastOf(maxSpan, MaxLevels)})
      fits == {s \in (0..below) \X (0..above) :
                 /\ s[1] + s[2] + 1 <= cap
                 /\ s[1] = below \/ s[1] >= s[2] - 1
                 /\ s[2] = above \/ s[2] >= s[1]}
      kept == CHOOSE s \in fits : \A o \in fits : o[1] + o[2] <= s[1] + s[2]
  IN  [lower |-> Max({MinBin, bin - kept[1]}), upper |-> LeastOf(MaxBin, bin + kept[2])]

isActiveInRange(range, bin) == bin \in range.lower..range.upper

binDrift(range, bin) ==
  IF bin > range.upper THEN bin - range.upper
  ELSE IF bin < range.lower THEN bin - range.lower ELSE 0

Distance(a, b) == IF a < b THEN b - a ELSE a - b

\* shapeWeights, a weight for each bin of the range, up to a common factor
shapeWeights(shape, range, bin) ==
  LET centre == LeastOf(Max({bin, range.lower}), range.upper)
      reach == Max({centre - range.lower, range.upper - centre, 1})
      far(i) == Distance(range.lower + i - 1, centre)
  IN  [i \in 1..binSpan(range) |->
         CASE shape = "spot" -> 1
           [] shape = "curve" -> Bell[far(i)]
           [] shape = "bid-ask" -> 20 * far(i) + reach]

Sum(amounts) == SumFunctionOnSet(amounts, DOMAIN amounts)

\* the weights as integers, rounded
Scaled(weights) ==
  LET sum == Sum(weights)
  IN  [i \in DOMAIN weights |-> (weights[i] * WeightScale + sum \div 2) \div sum]

Floored(total, scaled, all) == [i \in DOMAIN scaled |-> (total * scaled[i]) \div all]
Remainders(total, scaled, all) == [i \in DOMAIN scaled |-> (total * scaled[i]) % all]

\* place of a bin in the order of the remainders: the largest first, then the lower bin
Rank(rem, i) == Cardinality({j \in DOMAIN rem : rem[j] > rem[i] \/ (rem[j] = rem[i] /\ j < i)})

\* Fault: the floored shares, without the handing out of what they leave
FlooredShares(total, weights) == Floored(total, Scaled(weights), Sum(Scaled(weights)))

\* distributeAmount: what the floors leave goes out one by one in that order
distributeAmount(total, weights) ==
  LET scaled == Scaled(weights)
      share == Floored(total, scaled, Sum(scaled))
      rem == Remainders(total, scaled, Sum(scaled))
      left == total - Sum(share)
  IN  [i \in DOMAIN weights |-> share[i] + IF Rank(rem, i) < left THEN 1 ELSE 0]

\* planDeposit: quote goes to the bins at and below the active one, base at and above
planDeposit(range, bin, shape, amount, side) ==
  LET funded == IF side = "quote"
                THEN [range EXCEPT !.upper = LeastOf(@, bin)]
                ELSE [range EXCEPT !.lower = Max({@, bin})]
  IN  IF funded.upper < funded.lower THEN <<>>
      ELSE distributeAmount(amount, shapeWeights(shape, funded, bin))

\* |divergenceLossPct| in basis points: 1 - 2 sqrt(r)/(1 + r) for r = (a/b)^2
LossBps(a, b) == (Distance(a, b) ^ 2 * Bps) \div (a ^ 2 + b ^ 2)

-----------------------------------------------------------------------------
(* Rebalancing *)

defaultRebalancePolicy ==
  [driftBins |-> 2, edgePct |-> 10, minInterval |-> Hour, maxPerDay |-> 4,
   horizon |-> Day, requireIl |-> TRUE, minNet |-> 0, below |-> 10, above |-> 10]

Rebalancing == IF RebalanceSet = NoConfig THEN defaultRebalancePolicy ELSE RebalanceSet

\* RebalanceLedger: entries older than the window are dropped from the front
Pruned(list, at) == SelectSeq(list, LAMBDA t : t >= at - Day)

RangeOf(p) == [lower |-> p.lower, upper |-> p.upper]

\* notional in quote: the base leg at the active bin's price (baseValuedInQuote)
Notional(p, bin) == p.quote + p.base * priceOfBin(bin)

\* exited, or inside but within edgePct of an edge of more than one bin
Drifted(p, bin) ==
  LET range == RangeOf(p)
      steps == binSpan(range) - 1
      into == 100 * (bin - range.lower)
  IN  \/ Distance(binDrift(range, bin), 0) > Rebalancing.driftBins
      \/ /\ isActiveInRange(range, bin) /\ Rebalancing.edgePct > 0 /\ steps > 0
         /\ \/ into <= Rebalancing.edgePct * steps
            \/ into >= (100 - Rebalancing.edgePct) * steps

\* computeEconomics: fees of the horizon at the new concentration, less the round trip and,
\* if asked, the divergence loss; Unknown inputs reject
Pays(p, bin, f, target, entry) ==
  LET notional == Notional(p, bin)
      perDay == (notional * f.apr) \div 100
      fees == (perDay * Rebalancing.horizon * binSpan(RangeOf(p))) \div (Day * binSpan(target))
      cash == 2 * (PriorityFee + 2 * SignatureFee) + (notional * Max({1, f.fee})) \div Bps
      loss == IF Rebalancing.requireIl
              THEN (notional * LossBps(RootStep ^ bin, RootStep ^ entry)) \div Bps ELSE 0
      net == fees - cash - loss
  IN  /\ f.apr # Unknown /\ (Rebalancing.requireIl => entry # Unknown)
      /\ net > 0 /\ net >= Rebalancing.minNet

\* decideRebalance: the range to move to, or "hold"
decideRebalance(p, bin, f, times, entry, at) ==
  LET target == rangeAroundActive(bin, Rebalancing.below, Rebalancing.above, MaxLevels)
      recent == Pruned(times, at)
  IN  IF /\ Drifted(p, bin)
         /\ recent # <<>> => at - Max(ToSet(recent)) >= Rebalancing.minInterval
         /\ Len(recent) < Rebalancing.maxPerDay
         /\ target # RangeOf(p)
         /\ Pays(p, bin, f, target, entry)
      THEN target ELSE [lower |-> MaxBin, upper |-> MinBin - 1]

Hold(range) == range.upper < range.lower

-----------------------------------------------------------------------------
(* Tools *)

\* listPositions: the wallet's positions on the pool
Open == {a \in Accounts : position[a].open}

\* getPool, a summary of the pool's state at one moment (#readState, summaryFromSdk)
PoolSummary(r) == [phase |-> "pool", ask |-> r, bin |-> active, facts |-> facts]

\* buildAddLiquidity: a new position's account must sign for itself
buildAddLiquidity(isNew, input) ==
  [extraSigners |-> IF isNew THEN 1 ELSE 0, input |-> input, minOut |-> 0, expectedOut |-> 0]

\* the wallet's tools share nothing but the venue and the ledger; a request names the tool
\* and, except for a new position, the address it works on
Start(c, r) ==
  /\ lpCall[c] = NoTool /\ lpCalls < MaxLpCalls /\ lpCalls' = lpCalls + 1
  \* the pool is read before anything else
  /\ lpCall' = [lpCall EXCEPT ![c] = PoolSummary(r)]
  /\ UNCHANGED <<active, facts, position, history, now, mode>>

Finish(c, next) == lpCall' = [lpCall EXCEPT ![c] = next]

\* pools_open: positions, mints, heat and holdings are read together, after the pool
BuildOpen(c) ==
  LET k == lpCall[c]
      r == k.ask
      isNew == r.at \notin Accounts
      range == rangeAroundActive(k.bin, r.below, r.above, Config.maxSpan)
      existing == IF ~isNew /\ r.at \in Open THEN position[r.at].quote ELSE 0
      input == [mint |-> k.facts.quoteMint, amount |-> r.quote]
      verdict == guardLpOpen(
        [mints |-> facts.mints, heat |-> facts.heat, liquidity |-> k.facts.liquidity,
         input |-> input, existing |-> existing, open |-> Cardinality(Open), isNew |-> isNew,
         baseAmount |-> r.base, holdings |-> IF r.base > 0 THEN Holdings ELSE 0,
         range |-> range])
      draft == buildAddLiquidity(isNew, input)
  IN  /\ k.phase = "pool" /\ r.tool = "open"
      /\ Finish(c, IF verdict = Passed /\ toTradeIntent(draft) = Passed
                   THEN [phase |-> "intent", kind |-> "lp_add", at |-> r.at, input |-> input,
                         base |-> r.base, bps |-> 0]
                   ELSE NoTool)
      /\ UNCHANGED <<active, facts, position, history, now, mode, lpCalls>>

\* #draft: what the priority fee comes to once it is a price per compute unit
PaidFee == (((PriorityFee * 100) \div 60) * 60) \div 100

\* buildRemove and the intent of a withdrawal
Withdrawal(kind, a, bps) ==
  [phase |-> "intent", kind |-> kind, at |-> a, base |-> 0, bps |-> bps,
   input |-> withdrawInputLeg(PaidFee, SignatureFee)]

\* pools_close: the position is read again by the builder; none is a refusal
BuildClose(c) ==
  LET r == lpCall[c].ask
  IN  /\ lpCall[c].phase = "pool" /\ r.tool = "close"
      /\ Finish(c, IF r.at \in Open /\ r.bps \in 1..Bps
                   THEN Withdrawal(IF r.bps = Bps THEN "lp_close" ELSE "lp_remove", r.at, r.bps)
                   ELSE NoTool)
      /\ UNCHANGED <<active, facts, position, history, now, mode, lpCalls>>

\* pools_rebalance decides on pool and position read together; the ledger is read, and
\* pruned, at once
Decide(c) ==
  LET k == lpCall[c]
      r == k.ask
      target == decideRebalance(position[r.at], k.bin, k.facts, history[r.at], r.entry, now)
  IN  /\ k.phase = "pool" /\ r.tool = "rebalance"
      /\ IF r.at \notin Open THEN Finish(c, NoTool) /\ UNCHANGED history
         ELSE /\ history' = [history EXCEPT ![r.at] = Pruned(@, now)]
              /\ Finish(c, IF Hold(target) \/ guardLevelRange(target) # Passed THEN NoTool
                           ELSE Withdrawal("lp_rebalance", r.at, Bps))
      /\ UNCHANGED <<active, facts, position, now, mode, lpCalls>>

\* the ledger entry of an answer without an error
Recorded(i) ==
  history' = IF i.kind = "lp_rebalance"
             THEN [history EXCEPT ![i.at] = Pruned(Append(@, now), now)] ELSE history

-----------------------------------------------------------------------------
(* Kernel and chain *)

\* what buildRemoveLiquidity's instructions do: the whole of it closes the account
Removed(p, bps) ==
  IF bps = Bps THEN [p EXCEPT !.open = FALSE, !.quote = 0, !.base = 0]
  ELSE [p EXCEPT !.quote = @ - (@ * bps) \div Bps, !.base = @ - (@ * bps) \div Bps]

\* what an intent's transaction does to its position
Landed(p, i) ==
  IF i.kind = "lp_add" THEN [p EXCEPT !.quote = p.quote + i.input.amount, !.base = p.base + i.base]
  ELSE Removed(p, i.bps)

\* the kernel executes live: the transaction lands and is confirmed
Land(c) ==
  LET i == lpCall[c]
  IN  /\ i.phase = "intent" /\ mode = "live" /\ i.at \in Open
      /\ position' = [position EXCEPT ![i.at] = Landed(position[i.at], i)]
      /\ Recorded(i)
      /\ Finish(c, NoTool)
      /\ UNCHANGED <<active, facts, now, mode, lpCalls>>

\* in dry-run mode the kernel simulates and answers "reserved", which is not an error
Simulate(c) ==
  /\ lpCall[c].phase = "intent" /\ mode = "dry" /\ lpCall[c].at \in Open
  /\ Recorded(lpCall[c])
  /\ Finish(c, NoTool)
  /\ UNCHANGED <<active, facts, position, now, mode, lpCalls>>

\* the kernel refuses, the simulation or the transaction fails, or it expires
Refused(c) ==
  /\ lpCall[c].phase = "intent"
  /\ Finish(c, NoTool)
  /\ UNCHANGED <<active, facts, position, history, now, mode, lpCalls>>

\* others trade: across a position's range its quote becomes base, or the reverse
Converted(p, bin) ==
  IF bin > p.upper /\ p.base > 0
  THEN [p EXCEPT !.quote = @ + p.base * priceOfBin(p.upper), !.base = 0]
  ELSE IF bin < p.lower /\ p.quote >= priceOfBin(p.lower)
  THEN [p EXCEPT !.quote = @ % priceOfBin(p.lower), !.base = @ + p.quote \div priceOfBin(p.lower)]
  ELSE p

Trade ==
  /\ now < MaxTicks /\ now' = now + 1
  /\ active' \in MinBin..MaxBin /\ facts' \in PoolFacts
  /\ position' = [a \in Accounts |-> Converted(position[a], active')]
  /\ UNCHANGED <<history, lpCall, mode, lpCalls>>

\* the process restarts: calls and ledger are only in memory
Restart ==
  /\ now < MaxTicks /\ now' = now + 1
  /\ history' = [a \in Accounts |-> <<>>]
  /\ lpCall' = [c \in Callers |-> NoTool]
  /\ UNCHANGED <<active, facts, position, mode, lpCalls>>

LpInit ==
  /\ active = Range0.lower /\ facts \in PoolFacts
  /\ position = [a \in Accounts |-> [open |-> TRUE, lower |-> Range0.lower,
                                     upper |-> Range0.upper, quote |-> Quote0, base |-> 0]]
  /\ history = [a \in Accounts |-> <<>>]
  /\ lpCall = [c \in Callers |-> NoTool]
  /\ now = 0 /\ mode \in Modes /\ lpCalls = 0

LpNext ==
  \/ \E c \in Callers :
       \/ \E r \in LpRequests : Start(c, r)
       \/ BuildOpen(c) \/ BuildClose(c) \/ Decide(c)
       \/ Land(c) \/ Simulate(c) \/ Refused(c)
  \/ Trade
  \/ Restart

LpSpec == LpInit /\ [][LpNext]_lpVars

-----------------------------------------------------------------------------
(* Properties *)

\* Laid out again over its range around wherever the active bin has gone, each leg of what a
\* position holds is split into shares that add up to it, whichever bins the leg funds and
\* whatever trades and withdrawals have left of it: distributeAmount loses and invents no dust.
SplitIsExact ==
  \A p \in Range(position), shape \in {"spot", "curve", "bid-ask"}, side \in {"quote", "base"} :
    LET shares == planDeposit(RangeOf(p), active, shape, p[side], side)
    IN  shares # <<>> => Sum(shares) = p[side]
=============================================================================
