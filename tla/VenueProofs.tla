---------------------------- MODULE VenueProofs ----------------------------
(***************************************************************************)
(* Proofs about the venues: the quotes of the bonding curve, the shares of *)
(* a liquidity deposit, reduce-only perps orders, and the market feed.     *)
(***************************************************************************)
EXTENDS PerpsTrading, BondingCurve, Liquidity, MarketFeed, DataTheorems, SequenceTheorems

-----------------------------------------------------------------------------
(* The bonding curve.  The virtual reserves stay above the real ones by    *)
(* what they were above them at the start, so that no division is by zero, *)
(* and the round-ups of the two directions undo each other.                *)

\* Reserves a curve can have
Reserves(r) ==
  /\ r.rS \in Nat /\ r.rT \in Nat /\ r.vS \in Nat /\ r.vT \in Nat
  /\ r.rS < r.vS /\ r.rT < r.vT

ReserveFields == {"vS", "vT", "rS", "rT", "complete"}

\* A quotient by a positive number is a number.
LEMMA QuotientType ==
  ASSUME NEW a \in Nat, NEW m \in Nat \ {0} PROVE a \div m \in Nat
BY DivMod

\* A product of numbers is a number.
LEMMA ProductType == ASSUME NEW a \in Nat, NEW b \in Nat PROVE a * b \in Nat
BY Z3

\* A greater factor gives a greater product.
LEMMA ProductGrows ==
  ASSUME NEW a \in Nat, NEW b \in Nat, NEW c \in Nat, a <= b
  PROVE  a * c <= b * c
BY Z3

\* What a buyer gets for SOL: no more than there is, and at least one unit of
\* tokens per rounded-up division stays in the curve.
LEMMA TokensFit ==
  ASSUME NEW r, Reserves(r), NEW sol \in Nat, NEW tokens, tokens = tokensForSol(r, sol)
  PROVE  /\ tokens \in Nat /\ tokens <= r.rT
         /\ tokens > 0 => /\ sol > 0
                          /\ r.vT - tokens \in Nat \ {0}
                          /\ r.vS * r.vT < (r.vT - tokens) * (r.vS + sol)
<1> DEFINE m == r.vS + sol
           k == r.vS * r.vT
           q == k \div m
<1>1. m \in Nat \ {0} /\ k \in Nat /\ q \in Nat
  <2>1. m \in Nat \ {0}
    BY DEF Reserves
  <2>2. k \in Nat
    BY ProductType DEF Reserves
  <2> HIDE DEF m, k
  <2> QED BY <2>1, <2>2, QuotientType
<1>2. k < (q + 1) * m
  BY <1>1, QuotientBelow
<1>3. tokens = IF sol <= 0 THEN 0 ELSE LeastOf(IF r.vT > q + 1 THEN r.vT - (q + 1) ELSE 0, r.rT)
  BY DEF tokensForSol
<1> HIDE DEF q
<1>4. tokens \in Nat /\ tokens <= r.rT
  BY <1>1, <1>3 DEF Reserves, LeastOf
<1>5. ASSUME tokens > 0
      PROVE  sol > 0 /\ r.vT - tokens \in Nat \ {0} /\ q + 1 <= r.vT - tokens
  BY <1>1, <1>3, <1>4, <1>5 DEF Reserves, LeastOf
<1>6. ASSUME tokens > 0
      PROVE  k < (r.vT - tokens) * m
  <2>1. (q + 1) * m <= (r.vT - tokens) * m
    <3> HIDE DEF m
    <3>1. q + 1 \in Nat /\ r.vT - tokens \in Nat
      BY <1>1, <1>5, <1>6
    <3> QED BY <1>1, <1>5, <1>6, <3>1, ProductGrows
  <2>2. (q + 1) * m \in Nat /\ (r.vT - tokens) * m \in Nat
    BY <1>1, <1>5, <1>6, ProductType
  <2> HIDE DEF m, k
  <2> QED BY <1>1, <1>2, <2>1, <2>2
<1> QED BY <1>4, <1>5, <1>6

\* What tokens cost is a positive amount, and with the tokens that SOL buys no more than that SOL.
LEMMA CostFits ==
  ASSUME NEW r, Reserves(r), NEW tokens \in Nat, tokens > 0, r.vT - tokens \in Nat \ {0}
  PROVE  /\ solCostForTokens(r, tokens) \in Nat \ {0}
         /\ \A sol \in Nat : r.vS * r.vT < (r.vT - tokens) * (r.vS + sol) =>
              solCostForTokens(r, tokens) <= sol
<1> DEFINE m == r.vT - tokens
           k == r.vS * r.vT
           q == k \div m
<1>1. m \in Nat \ {0} /\ k \in Nat /\ q \in Nat
  BY QuotientType, ProductType DEF Reserves
<1>2. solCostForTokens(r, tokens) = q + 1 - r.vS
  BY DEF solCostForTokens
<1>3. r.vS <= q
  <2> SUFFICES ASSUME q <= r.vS - 1 PROVE FALSE
    BY <1>1 DEF Reserves
  <2>1. r.vS - 1 \in Nat
    BY DEF Reserves
  <2>2. k < ((r.vS - 1) + 1) * m
    BY <1>1, <2>1, QuotientBelow
  <2>3. r.vS * m <= r.vS * r.vT
    BY Z3 DEF Reserves
  <2>4. (r.vS - 1) + 1 = r.vS /\ r.vS * m \in Nat
    BY <1>1, ProductType DEF Reserves
  <2> QED BY <1>1, <2>2, <2>3, <2>4
<1>4. ASSUME NEW sol \in Nat, k < m * (r.vS + sol) PROVE q + 1 - r.vS <= sol
  <2>1. r.vS + sol \in Nat
    BY DEF Reserves
  <2> DEFINE n == r.vS + sol
  <2>2. m * n = n * m
    BY <1>1, <2>1, Z3
  <2>3. n * m \in Nat
    BY <1>1, <2>1, ProductType
  <2> SUFFICES ASSUME n <= q PROVE FALSE
    BY <1>1, <2>1 DEF Reserves
  <2>4. n * m <= k
    BY <1>1, <2>1, QuotientAbove
  <2> QED BY <1>1, <1>4, <2>2, <2>3, <2>4
<1> QED BY <1>1, <1>2, <1>3, <1>4 DEF Reserves

\* The fee of what is left of a budget after it fits into the budget.
LEMMA FeeFits ==
  ASSUME NEW budget \in Nat, NEW fee \in Nat, NEW cost \in Nat,
         cost <= (budget * Bps) \div (Bps + fee)
  PROVE  cost + (cost * fee) \div Bps <= budget
<1>1. Bps \in Nat \ {0} /\ Bps + fee \in Nat \ {0} /\ budget * Bps \in Nat /\ cost * fee \in Nat
  BY UnitsAssumption, ProductType
<1>2. cost * (Bps + fee) <= budget * Bps
  BY <1>1, QuotientAbove
<1>3. cost * (Bps + fee) = cost * Bps + cost * fee
  BY <1>1, Z3
<1> DEFINE q == (cost * fee) \div Bps
<1>4. q \in Nat /\ q * Bps <= cost * fee
  BY <1>1, QuotientType, QuotientAbove
<1> HIDE DEF q
<1>5. (cost + q) * Bps = cost * Bps + q * Bps /\ q * Bps \in Nat /\ cost * Bps \in Nat
  BY <1>1, <1>4, Z3
<1>6. (cost + q) * Bps <= budget * Bps
  BY <1>1, <1>2, <1>3, <1>4, <1>5
<1>7. ASSUME cost + q >= budget + 1 PROVE FALSE
  <2>1. (cost + q) * Bps >= budget * Bps + Bps
    BY <1>1, <1>4, <1>7, Multiples
  <2> QED BY <1>1, <1>4, <1>5, <1>6, <2>1
<1>8. cost + q <= budget
  BY <1>4, <1>7
<1> QED BY <1>8 DEF q

\* At any reserves, budget and fee, a quoted buy costs no more than the budget.
LEMMA QuoteFits ==
  ASSUME NEW r, Reserves(r), NEW budget \in Nat, NEW fee \in Nat, NEW slippage,
         quoteBuyForSolBudget(r, budget, fee, slippage).ok
  PROVE  quoteBuyForSolBudget(r, budget, fee, slippage).total <= budget
<1> DEFINE sol == (budget * Bps) \div (Bps + fee)
<1>1. sol \in Nat
  <2>1. budget * Bps \in Nat /\ Bps + fee \in Nat \ {0}
    BY UnitsAssumption, ProductType
  <2> QED BY <2>1, QuotientType
<1>2. PICK tokens : tokens = tokensForSol(r, sol)
  OBVIOUS
<1>3. PICK cost : cost = solCostForTokens(r, tokens)
  OBVIOUS
<1>4. /\ quoteBuyForSolBudget(r, budget, fee, slippage).total = cost + (cost * fee) \div Bps
      /\ tokens > 0
  BY <1>2, <1>3 DEF quoteBuyForSolBudget
<1> HIDE DEF sol
<1>5. /\ tokens \in Nat /\ r.vT - tokens \in Nat \ {0}
      /\ r.vS * r.vT < (r.vT - tokens) * (r.vS + sol)
  BY <1>1, <1>2, <1>4, TokensFit
<1>6. cost \in Nat /\ cost <= sol
  BY <1>1, <1>3, <1>4, <1>5, CostFits
<1>7. cost + (cost * fee) \div Bps <= budget
  BY <1>6, FeeFits DEF sol
<1> QED BY <1>4, <1>7

\* A bounded set of numbers that is not empty has a greatest one.
LEMMA GreatestIndex ==
  ASSUME NEW n \in Nat, NEW S \in SUBSET (1..n), S # {}
  PROVE  \E i \in S : \A j \in S : j <= i
<1> DEFINE B == {n - j : j \in S}
<1>1. B \in SUBSET Nat /\ B # {}
  <2>1. \A j \in S : n - j \in Nat
    OBVIOUS
  <2>2. \A k \in B : k \in Nat
    BY <2>1
  <2>3. PICK j : j \in S
    OBVIOUS
  <2>4. n - j \in B
    BY <2>3
  <2> QED BY <2>2, <2>4, Zenon
<1> HIDE DEF B
<1>2. PICK m \in B : \A k \in B : m <= k
  BY <1>1, LeastNatural
<1>3. PICK i \in S : m = n - i
  BY DEF B
<1>4. \A j \in S : n - j \in B
  BY DEF B
<1>5. \A j \in S : j <= i
  BY <1>2, <1>3, <1>4
<1> QED BY <1>5

\* The fee a quote is made with is a number.
LEMMA FeeType ==
  ASSUME NEW l \in Launches, NEW e \in Evidences, NEW r
  PROVE  curveFeeBps(FeesOf(l, e, r)) \in Nat
<1>1. /\ l.feeSource \in {"tiered", "flat", "global", "fallback"}
      /\ DOMAIN e.fees = 1..Len(e.fees) /\ Len(e.fees) \in Nat \ {0}
      /\ \A i \in DOMAIN e.fees : e.fees[i].fees.protocol \in Nat /\ e.fees[i].fees.creator \in Nat
  BY CurveAssumption
<1>2. 1 \in DOMAIN e.fees
  BY <1>1
<1>3. CASE l.feeSource = "tiered"
  <2>1. PICK cap : cap = bondingCurveMarketCap(r)
    OBVIOUS
  <2> DEFINE reached == {i \in DOMAIN e.fees : cap >= e.fees[i].threshold}
             top == CHOOSE i \in reached : \A j \in reached : j <= i
  <2>2. FeesOf(l, e, r) = calculateFeeTier(e.fees, cap)
    BY <1>3, <2>1 DEF FeesOf
  <2>3. reached # {} => top \in DOMAIN e.fees
    <3> SUFFICES ASSUME reached # {} PROVE top \in DOMAIN e.fees
      OBVIOUS
    <3>1. reached \in SUBSET (1..Len(e.fees))
      BY <1>1
    <3> HIDE DEF reached
    <3>2. \E i \in reached : \A j \in reached : j <= i
      BY <1>1, <3>1, GreatestIndex
    <3>3. top \in reached
      BY <3>2, Zenon
    <3> QED BY <1>1, <3>1, <3>3
  <2>4. calculateFeeTier(e.fees, cap) = IF reached = {} THEN e.fees[1].fees ELSE e.fees[top].fees
    BY DEF calculateFeeTier
  <2>5. \E i \in DOMAIN e.fees : FeesOf(l, e, r) = e.fees[i].fees
    <3> HIDE DEF reached, top
    <3> QED BY <1>2, <2>2, <2>3, <2>4, Zenon
  <2> QED BY <1>1, <2>5 DEF curveFeeBps
<1>4. CASE l.feeSource \in {"flat", "global"}
  <2>1. FeesOf(l, e, r) = e.fees[1].fees
    BY <1>4 DEF FeesOf
  <2> QED BY <1>1, <1>2, <2>1 DEF curveFeeBps
<1>5. CASE l.feeSource = "fallback"
  <2>1. FeesOf(l, e, r) = [protocol |-> (100 * Bps) \div 10000, creator |-> (5 * Bps) \div 10000]
    BY <1>5 DEF FeesOf
  <2>2. (100 * Bps) \div 10000 \in Nat /\ (5 * Bps) \div 10000 \in Nat
    BY UnitsAssumption
  <2> QED BY <2>1, <2>2 DEF curveFeeBps
<1> QED BY <1>1, <1>3, <1>4, <1>5

\* What a tool call carries
QuoteSound(c) ==
  /\ c.phase \in {"idle", "read", "intent"}
  /\ c.phase = "read" => Reserves(c.curve) /\ c.amount \in Nat /\ c.fee \in Nat
  /\ c.phase = "intent" => c.tokens \in Nat \ {0}

CurveInv ==
  /\ reserves = [f \in ReserveFields |-> reserves[f]] /\ Reserves(reserves)
  /\ launch \in Launches /\ evidence \in Evidences
  /\ held \in Nat
  /\ quoting = [t \in Traders |-> quoting[t]]
  /\ \A t \in Traders : QuoteSound(quoting[t])

\* An intent names a positive number of tokens.
LEMMA OfferSound ==
  ASSUME NEW c, NEW q, q.tokens \in Int, q.ok => q.tokens > 0, NEW input, NEW minOut, NEW expectedOut
  PROVE  QuoteSound(Offer(c, q, input, minOut, expectedOut))
BY DEF Offer, QuoteSound, Resting

\* A call of one trader leaves the others'.
LEMMA CallKeeps ==
  ASSUME CurveInv, NEW t \in Traders, NEW c, QuoteSound(c),
         quoting' = [quoting EXCEPT ![t] = c],
         UNCHANGED <<reserves, launch, evidence, held>>
  PROVE  CurveInv'
<1>1. \A s \in Traders : quoting'[s] = IF s = t THEN c ELSE quoting[s]
  BY DEF CurveInv
<1>2. quoting' = [s \in Traders |-> quoting'[s]]
  BY DEF CurveInv
<1>3. \A s \in Traders : QuoteSound(quoting'[s])
  BY <1>1 DEF CurveInv
<1> QED BY <1>2, <1>3 DEF CurveInv

LEMMA LoadKeeps ==
  ASSUME CurveInv, NEW t \in Traders, NEW side, NEW percent, NEW amount \in Nat,
         NEW slippage, Load(t, side, percent, amount, slippage)
  PROVE  CurveInv'
<1> DEFINE c == IF Route(launch, reserves) # "bonding-curve" THEN Resting
                ELSE [phase |-> "read", side |-> side, percent |-> percent, amount |-> amount,
                      slippage |-> slippage, curve |-> reserves,
                      fee |-> curveFeeBps(FeesOf(launch, evidence, reserves))]
<1>1. quoting' = [quoting EXCEPT ![t] = c] /\ UNCHANGED <<reserves, launch, evidence, held>>
  BY DEF Load
<1>2. QuoteSound(c)
  <2>1. curveFeeBps(FeesOf(launch, evidence, reserves)) \in Nat /\ Reserves(reserves)
    BY FeeType DEF CurveInv
  <2> QED BY <2>1 DEF QuoteSound, Resting
<1> HIDE DEF c
<1> QED BY <1>1, <1>2, CallKeeps

LEMMA BuyKeeps == ASSUME CurveInv, NEW t \in Traders, Buy(t) PROVE CurveInv'
<1>1. PICK c : c = quoting[t]
  OBVIOUS
<1>2. PICK q : q = quoteBuyForSolBudget(c.curve, c.amount, c.fee, c.slippage)
  OBVIOUS
<1>3. Reserves(c.curve) /\ c.amount \in Nat /\ c.fee \in Nat
  BY <1>1 DEF Buy, CurveInv, QuoteSound
<1>4. q.tokens \in Nat /\ (q.ok => q.tokens > 0)
  <2> DEFINE sol == (c.amount * Bps) \div (Bps + c.fee)
  <2>1. sol \in Nat
    <3>1. c.amount * Bps \in Nat /\ Bps + c.fee \in Nat \ {0}
      BY <1>3, UnitsAssumption, ProductType
    <3> QED BY <3>1, QuotientType
  <2>2. q.tokens = tokensForSol(c.curve, sol) /\ (q.ok => q.tokens > 0)
    BY <1>2 DEF quoteBuyForSolBudget
  <2> HIDE DEF sol
  <2> QED BY <1>3, <2>1, <2>2, TokensFit
<1>5. PICK d : /\ quoting' = [quoting EXCEPT ![t] = d]
               /\ \/ d = Resting
                  \/ \E input, minOut, expectedOut : d = Offer(c, q, input, minOut, expectedOut)
  BY <1>1, <1>2, Zenon DEF Buy
<1>6. QuoteSound(d)
  <2>1. QuoteSound(Resting)
    BY DEF QuoteSound, Resting
  <2>2. q.tokens \in Int
    BY <1>4
  <2>3. \A input, minOut, expectedOut : QuoteSound(Offer(c, q, input, minOut, expectedOut))
    BY <1>4, <2>2, OfferSound
  <2> QED BY <1>5, <2>1, <2>3, Zenon
<1> QED BY <1>5, <1>6, CallKeeps DEF Buy

LEMMA SellKeeps == ASSUME CurveInv, NEW t \in Traders, Sell(t) PROVE CurveInv'
<1>1. PICK c : c = quoting[t]
  OBVIOUS
<1>2. PICK tokens : tokens = IF c.percent THEN (held * c.amount) \div 100 ELSE c.amount
  OBVIOUS
<1>3. PICK q : q = quoteSell(c.curve, tokens, c.fee, c.slippage)
  OBVIOUS
<1>4. tokens \in Nat
  <2>1. c.amount \in Nat /\ held \in Nat
    BY <1>1 DEF Sell, CurveInv, QuoteSound
  <2>2. held * c.amount \in Nat
    BY <2>1, ProductType
  <2> QED BY <1>2, <2>1, <2>2
<1>5. q.tokens \in Int /\ (q.ok => q.tokens > 0)
  <2>1. q.tokens = tokens
    BY <1>3 DEF quoteSell
  <2>2. q.ok => tokens > 0
    BY <1>3, Zenon DEF quoteSell
  <2> QED BY <1>4, <2>1, <2>2
<1>6. PICK d : /\ quoting' = [quoting EXCEPT ![t] = d]
               /\ \/ d = Resting
                  \/ \E input, minOut, expectedOut : d = Offer(c, q, input, minOut, expectedOut)
  <2> DEFINE input == [mint |-> "token", amount |-> tokens]
             refused == \/ tokens <= 0 \/ tokens > held
                        \/ guardCurveSell([complete |-> c.curve.complete, slippage |-> c.slippage,
                                           input |-> input]) # Passed
             d == IF refused THEN Resting ELSE Offer(c, q, input, q.bound, q.total)
  <2>1. quoting' = [quoting EXCEPT ![t] = d]
    BY <1>1, <1>2, <1>3 DEF Sell
  <2> HIDE DEF input, refused
  <2>2. \/ d = Resting \/ d = Offer(c, q, input, q.bound, q.total)
    BY Zenon
  <2> HIDE DEF d
  <2> QED BY <2>1, <2>2, Zenon
<1>7. QuoteSound(d)
  <2>1. QuoteSound(Resting)
    BY DEF QuoteSound, Resting
  <2>2. \A input, minOut, expectedOut : QuoteSound(Offer(c, q, input, minOut, expectedOut))
    BY <1>5, OfferSound
  <2> QED BY <1>6, <2>1, <2>2, Zenon
<1> QED BY <1>6, <1>7, CallKeeps DEF Sell

\* Buying no more tokens than there are keeps the reserves in order.
LEMMA BoughtSound ==
  ASSUME NEW r, r = [f \in ReserveFields |-> r[f]], Reserves(r),
         NEW tokens \in Nat, tokens > 0, tokens <= r.rT,
         NEW s, s = Bought(r, tokens, solCostForTokens(r, tokens))
  PROVE  s = [f \in ReserveFields |-> s[f]] /\ Reserves(s)
<1>1. PICK cost : cost = solCostForTokens(r, tokens)
  OBVIOUS
<1>2. r.vT - tokens \in Nat \ {0}
  BY DEF Reserves
<1>3. cost \in Nat
  BY <1>1, <1>2, CostFits
<1>4. s = Bought(r, tokens, cost)
  BY <1>1
<1>5. /\ s = [f \in ReserveFields |-> s[f]]
      /\ s.vS = r.vS + cost /\ s.rS = r.rS + cost /\ s.vT = r.vT - tokens /\ s.rT = r.rT - tokens
  BY <1>4 DEF Bought, ReserveFields
<1> QED BY <1>3, <1>5 DEF Reserves

\* So does selling for no more SOL than there is.
LEMMA SoldSound ==
  ASSUME NEW r, r = [f \in ReserveFields |-> r[f]], Reserves(r),
         NEW tokens \in Nat, NEW gross \in Nat, gross <= r.rS,
         NEW s, s = Sold(r, tokens, gross)
  PROVE  s = [f \in ReserveFields |-> s[f]] /\ Reserves(s)
<1>1. /\ s = [f \in ReserveFields |-> s[f]]
      /\ s.vS = r.vS - gross /\ s.rS = r.rS - gross /\ s.vT = r.vT + tokens /\ s.rT = r.rT + tokens
  BY DEF Sold, ReserveFields
<1> QED BY <1>1 DEF Reserves

\* The reserves and the wallet change, and at most one call returns to rest.
LEMMA FillKeeps == ASSUME CurveInv, NEW t \in Traders, Fill(t) PROVE CurveInv'
<1>1. PICK i : i = quoting[t]
  OBVIOUS
<1>2. i.tokens \in Nat /\ i.tokens > 0
  BY <1>1 DEF Fill, CurveInv, QuoteSound
<1>3. reserves = [f \in ReserveFields |-> reserves[f]] /\ Reserves(reserves) /\ held \in Nat
  BY DEF CurveInv
<1>4. PICK gross : gross = solForTokens(reserves, i.tokens)
  OBVIOUS
<1>5. gross \in Nat
  <2>1. gross = (i.tokens * reserves.vS) \div (reserves.vT + i.tokens)
    BY <1>2, <1>4 DEF solForTokens
  <2>2. i.tokens * reserves.vS \in Nat /\ reserves.vT + i.tokens \in Nat \ {0}
    BY <1>2, <1>3, ProductType DEF Reserves
  <2> QED BY <2>1, <2>2, QuotientType
<1>6. /\ reserves' = [f \in ReserveFields |-> reserves'[f]]
      /\ Reserves(reserves') /\ held' \in Nat
  <2>1. CASE /\ i.tokens <= reserves.rT
             /\ reserves' = Bought(reserves, i.tokens, solCostForTokens(reserves, i.tokens))
             /\ held' = held + i.tokens
    <3>1. \A s : s = reserves' => s = [f \in ReserveFields |-> s[f]] /\ Reserves(s)
      BY <1>2, <1>3, <2>1, BoughtSound
    <3> QED BY <1>2, <1>3, <2>1, <3>1
  <2>2. CASE /\ i.tokens <= held /\ gross <= reserves.rS
             /\ reserves' = Sold(reserves, i.tokens, gross)
             /\ held' = held - i.tokens
    <3>1. \A s : s = reserves' => s = [f \in ReserveFields |-> s[f]] /\ Reserves(s)
      BY <1>2, <1>3, <1>5, <2>2, SoldSound
    <3> QED BY <1>2, <1>3, <2>2, <3>1
  <2> QED BY <1>1, <1>4, <2>1, <2>2 DEF Fill
<1>7. /\ quoting' = [s \in Traders |-> quoting'[s]]
      /\ \A s \in Traders : QuoteSound(quoting'[s])
  <2>1. QuoteSound(Resting)
    BY DEF QuoteSound, Resting
  <2>2. \A s \in Traders : quoting'[s] = IF s = t THEN Resting ELSE quoting[s]
    BY DEF CurveInv, Fill
  <2>3. quoting' = [s \in Traders |-> quoting'[s]]
    BY DEF CurveInv, Fill
  <2> QED BY <2>1, <2>2, <2>3 DEF CurveInv
<1>8. launch' = launch /\ evidence' = evidence
  BY DEF Fill
<1> QED BY <1>6, <1>7, <1>8 DEF CurveInv

LEMMA FailsKeeps == ASSUME CurveInv, NEW t \in Traders, Fails(t) PROVE CurveInv'
<1>1. QuoteSound(Resting)
  BY DEF QuoteSound, Resting
<1> QED BY <1>1, CallKeeps DEF Fails

LEMMA OthersKeeps == ASSUME CurveInv, Others PROVE CurveInv'
<1>1. reserves = [f \in ReserveFields |-> reserves[f]] /\ Reserves(reserves)
  BY DEF CurveInv
<1>2. \A s : s = reserves' => s = [f \in ReserveFields |-> s[f]] /\ Reserves(s)
  <2>1. CASE \E sol \in Budgets :
               LET tokens == tokensForSol(reserves, sol)
               IN  /\ tokens > 0
                   /\ reserves' = Bought(reserves, tokens, solCostForTokens(reserves, tokens))
    <3>1. PICK sol, tokens :
            /\ sol \in Budgets /\ tokens = tokensForSol(reserves, sol) /\ tokens > 0
            /\ reserves' = Bought(reserves, tokens, solCostForTokens(reserves, tokens))
      BY <2>1
    <3>2. sol \in Nat
      BY <3>1, CurveAssumption
    <3>3. tokens \in Nat /\ tokens <= reserves.rT
      BY <1>1, <3>1, <3>2, TokensFit
    <3> QED BY <1>1, <3>1, <3>3, BoughtSound
  <2>2. CASE \E tokens \in Budgets :
               LET gross == solForTokens(reserves, tokens)
               IN  gross \in 1..reserves.rS /\ reserves' = Sold(reserves, tokens, gross)
    <3>1. PICK tokens, gross :
            /\ tokens \in Budgets
            /\ gross \in 1..reserves.rS /\ reserves' = Sold(reserves, tokens, gross)
      BY <2>2
    <3>2. tokens \in Nat /\ gross \in Nat /\ gross <= reserves.rS
      BY <1>1, <3>1, CurveAssumption DEF Reserves
    <3> QED BY <1>1, <3>1, <3>2, SoldSound
  <2> QED BY <2>1, <2>2 DEF Others
<1>3. UNCHANGED <<launch, evidence, held, quoting>>
  BY DEF Others
<1> QED BY <1>2, <1>3 DEF CurveInv

LEMMA CurveStep == CurveInv /\ [CurveNext]_curveVars => CurveInv'
<1> SUFFICES ASSUME CurveInv, [CurveNext]_curveVars PROVE CurveInv'
  OBVIOUS
<1>1. CASE UNCHANGED curveVars
  BY <1>1 DEF CurveInv, curveVars
<1>2. ASSUME NEW t \in Traders, NEW slip \in Slippages, NEW n \in Budgets \cup Amounts \cup Shares,
             NEW side, NEW percent, Load(t, side, percent, n, slip)
      PROVE  CurveInv'
  <2>1. n \in Nat
    BY CurveAssumption
  <2> QED BY <1>2, <2>1, LoadKeeps
<1>3. CASE \E t \in Traders : Buy(t) \/ Sell(t) \/ Fill(t) \/ Fails(t)
  BY <1>3, BuyKeeps, SellKeeps, FillKeeps, FailsKeeps
<1>4. CASE Others
  BY <1>4, OthersKeeps
<1>5. CASE Evidence
  BY <1>5 DEF Evidence, CurveInv
<1> QED BY <1>1, <1>2, <1>3, <1>4, <1>5 DEF CurveNext

LEMMA CurveStart == CurveInit => CurveInv
<1> SUFFICES ASSUME CurveInit PROVE CurveInv
  OBVIOUS
<1>1. QuoteSound(Resting)
  BY DEF QuoteSound, Resting
<1>2. reserves = [f \in ReserveFields |-> reserves[f]] /\ Reserves(reserves)
  BY CurveAssumption DEF CurveInit, ReserveFields, Reserves
<1> QED BY <1>1, <1>2 DEF CurveInit, CurveInv

\* Whatever launches, fees, budgets, reserves at the start and trades there are, no buy
\* that quoteBuyForSolBudget accepts costs more than its budget, fee included.
THEOREM BuysStayWithinBudget == CurveSpec => []BuyWithinBudget
<1>1. CurveSpec => []CurveInv
  BY CurveStart, CurveStep, PTL DEF CurveSpec
<1>2. CurveInv => BuyWithinBudget
  <2> SUFFICES ASSUME CurveInv, NEW budget \in Budgets, NEW e \in Evidences,
                      NEW fee, fee = curveFeeBps(FeesOf(launch, e, reserves)),
                      quoteBuyForSolBudget(reserves, budget, fee, 0).ok
               PROVE  quoteBuyForSolBudget(reserves, budget, fee, 0).total <= budget
    BY Zenon DEF BuyWithinBudget
  <2>1. Reserves(reserves) /\ budget \in Nat /\ launch \in Launches
    BY CurveAssumption DEF CurveInv
  <2>2. fee \in Nat
    BY <2>1, FeeType
  <2> QED BY <2>1, <2>2, QuoteFits
<1> QED BY <1>1, <1>2, PTL

-----------------------------------------------------------------------------
(* Reduce-only orders.  The base of a position is an integer, and an order *)
(* on its way carries the flag of its kind and a side.                     *)

Reduces(k) == k.order = TRUE /\ k.intent.side \in {"long", "short"}

BuiltFields == {"phase", "intent", "snapshot", "order"}
SentFields == {"phase", "intent", "order", "pre", "filled", "report"}

CallSound(k) ==
  /\ k.phase \in {"built", "approved"} => k = [f \in BuiltFields |-> k[f]]
  /\ Placed(k) => /\ k = [f \in SentFields |-> k[f]]
                  /\ k.filled \in Nat /\ k.filled <= k.intent.base
  /\ k.phase \in {"built", "approved", "sent", "resting"} =>
       /\ k.intent.market \in Markets /\ k.intent.base \in Nat
       /\ Reducing(k.intent.kind) => Reduces(k)

PerpInv ==
  /\ base \in [Markets -> Int]
  /\ cond \in [Markets -> Conditions]
  /\ call = [a \in Orders |-> call[a]]
  /\ \A a \in Orders : CallSound(call[a])

\* The size of an order is an integer.
LEMMA SizeType ==
  ASSUME PerpInv, NEW r \in Requests, Priced(r.market)
  PROVE  SizeFor(r) \in Int
<1> DEFINE m == r.market
<1>1. m \in Markets /\ {r.collateral, r.leverage, r.delta, r.fraction} \subseteq Nat /\ Base \in Nat
  BY PerpsAssumption
<1>2. Bps \in Nat \ {0}
  BY UnitsAssumption
<1>3. cond[m] \in Conditions /\ base[m] \in Int
  BY <1>1 DEF PerpInv
<1>4. cond[m].oracle \in Nat /\ cond[m].mark \in Nat
  BY <1>3, PerpsAssumption
<1>5. MarkOf(m) \in Nat \ {0}
  BY <1>4 DEF MarkOf, Priced, Usable
<1>6. CASE r.kind = "perp_open"
  <2>1. NotionalFrom(r.collateral, r.leverage) \in Int
    <3>1. r.collateral * r.leverage \in Nat
      BY <1>1, ProductType
    <3>2. (r.collateral * r.leverage) \div Bps \in Nat
      BY <1>2, <3>1, QuotientType
    <3> QED BY <3>2 DEF NotionalFrom, Undefined
  <2>2. PICK n : n = NotionalFrom(r.collateral, r.leverage)
    OBVIOUS
  <2>3. SizeFor(r) = (n * Base) \div MarkOf(m)
    BY <1>6, <2>2 DEF SizeFor
  <2>4. n * Base \in Int
    BY <1>1, <2>1, <2>2
  <2> QED BY <1>5, <2>3, <2>4
<1>7. CASE r.kind = "perp_close"
  <2>1. Abs(base[m]) \in Nat
    BY <1>3 DEF Abs
  <2>2. Abs(base[m]) * r.fraction \in Nat
    BY <1>1, <2>1, ProductType
  <2>3. SizeFor(r) = (Abs(base[m]) * r.fraction) \div Bps
    BY <1>7 DEF SizeFor
  <2> QED BY <1>2, <2>2, <2>3, QuotientType
<1>8. CASE r.kind \notin {"perp_open", "perp_close"}
  <2>1. SizeFor(r) = r.delta
    BY <1>8 DEF SizeFor
  <2> QED BY <1>1, <2>1
<1> QED BY <1>6, <1>7, <1>8

\* A call of one agent leaves the others'.
LEMMA AgentKeeps ==
  ASSUME PerpInv, NEW a \in Orders, NEW k, CallSound(k),
         call' = [call EXCEPT ![a] = k], base' \in [Markets -> Int], UNCHANGED cond
  PROVE  PerpInv'
<1>1. \A x \in Orders : call'[x] = IF x = a THEN k ELSE call[x]
  BY DEF PerpInv
<1>2. call' = [x \in Orders |-> call'[x]]
  BY DEF PerpInv
<1>3. \A x \in Orders : CallSound(call'[x])
  BY <1>1 DEF PerpInv
<1> QED BY <1>2, <1>3 DEF PerpInv

LEMMA BuildKeeps ==
  ASSUME PerpInv, NEW a \in Orders, NEW r \in Requests, NEW liq, Priced(r.market),
         Build(a, r, liq)
  PROVE  PerpInv'
<1> DEFINE k == [phase |-> "built", intent |-> IntentFor(r, liq), snapshot |-> Snapshot,
                 order |-> ReduceOnly(r.kind)]
<1>1. call' = [call EXCEPT ![a] = k] /\ UNCHANGED <<base, cond>>
  BY DEF Build
<1>2. SizeFor(r) \in Nat /\ r.market \in Markets
  BY SizeType, PerpsAssumption DEF Build
<1>3. /\ IntentFor(r, liq).market = r.market /\ IntentFor(r, liq).base = SizeFor(r)
      /\ IntentFor(r, liq).kind = r.kind /\ IntentFor(r, liq).side = SideFor(r)
  BY DEF IntentFor
<1>4. Reducing(r.kind) => SideFor(r) \in {"long", "short"}
  BY Zenon DEF Reducing, SideFor, Opposite
<1>5. k = [f \in BuiltFields |-> k[f]] /\ k.phase = "built" /\ k.intent = IntentFor(r, liq)
  BY DEF BuiltFields
<1>6. Reducing(r.kind) => k.order = TRUE
  BY DEF ReduceOnly
<1> HIDE DEF k
<1>7. CallSound(k)
  BY <1>2, <1>3, <1>4, <1>5, <1>6 DEF CallSound, Reduces, Placed
<1> QED BY <1>1, <1>7, AgentKeeps DEF PerpInv

LEMMA JudgeKeeps == ASSUME PerpInv, NEW a \in Orders, Judge(a) PROVE PerpInv'
<1>1. PICK k : k = call[a]
  OBVIOUS
<1>2. CallSound(k) /\ k.phase = "built"
  BY <1>1 DEF Judge, PerpInv
<1>3. PICK j : j = [k EXCEPT !.phase = "approved"]
  OBVIOUS
<1>4. /\ j = [f \in BuiltFields |-> j[f]] /\ j.phase = "approved"
      /\ j.intent = k.intent /\ j.order = k.order
  BY <1>2, <1>3 DEF CallSound, BuiltFields
<1>5. CallSound(j)
  BY <1>2, <1>4 DEF CallSound, Reduces, Placed
<1>6. CallSound(NoCall)
  BY DEF CallSound, NoCall, Placed
<1>7. \/ call' = [call EXCEPT ![a] = j]
      \/ call' = [call EXCEPT ![a] = NoCall]
  BY <1>1, <1>3, Zenon DEF Judge
<1>8. UNCHANGED <<base, cond>>
  BY DEF Judge
<1> QED BY <1>5, <1>6, <1>7, <1>8, AgentKeeps DEF PerpInv

LEMMA ExecuteKeeps == ASSUME PerpInv, NEW a \in Orders, Execute(a) PROVE PerpInv'
<1>1. PICK k : k = call[a]
  OBVIOUS
<1>2. CallSound(k) /\ k.phase = "approved"
  BY <1>1 DEF Execute, PerpInv
<1>3. PICK j : j = [phase |-> "sent", intent |-> k.intent, order |-> k.order,
                    pre |-> ReadPosition(k.intent.market), filled |-> 0, report |-> "none"]
  OBVIOUS
<1>4. /\ j = [f \in SentFields |-> j[f]] /\ j.phase = "sent"
      /\ j.intent = k.intent /\ j.order = k.order /\ j.filled = 0
  BY <1>3 DEF SentFields
<1>5. CallSound(j)
  BY <1>2, <1>4 DEF CallSound, Reduces, Placed
<1>6. call' = [call EXCEPT ![a] = j] /\ UNCHANGED <<base, cond>>
  BY <1>1, <1>3 DEF Execute
<1> QED BY <1>5, <1>6, AgentKeeps DEF PerpInv

LEMMA SettleKeeps == ASSUME PerpInv, NEW a \in Orders, Settle(a) PROVE PerpInv'
<1>1. PICK k : k = call[a]
  OBVIOUS
<1>2. CallSound(k) /\ k.phase = "sent"
  BY <1>1 DEF Settle, PerpInv
<1>3. PICK x : call' = [call EXCEPT ![a] = [phase |-> "resting", intent |-> k.intent,
                  order |-> k.order, pre |-> 0, filled |-> k.filled, report |-> x]]
  BY <1>1 DEF Settle
<1>4. PICK j : j = [phase |-> "resting", intent |-> k.intent, order |-> k.order, pre |-> 0,
                    filled |-> k.filled, report |-> x]
  OBVIOUS
<1>5. /\ j = [f \in SentFields |-> j[f]] /\ j.phase = "resting"
      /\ j.intent = k.intent /\ j.order = k.order /\ j.filled = k.filled
  BY <1>4 DEF SentFields
<1>6. CallSound(j)
  BY <1>2, <1>5 DEF CallSound, Reduces, Placed
<1>7. call' = [call EXCEPT ![a] = j] /\ UNCHANGED <<base, cond>>
  BY <1>3, <1>4 DEF Settle
<1> QED BY <1>6, <1>7, AgentKeeps DEF PerpInv

\* What the exchange fills is an integer, no more than is left of the order, and of a
\* reduce-only order no more than what the position has on the other side.
LEMMA FillableSound ==
  ASSUME PerpInv, NEW a \in Orders, Placed(call[a]), Fillable(call[a]) > 0
  PROVE  /\ Fillable(call[a]) \in Nat \ {0} /\ LeftOf(call[a]) \in Nat
         /\ Fillable(call[a]) <= LeftOf(call[a])
         /\ Reducing(call[a].intent.kind) =>
              /\ Fillable(call[a]) <= Abs(base[call[a].intent.market])
              /\ call[a].intent.side \in {"long", "short"}
              /\ SideOf(base[call[a].intent.market]) # call[a].intent.side
<1>1. PICK k : k = call[a]
  OBVIOUS
<1>2. /\ k.intent.market \in Markets /\ k.intent.base \in Nat
      /\ Reducing(k.intent.kind) => Reduces(k)
      /\ k.filled \in Nat /\ k.filled <= k.intent.base
  BY <1>1 DEF PerpInv, CallSound, Placed
<1>3. PICK b, n : b = base[k.intent.market] /\ n = LeftOf(k)
  OBVIOUS
<1>4. b \in Int /\ n \in Nat
  BY <1>2, <1>3 DEF PerpInv, LeftOf
<1>5. Fillable(k) = IF ~k.order THEN n
                    ELSE IF b = 0 \/ SideOf(b) = k.intent.side THEN 0
                    ELSE IF n < Abs(b) THEN n ELSE Abs(b)
  BY <1>3 DEF Fillable
<1>6. Fillable(k) \in Int /\ Fillable(k) <= n
  BY <1>2, <1>4, <1>5 DEF Abs
<1>7. ASSUME Reducing(k.intent.kind)
      PROVE  /\ Fillable(k) <= Abs(b) /\ k.intent.side \in {"long", "short"}
             /\ SideOf(b) # k.intent.side
  BY <1>1, <1>2, <1>4, <1>5, <1>7 DEF Reduces, Abs
<1> QED BY <1>1, <1>3, <1>4, <1>6, <1>7

\* A fill: how much, and the order after it.
LEMMA Filling ==
  ASSUME PerpInv, NEW a \in Orders, NEW whole \in BOOLEAN, FillOrder(a, whole),
         NEW k, k = call[a], NEW n, n = IF whole THEN Fillable(k) ELSE 1,
         NEW j, j = [k EXCEPT !.filled = k.filled + n]
  PROVE  /\ Placed(k) /\ CallSound(k) /\ n \in Nat \ {0} /\ n <= Fillable(k)
         /\ LeftOf(k) \in Nat /\ LeftOf(j) = LeftOf(k) - n /\ LeftOf(j) \in Nat
         /\ Placed(j) /\ CallSound(j) /\ j.phase = k.phase /\ j.intent = k.intent
         /\ call' = [call EXCEPT ![a] = j]
         /\ base' = [base EXCEPT ![k.intent.market] = @ + Signed(k.intent.side, n)]
         /\ UNCHANGED <<cond, lowest>>
<1>1. CallSound(k) /\ Placed(k) /\ Fillable(k) > 0
  BY DEF FillOrder, PerpInv
<1>2. Fillable(k) \in Nat \ {0} /\ LeftOf(k) \in Nat /\ Fillable(k) <= LeftOf(k)
  BY <1>1, FillableSound
<1>3. n \in Nat \ {0} /\ n <= Fillable(k)
  BY <1>2
<1>4. /\ k = [f \in SentFields |-> k[f]] /\ k.filled \in Nat /\ k.filled <= k.intent.base
      /\ k.intent.base \in Nat
  BY <1>1 DEF CallSound, Placed
<1>5. /\ j = [f \in SentFields |-> j[f]] /\ j.phase = k.phase
      /\ j.intent = k.intent /\ j.order = k.order /\ j.filled = k.filled + n
  BY <1>4 DEF SentFields
<1>6. LeftOf(j) = LeftOf(k) - n /\ LeftOf(j) \in Nat
  BY <1>2, <1>3, <1>4, <1>5 DEF LeftOf
<1>7. Placed(j) /\ CallSound(j)
  <2>1. j.filled \in Nat /\ j.filled <= j.intent.base
    BY <1>3, <1>4, <1>5, <1>6 DEF LeftOf
  <2> QED BY <1>1, <1>5, <2>1 DEF CallSound, Reduces, Placed
<1>8. call' = [call EXCEPT ![a] = j]
  BY DEF FillOrder
<1>9. /\ base' = [base EXCEPT ![k.intent.market] = @ + Signed(k.intent.side, n)]
      /\ UNCHANGED <<cond, lowest>>
  BY DEF FillOrder
<1> QED BY <1>1, <1>2, <1>3, <1>5, <1>6, <1>7, <1>8, <1>9

LEMMA FillOrderKeeps ==
  ASSUME PerpInv, NEW a \in Orders, NEW whole \in BOOLEAN, FillOrder(a, whole)
  PROVE  PerpInv'
<1>1. PICK k : k = call[a]
  OBVIOUS
<1>2. PICK n : n = IF whole THEN Fillable(k) ELSE 1
  OBVIOUS
<1>3. PICK j : j = [k EXCEPT !.filled = k.filled + n]
  OBVIOUS
<1>4. /\ Placed(k) /\ CallSound(k) /\ CallSound(j) /\ n \in Nat
      /\ call' = [call EXCEPT ![a] = j] /\ UNCHANGED cond
      /\ base' = [base EXCEPT ![k.intent.market] = @ + Signed(k.intent.side, n)]
  BY <1>1, <1>2, <1>3, Filling
<1>5. Signed(k.intent.side, n) \in Int /\ k.intent.market \in Markets
  BY <1>4 DEF Signed, CallSound, Placed
<1>6. base' \in [Markets -> Int]
  BY <1>4, <1>5 DEF PerpInv
<1> QED BY <1>4, <1>6, AgentKeeps

LEMMA PerpStep == PerpInv /\ [PerpNext]_perpVars => PerpInv'
<1> SUFFICES ASSUME PerpInv, [PerpNext]_perpVars PROVE PerpInv'
  OBVIOUS
<1>1. CASE UNCHANGED perpVars
  BY <1>1 DEF PerpInv, perpVars
<1>2. CASE \E a \in Orders, r \in Requests : AskClose(a, r)
  BY <1>2, BuildKeeps DEF AskClose
<1>3. CASE \E a \in Orders, r \in Requests, l \in LiqPrices \cup {Undefined} :
             AskOpen(a, r, l) \/ AskAdjust(a, r, l)
  BY <1>3, BuildKeeps DEF AskOpen, AskAdjust
<1>4. CASE \E a \in Orders : Judge(a)
  BY <1>4, JudgeKeeps
<1>5. CASE \E a \in Orders : Execute(a)
  BY <1>5, ExecuteKeeps
<1>6. CASE \E a \in Orders : Drop(a) \/ OrderEnds(a)
  <2>1. CallSound(NoCall)
    BY DEF CallSound, NoCall, Placed
  <2> QED BY <1>6, <2>1, AgentKeeps DEF Drop, OrderEnds, PerpInv
<1>7. CASE \E a \in Orders : Settle(a)
  BY <1>7, SettleKeeps
<1>8. CASE \E a \in Orders, whole \in BOOLEAN : FillOrder(a, whole)
  BY <1>8, FillOrderKeeps
<1>9. CASE Connect \/ (\E ok \in BOOLEAN : Connected(ok)) \/ Disconnect \/ CreateAccount
  BY <1>9 DEF Connect, Connected, Disconnect, CreateAccount, PerpInv
<1>10. CASE \E m \in Markets, c \in Conditions : MarketMoves(m, c)
  BY <1>10 DEF MarketMoves, PerpInv
<1>11. CASE \E s \in Switches : Operator(s)
  BY <1>11 DEF Operator, PerpInv
<1>12. CASE \E m \in Markets, b \in {base[x] : x \in Markets} \cup {0 - base[x] : x \in Markets} :
              Elsewhere(m, b)
  BY <1>12 DEF Elsewhere, PerpInv
<1> QED BY <1>1, <1>2, <1>3, <1>4, <1>5, <1>6, <1>7, <1>8, <1>9, <1>10, <1>11, <1>12 DEF PerpNext

LEMMA PerpStart == PerpInit => PerpInv
<1> SUFFICES ASSUME PerpInit PROVE PerpInv
  OBVIOUS
<1>1. CallSound(NoCall)
  BY DEF CallSound, NoCall, Placed
<1>2. (CHOOSE c \in Conditions : InOrder(c)) \in Conditions
  BY PerpsAssumption
<1>3. PICK c : c = CHOOSE x \in Conditions : InOrder(x)
  OBVIOUS
<1>4. cond = [m \in Markets |-> c]
  BY <1>3 DEF PerpInit
<1>5. cond \in [Markets -> Conditions]
  BY <1>2, <1>3, <1>4
<1>6. base \in [Markets -> Int] /\ call = [a \in Orders |-> NoCall]
  BY DEF PerpInit
<1> QED BY <1>1, <1>5, <1>6 DEF PerpInv

\* An order that is placed is filled by FillOrder alone.
LEMMA OnlyFills ==
  ASSUME PerpInv, PerpNext, NEW a \in Orders, Placed(call[a]), Placed(call'[a]),
         call'[a].filled # call[a].filled
  PROVE  \E whole \in BOOLEAN : FillOrder(a, whole)
<1>1. ASSUME NEW x \in Orders, NEW k, call' = [call EXCEPT ![x] = k],
             ~Placed(call[x]) \/ ~Placed(k) \/ k.filled = call[x].filled
      PROVE  FALSE
  <2>1. call'[a] = IF a = x THEN k ELSE call[a]
    BY <1>1 DEF PerpInv
  <2> QED BY <1>1, <2>1
<1>2. ASSUME NEW x \in Orders, NEW r, NEW l, Build(x, r, l) PROVE FALSE
  BY <1>1, <1>2 DEF Build, Placed
<1>3. ASSUME NEW x \in Orders, Judge(x) PROVE FALSE
  BY <1>1, <1>3 DEF Judge, Placed
<1>4. ASSUME NEW x \in Orders, Execute(x) PROVE FALSE
  BY <1>1, <1>4 DEF Execute, Placed
<1>5. ASSUME NEW x \in Orders, Drop(x) \/ OrderEnds(x) PROVE FALSE
  BY <1>1, <1>5 DEF Drop, OrderEnds, NoCall, Placed
<1>6. ASSUME NEW x \in Orders, Settle(x) PROVE FALSE
  BY <1>1, <1>6 DEF Settle
<1>7. ASSUME NEW x \in Orders, NEW whole \in BOOLEAN, FillOrder(x, whole) PROVE x = a
  <2>1. PICK n : call' = [call EXCEPT ![x].filled = n]
    BY <1>7 DEF FillOrder
  <2> QED BY <2>1 DEF PerpInv
<1>8. UNCHANGED call => FALSE
  OBVIOUS
<1>9. (\/ Connect \/ (\E ok \in BOOLEAN : Connected(ok)) \/ Disconnect \/ CreateAccount
       \/ (\E m \in Markets, c \in Conditions : MarketMoves(m, c))
       \/ (\E s \in Switches : Operator(s))
       \/ \E m \in Markets, b \in {base[x] : x \in Markets} \cup {0 - base[x] : x \in Markets} :
            Elsewhere(m, b)) => UNCHANGED call
  BY DEF Connect, Connected, Disconnect, CreateAccount, MarketMoves, Operator, Elsewhere
<1> QED BY <1>2, <1>3, <1>4, <1>5, <1>6, <1>7, <1>8, <1>9 DEF PerpNext, AskClose, AskOpen, AskAdjust

\* For any markets, orders, requests and conditions: whatever became of the position
\* since the guards saw it, a fill of a reduce or close order shrinks it.
THEOREM ReduceOnlyAlwaysShrinks == PerpSpec => ReduceOnlyShrinks
<1>1. PerpSpec => []PerpInv
  BY PerpStart, PerpStep, PTL DEF PerpSpec
<1> DEFINE Shrinks(a, m) ==
      (/\ Placed(call[a]) /\ Placed(call'[a])
       /\ call'[a].filled # call[a].filled
       /\ Reducing(call[a].intent.kind) /\ m = call[a].intent.market) =>
         /\ Abs(base'[m]) < Abs(base[m])
         /\ base'[m] # 0 => SideOf(base'[m]) = SideOf(base[m])
<1>2. ASSUME PerpInv, [PerpNext]_perpVars, NEW a \in Orders, NEW m \in Markets
      PROVE  Shrinks(a, m)
  <2> SUFFICES ASSUME Placed(call[a]), Placed(call'[a]),
                      call'[a].filled # call[a].filled,
                      Reducing(call[a].intent.kind), m = call[a].intent.market
               PROVE  /\ Abs(base'[m]) < Abs(base[m])
                      /\ base'[m] # 0 => SideOf(base'[m]) = SideOf(base[m])
    OBVIOUS
  <2>1. PerpNext
    BY <1>2 DEF perpVars
  <2>2. PICK whole \in BOOLEAN : FillOrder(a, whole)
    BY <1>2, <2>1, OnlyFills
  <2>3. PICK n : n = IF whole THEN Fillable(call[a]) ELSE 1
    OBVIOUS
  <2>4. PICK b : b = base[m]
    OBVIOUS
  <2>5. /\ b \in Int /\ n \in Nat /\ n > 0 /\ n <= Abs(b)
        /\ call[a].intent.side \in {"long", "short"} /\ SideOf(b) # call[a].intent.side
    <3>1. Fillable(call[a]) > 0
      BY <2>2 DEF FillOrder
    <3>2. /\ Fillable(call[a]) \in Nat \ {0} /\ Fillable(call[a]) <= Abs(b)
          /\ call[a].intent.side \in {"long", "short"} /\ SideOf(b) # call[a].intent.side
      BY <1>2, <2>4, <3>1, FillableSound
    <3>3. b \in Int
      BY <1>2, <2>4 DEF PerpInv
    <3>4. Abs(b) \in Nat
      BY <3>3 DEF Abs
    <3> QED BY <2>3, <3>2, <3>3, <3>4
  <2>6. base'[m] = b + Signed(call[a].intent.side, n)
    BY <1>2, <2>2, <2>3, <2>4 DEF FillOrder, PerpInv
  <2> QED BY <2>4, <2>5, <2>6 DEF Signed, SideOf, Abs
<1>3. PerpInv /\ [PerpNext]_perpVars =>
        [\A a \in Orders : \A m \in Markets : Shrinks(a, m)]_perpVars
  <2> HIDE DEF Shrinks
  <2> QED BY <1>2
<1> QED BY <1>1, <1>3, PTL DEF PerpSpec, ReduceOnlyShrinks

-----------------------------------------------------------------------------
(* The overshoot.  An opening order that may still fill weighs what is     *)
(* left of it, at the price it was sized at.  The positions at the lowest  *)
(* prices used, and the weights of the orders to come, stay within the     *)
(* bound together: a proposal that passes the caps has counted all the     *)
(* positions, the orders of the others weigh one cap each, and a fill      *)
(* turns weight into position.  Everything is in base units times a price, *)
(* so that nothing is rounded but what the guards round.                   *)

\* An opening order that may still fill
Coming(k) == k.phase \in {"built", "approved", "sent", "resting"} /\ Opening(k.intent.kind)

\* What the guards will find of the caps, from the snapshot
Allowed(k) ==
  /\ ~(Effective(k.intent) > NotionalCap)
  /\ ~k.snapshot.exposure.stale
  /\ ~(k.snapshot.exposure.notional[Bucket(SettlementMint)] + Effective(k.intent) > PortfolioCap)

ToFill(k) == IF Placed(k) THEN LeftOf(k) ELSE k.intent.base
Weighs(k) == Coming(k) /\ (k.phase = "built" => Allowed(k))
Weight(k) == IF Weighs(k) THEN ToFill(k) * k.intent.entry ELSE 0

\* An opening order is worth no more than it is judged at, but for the rounding, at a
\* price that no proposal has undercut yet
SizedAt(k, l) ==
  /\ k.intent.mint = SettlementMint
  /\ k.intent.market \in Markets
  /\ k.intent.base \in Nat /\ k.intent.entry \in Nat /\ Effective(k.intent) \in Nat
  /\ l[k.intent.market] <= k.intent.entry
  /\ k.intent.base * k.intent.entry <= Base * Effective(k.intent) + (Base - 1)
  /\ Placed(k) => k.filled \in Nat /\ k.filled <= k.intent.base
  /\ k.phase # "built" => Effective(k.intent) <= NotionalCap

KindSound(k) ==
  k.phase \in {"built", "approved", "sent", "resting"} =>
    Opening(k.intent.kind) \/ Reducing(k.intent.kind)

WorthAt(b, l) == SumFunctionOnSet([m \in Markets |-> Abs(b[m]) * l[m]], Markets)
Awaited(c) == SumFunctionOnSet([a \in Orders |-> Weight(c[a])], Orders)
OrderCap == Base * NotionalCap + (Base - 1)
OthersCap == (Cardinality(Orders) - 1) * OrderCap
OwnCap == Base * PortfolioCap + (Base - 1) * (Cardinality(Markets) + 1)

OvershootInv ==
  /\ lowest \in [Markets -> Nat]
  /\ \A a \in Orders : KindSound(call[a])
  /\ \A a \in Orders : Coming(call[a]) => SizedAt(call[a], lowest)
  /\ WorthAt(base, lowest) + Awaited(call) <= OwnCap + OthersCap

\* The caps are numbers.
LEMMA CapsSound == OrderCap \in Nat /\ OthersCap \in Nat /\ OwnCap \in Nat
<1>1. /\ Base \in Nat /\ Base - 1 \in Nat /\ PortfolioCap \in Nat /\ NotionalCap \in Nat
      /\ Cardinality(Markets) + 1 \in Nat
  BY PerpsAssumption, FS_CardinalityType
<1>2. Cardinality(Orders) - 1 \in Nat
  BY PerpsAssumption, FS_CardinalityType, FS_EmptySet
<1>3. /\ Base * NotionalCap \in Nat /\ Base * PortfolioCap \in Nat
      /\ (Base - 1) * (Cardinality(Markets) + 1) \in Nat
  BY <1>1, ProductType
<1>4. OrderCap \in Nat
  BY <1>1, <1>3 DEF OrderCap
<1>5. OthersCap \in Nat
  BY <1>2, <1>4, ProductType DEF OthersCap
<1> QED BY <1>1, <1>3, <1>4, <1>5 DEF OwnCap

\* The worth of a position is a number, as is its notional, which loses less than a unit.
LEMMA NotionalType ==
  ASSUME NEW b \in Int, NEW p \in Nat
  PROVE  /\ Abs(b) \in Nat /\ Abs(b) * p \in Nat /\ NotionalOf(b, p) \in Nat
         /\ Abs(b) * p <= Base * NotionalOf(b, p) + (Base - 1)
<1>1. Abs(b) \in Nat
  BY DEF Abs
<1>2. PICK w, q : w = Abs(b) * p /\ q = NotionalOf(b, p)
  OBVIOUS
<1>3. w \in Nat /\ Base \in Nat \ {0}
  BY <1>1, <1>2, ProductType, PerpsAssumption
<1>4. q = w \div Base
  BY <1>2 DEF NotionalOf
<1>5. w = (w \div Base) * Base + (w % Base) /\ w % Base \in 0..(Base - 1) /\ w \div Base \in Nat
  BY <1>3, DivMod
<1>6. q * Base = Base * q /\ Base * q \in Nat
  BY <1>3, <1>4, <1>5, ProductType
<1>7. w <= Base * q + (Base - 1)
  BY <1>3, <1>4, <1>5, <1>6
<1> QED BY <1>1, <1>2, <1>3, <1>4, <1>5, <1>7

\* The worth grows with the position and with the price.
LEMMA WorthGrows ==
  ASSUME NEW x \in Nat, NEW y \in Nat, NEW p \in Nat, NEW q \in Nat, x <= y, p <= q
  PROVE  x * p \in Nat /\ y * q \in Nat /\ x * p <= y * q
<1>1. x * p <= y * p /\ p * y <= q * y /\ x * p \in Nat /\ y * p \in Nat /\ y * q \in Nat
  BY ProductGrows, ProductType
<1>2. y * p = p * y /\ y * q = q * y
  OBVIOUS
<1> QED BY <1>1, <1>2

\* Smaller positions at lower prices are worth no more.
LEMMA WorthShrinks ==
  ASSUME NEW b \in [Markets -> Int], NEW c \in [Markets -> Int],
         NEW l \in [Markets -> Nat], NEW q \in [Markets -> Nat],
         \A m \in Markets : Abs(b[m]) <= Abs(c[m]) /\ l[m] <= q[m]
  PROVE  WorthAt(b, l) \in Int /\ WorthAt(c, q) \in Int /\ WorthAt(b, l) <= WorthAt(c, q)
<1> DEFINE f == [m \in Markets |-> Abs(b[m]) * l[m]]
           e == [m \in Markets |-> Abs(c[m]) * q[m]]
<1>1. \A m \in Markets : Abs(b[m]) \in Nat /\ Abs(c[m]) \in Nat
  BY NotionalType
<1>2. \A m \in Markets :
        Abs(b[m]) * l[m] \in Nat /\ Abs(c[m]) * q[m] \in Nat /\ Abs(b[m]) * l[m] <= Abs(c[m]) * q[m]
  BY <1>1, WorthGrows
<1>3. \A m \in Markets : f[m] \in Int /\ e[m] \in Int /\ f[m] <= e[m]
  BY <1>2
<1>4. WorthAt(b, l) = SumFunctionOnSet(f, Markets) /\ WorthAt(c, q) = SumFunctionOnSet(e, Markets)
  BY DEF WorthAt
<1> HIDE DEF f, e
<1>5. IsFiniteSet(Markets)
  BY PerpsAssumption
<1> QED BY <1>3, <1>4, <1>5, SumMonotone, SumType

\* What the positions are worth is a number.
LEMMA WorthType ==
  ASSUME PerpInv, OvershootInv PROVE WorthAt(base, lowest) \in Int
<1>1. PICK b, l : b = base /\ l = lowest
  OBVIOUS
<1>2. b \in [Markets -> Int] /\ l \in [Markets -> Nat]
  BY <1>1 DEF PerpInv, OvershootInv
<1>3. \A m \in Markets : Abs(b[m]) <= Abs(b[m]) /\ l[m] <= l[m]
  BY <1>2 DEF Abs
<1>4. WorthAt(b, l) \in Int
  BY <1>2, <1>3, WorthShrinks
<1> QED BY <1>1, <1>4

\* An order weighs at most what it is judged at, with its rounding, and so one cap.
LEMMA WeightSound ==
  ASSUME NEW k, NEW l, Coming(k) => SizedAt(k, l)
  PROVE  /\ Weight(k) \in Nat /\ Weight(k) <= OrderCap
         /\ Weighs(k) => Weight(k) <= Base * Effective(k.intent) + (Base - 1)
<1>1. NotionalCap \in Nat /\ Base \in Nat \ {0} /\ OrderCap \in Nat
  BY PerpsAssumption, CapsSound
<1>2. CASE Weighs(k)
  <2>1. PICK s, p, v, n : /\ s = k.intent.base /\ p = k.intent.entry /\ v = Effective(k.intent)
                          /\ n = ToFill(k)
    OBVIOUS
  <2>2. s \in Nat /\ p \in Nat /\ v \in Nat /\ s * p <= Base * v + (Base - 1)
    BY <1>2, <2>1 DEF Weighs, SizedAt
  <2>3. v <= NotionalCap
    <3>1. k.phase # "built" => v <= NotionalCap
      BY <1>2, <2>1 DEF Weighs, SizedAt
    <3> QED BY <1>1, <1>2, <2>1, <2>2, <3>1 DEF Weighs, Allowed
  <2>4. n \in Nat /\ n <= s
    BY <1>2, <2>1, <2>2 DEF Weighs, SizedAt, ToFill, LeftOf
  <2>5. p <= p
    BY <2>2
  <2>6. n * p \in Nat /\ s * p \in Nat /\ n * p <= s * p
    BY <2>2, <2>4, <2>5, WorthGrows
  <2>7. v * Base <= NotionalCap * Base /\ v * Base = Base * v /\ NotionalCap * Base = Base * NotionalCap
    BY <1>1, <2>2, <2>3, ProductGrows
  <2>8. Base * v \in Nat /\ Base * NotionalCap \in Nat
    BY <1>1, <2>2, ProductType
  <2>9. OrderCap = Base * NotionalCap + (Base - 1)
    BY DEF OrderCap
  <2>10. n * p <= Base * v + (Base - 1) /\ n * p <= OrderCap
    BY <1>1, <2>2, <2>6, <2>7, <2>8, <2>9
  <2>11. Weight(k) = n * p
    BY <1>2, <2>1 DEF Weight
  <2> QED BY <2>1, <2>6, <2>10, <2>11
<1>3. CASE ~Weighs(k)
  BY <1>1, <1>3 DEF Weight
<1> QED BY <1>2, <1>3

\* The weights of all the calls are a number.
LEMMA AwaitedType ==
  ASSUME OvershootInv PROVE Awaited(call) \in Int
<1>1. \A x \in Orders : Weight(call[x]) \in Nat
  BY WeightSound DEF OvershootInv
<1>2. PICK f : f = [x \in Orders |-> Weight(call[x])]
  OBVIOUS
<1>3. IsFiniteSet(Orders) /\ \A x \in Orders : f[x] \in Int
  BY <1>1, <1>2, PerpsAssumption
<1>4. SumFunctionOnSet(f, Orders) \in Int
  BY <1>3, SumType
<1> QED BY <1>2, <1>4 DEF Awaited

\* The weights of all the calls, when that of one call changes.
LEMMA AwaitedChanges ==
  ASSUME PerpInv, OvershootInv, NEW a \in Orders, NEW k, Weight(k) \in Nat,
         call' = [call EXCEPT ![a] = k]
  PROVE  /\ Awaited(call) \in Int
         /\ Awaited(call') = Awaited(call) - Weight(call[a]) + Weight(k)
         /\ Awaited(call') <= OthersCap + Weight(k)
<1> DEFINE R == Orders \ {a}
<1>0. PICK f, e : f = [x \in Orders |-> Weight(call[x])] /\ e = [x \in Orders |-> Weight(call'[x])]
  OBVIOUS
<1>1. \A x \in Orders : Weight(call[x]) \in Nat /\ Weight(call[x]) <= OrderCap
  BY WeightSound DEF OvershootInv
<1>2. \A x \in Orders : call'[x] = IF x = a THEN k ELSE call[x]
  BY DEF PerpInv
<1>3. IsFiniteSet(Orders) /\ OrderCap \in Int
  BY PerpsAssumption, CapsSound
<1>4. /\ \A x \in Orders : f[x] \in Int /\ e[x] \in Int
      /\ \A x \in Orders : x # a => e[x] = f[x]
      /\ \A x \in R : e[x] \in Int /\ e[x] <= OrderCap
      /\ f[a] = Weight(call[a]) /\ e[a] = Weight(k)
  BY <1>0, <1>1, <1>2
<1>5. Awaited(call) = SumFunctionOnSet(f, Orders) /\ Awaited(call') = SumFunctionOnSet(e, Orders)
  BY <1>0 DEF Awaited
<1>6. IsFiniteSet(R) /\ Cardinality(R) = Cardinality(Orders) - 1 /\ Cardinality(R) \in Nat
  BY <1>3, FS_RemoveElement, FS_CardinalityType
<1>7. /\ SumFunctionOnSet(f, Orders) \in Int
      /\ SumFunctionOnSet(e, Orders) = SumFunctionOnSet(f, Orders) - f[a] + e[a]
  <2>1. \A x \in Orders : f[x] \in Int /\ e[x] \in Int
    BY <1>4
  <2>2. \A x \in Orders : x # a => e[x] = f[x]
    BY <1>4
  <2> QED BY <1>3, <2>1, <2>2, SumChange
<1>8. SumFunctionOnSet(e, Orders) = e[a] + SumFunctionOnSet(e, R)
  BY <1>3, <1>4, SumRemove
<1> HIDE DEF R
<1>9. SumFunctionOnSet(e, R) <= OrderCap * Cardinality(R) /\ SumFunctionOnSet(e, R) \in Int
  BY <1>3, <1>4, <1>6, SumAtMost, SumType
<1>10. OrderCap * Cardinality(R) = OthersCap /\ OthersCap \in Int
  BY <1>3, <1>6, CapsSound, Z3 DEF OthersCap
<1> QED BY <1>4, <1>5, <1>7, <1>8, <1>9, <1>10

\* A call that weighs no more than before, with the positions and prices as they were
\* or less, keeps the invariant.
LEMMA CallMoves ==
  ASSUME PerpInv, OvershootInv, NEW a \in Orders, NEW k, call' = [call EXCEPT ![a] = k],
         KindSound(k), Coming(k) => SizedAt(k, lowest),
         Weight(k) <= Weight(call[a]), UNCHANGED <<base, lowest>>
  PROVE  OvershootInv'
<1>1. \A x \in Orders : call'[x] = IF x = a THEN k ELSE call[x]
  BY DEF PerpInv
<1>2. \A x \in Orders : KindSound(call'[x]) /\ (Coming(call'[x]) => SizedAt(call'[x], lowest'))
  BY <1>1 DEF OvershootInv
<1>3. Weight(k) \in Nat /\ Weight(call[a]) \in Nat
  BY WeightSound DEF OvershootInv
<1>4. /\ Awaited(call) \in Int
      /\ Awaited(call') = Awaited(call) - Weight(call[a]) + Weight(k)
  BY <1>3, AwaitedChanges
<1>5. WorthAt(base, lowest) \in Int
  BY WorthType
<1>6. WorthAt(base, lowest) + Awaited(call) <= OwnCap + OthersCap
  BY DEF OvershootInv
<1>7. OwnCap + OthersCap \in Int
  BY CapsSound
<1>8. WorthAt(base', lowest') + Awaited(call') <= OwnCap + OthersCap
  <2>1. WorthAt(base', lowest') = WorthAt(base, lowest)
    BY Zenon
  <2> QED BY <1>3, <1>4, <1>5, <1>6, <1>7, <2>1
<1>9. lowest' \in [Markets -> Nat]
  BY DEF OvershootInv
<1> QED BY <1>2, <1>8, <1>9 DEF OvershootInv

\* The exposure of a snapshot counts every position, at its oracle's price or, when it
\* is left out, at nothing; every market loses less than a unit.
LEMMA SnapshotCounts ==
  ASSUME PerpInv, NEW l \in [Markets -> Nat],
         \A m \in Markets : Shown(m) => l[m] <= cond[m].oracle,
         \A m \in Markets : ~Shown(m) /\ base[m] # 0 => l[m] = 0,
         NEW v, v = ExposureFrom(Positions).notional[Bucket(SettlementMint)]
  PROVE  /\ WorthAt(base, l) \in Int /\ v \in Int
         /\ WorthAt(base, l) <= Base * v + (Base - 1) * Cardinality(Markets)
<1> DEFINE T == {m \in Markets : Shown(m)}
           At(m) == [market |-> m, side |-> SideOf(base[m]), base |-> Abs(base[m]),
                     notional |-> NotionalOf(base[m], cond[m].oracle), mint |-> SettlementMint]
<1>1. PICK g, h, f, e, u, o :
        /\ g = [m \in T |-> At(m)]
        /\ h = [m \in T |-> NotionalOf(base[m], cond[m].oracle)]
        /\ f = [p \in Positions |-> p.notional]
        /\ e = [m \in Markets |-> Abs(base[m]) * l[m]]
        /\ u = [m \in T |-> Base * NotionalOf(base[m], cond[m].oracle) + (Base - 1) * 1]
        /\ o = [m \in T |-> 1]
  OBVIOUS
<1>2. IsFiniteSet(Markets) /\ T \in SUBSET Markets /\ IsFiniteSet(T) /\ Base \in Int /\ Base - 1 \in Nat
  BY PerpsAssumption, FS_Subset
<1>3. \A m \in Markets : base[m] \in Int /\ cond[m].oracle \in Nat
  BY PerpsAssumption DEF PerpInv
<1>4. \A m \in Markets :
        /\ NotionalOf(base[m], cond[m].oracle) \in Nat /\ Abs(base[m]) \in Nat
        /\ Abs(base[m]) * l[m] \in Nat /\ Abs(base[m]) * cond[m].oracle \in Nat
        /\ Abs(base[m]) * cond[m].oracle <= Base * NotionalOf(base[m], cond[m].oracle) + (Base - 1)
  BY <1>3, NotionalType
<1>5. Positions = {g[m] : m \in T}
  BY <1>1 DEF Positions
<1>6. {p \in Positions : Bucket(p.mint) = Bucket(SettlementMint)} = Positions
  BY DEF Positions
<1>7. Bucket(SettlementMint) = "usdc"
  BY DEF Bucket, SettlementMint
<1>8. v = SumFunctionOnSet(f, Positions)
  BY <1>1, <1>6, <1>7 DEF ExposureFrom
<1>9. \A m \in T : g[m] \in Positions /\ g[m].notional = h[m] /\ g[m].market = m /\ h[m] \in Int
  BY <1>1, <1>4, <1>5
<1>10. /\ \A m \in T : h[m] \in Int /\ f[g[m]] = h[m]
       /\ \A m \in T : \A x \in T : g[m] = g[x] => m = x
  BY <1>1, <1>9
<1>11. \A m \in T : h[m] \in Int /\ o[m] \in Int /\ u[m] = Base * h[m] + (Base - 1) * o[m] /\ o[m] <= 1
  <2> SUFFICES ASSUME NEW m \in T
               PROVE  h[m] \in Int /\ o[m] \in Int /\ u[m] = Base * h[m] + (Base - 1) * o[m] /\ o[m] <= 1
    OBVIOUS
  <2>1. /\ h[m] = NotionalOf(base[m], cond[m].oracle) /\ o[m] = 1
        /\ u[m] = Base * NotionalOf(base[m], cond[m].oracle) + (Base - 1) * 1
    BY <1>1
  <2>2. u[m] = Base * h[m] + (Base - 1) * o[m]
    BY <2>1, Zenon
  <2> QED BY <1>10, <2>1, <2>2
<1>12. \A m \in Markets : e[m] \in Int
  BY <1>1, <1>4
<1>13. \A m \in T : e[m] <= u[m] /\ u[m] \in Int
  <2> SUFFICES ASSUME NEW m \in T PROVE e[m] <= u[m] /\ u[m] \in Int
    OBVIOUS
  <2>1. PICK x, p, q, w : /\ x = Abs(base[m]) /\ p = l[m] /\ q = cond[m].oracle
                          /\ w = Base * NotionalOf(base[m], q)
    OBVIOUS
  <2>2. x \in Nat /\ p \in Nat /\ q \in Nat /\ p <= q /\ x <= x /\ w \in Nat
    BY <1>2, <1>3, <1>4, <2>1, ProductType
  <2>3. x * p <= x * q /\ x * p \in Nat /\ x * q \in Nat
    BY <2>2, WorthGrows
  <2>4. x * q <= w + (Base - 1)
    BY <1>4, <2>1
  <2>5. e[m] = x * p /\ u[m] = w + (Base - 1)
    BY <1>1, <1>2, <2>1
  <2> QED BY <1>2, <2>2, <2>3, <2>4, <2>5
<1>14. \A m \in Markets \ T : e[m] <= 0
  <2> SUFFICES ASSUME NEW m \in Markets, ~Shown(m) PROVE Abs(base[m]) * l[m] <= 0
    <3>1. \A m \in Markets \ T : m \in Markets /\ ~Shown(m) /\ e[m] = Abs(base[m]) * l[m]
      BY <1>1
    <3> QED BY <3>1
  <2>1. Abs(base[m]) \in Nat /\ Abs(0) = 0 /\ l[m] \in Nat
    BY <1>3 DEF Abs
  <2>2. Abs(base[m]) * l[m] = 0
    BY <2>1
  <2> QED BY <2>2
<1>15. WorthAt(base, l) = SumFunctionOnSet(e, Markets)
  BY <1>1 DEF WorthAt
<1> HIDE DEF T
<1>16. SumFunctionOnSet(f, Positions) = SumFunctionOnSet(h, T)
  <2>1. SumFunctionOnSet(f, {g[m] : m \in T}) = SumFunctionOnSet(h, T)
    BY <1>2, <1>10, SumImage
  <2> QED BY <1>5, <2>1
<1>17. SumFunctionOnSet(h, T) \in Int /\ SumFunctionOnSet(o, T) \in Int
  <2>1. (\A m \in T : h[m] \in Int) /\ \A m \in T : o[m] \in Int
    BY <1>11
  <2> QED BY <1>2, <2>1, SumType
<1>18. SumFunctionOnSet(e, T) \in Int /\ SumFunctionOnSet(e, T) <= SumFunctionOnSet(u, T)
  <2>1. \A m \in T : e[m] \in Int /\ u[m] \in Int /\ e[m] <= u[m]
    BY <1>2, <1>12, <1>13
  <2> QED BY <1>2, <2>1, SumMonotone, SumType
<1>19. SumFunctionOnSet(e, Markets) \in Int /\ SumFunctionOnSet(e, Markets) <= SumFunctionOnSet(e, T)
  BY <1>2, <1>12, <1>14, SumBeyond, SumType
<1>20. SumFunctionOnSet(u, T) = Base * SumFunctionOnSet(h, T) + (Base - 1) * SumFunctionOnSet(o, T)
  <2>1. \A m \in T : h[m] \in Int /\ o[m] \in Int /\ u[m] = Base * h[m] + (Base - 1) * o[m]
    BY <1>11
  <2>2. Base \in Int /\ Base - 1 \in Int
    BY <1>2
  <2> QED BY <1>2, <2>1, <2>2, SumLinear
<1>21. SumFunctionOnSet(o, T) <= Cardinality(Markets) /\ Cardinality(Markets) \in Nat
  <2>0. PICK c : c = 1
    OBVIOUS
  <2>1. c \in Int /\ \A m \in T : o[m] \in Int /\ o[m] <= c
    BY <1>11, <2>0
  <2>2. SumFunctionOnSet(o, T) <= c * Cardinality(T)
    BY <1>2, <2>1, SumAtMost
  <2>3. Cardinality(T) <= Cardinality(Markets) /\ Cardinality(T) \in Nat /\ Cardinality(Markets) \in Nat
    BY <1>2, FS_Subset, FS_CardinalityType
  <2> QED BY <1>17, <2>0, <2>2, <2>3
<1>22. PICK H, O, M, W : /\ H = SumFunctionOnSet(h, T) /\ O = SumFunctionOnSet(o, T)
                         /\ M = Cardinality(Markets) /\ W = SumFunctionOnSet(e, Markets)
  OBVIOUS
<1>23. H \in Int /\ O \in Int /\ M \in Nat /\ O <= M /\ W \in Int /\ W <= Base * H + (Base - 1) * O
  BY <1>17, <1>18, <1>19, <1>20, <1>21, <1>22, <1>2
<1>24. (Base - 1) * O <= (Base - 1) * M
  BY <1>2, <1>23, Z3
<1>25. Base * H \in Int /\ (Base - 1) * O \in Int /\ (Base - 1) * M \in Int
  BY <1>2, <1>23
<1>26. W <= Base * H + (Base - 1) * M
  BY <1>23, <1>24, <1>25
<1> QED BY <1>8, <1>15, <1>16, <1>22, <1>23, <1>26

\* A call without an opening order under way weighs nothing.
LEMMA IdleWeighs ==
  ASSUME NEW k, ~Coming(k) PROVE Weight(k) = 0
BY DEF Weight, Weighs

\* What no guard objects to is within the caps.
LEMMA ApprovedWithinCaps ==
  ASSUME NEW k, Coming(k), k.intent.mint = SettlementMint,
         EvaluatePerpGuards(k.intent, ContextOf(k)) = {}
  PROVE  Allowed(k)
<1>1. PICK i, c : i = k.intent /\ c = ContextOf(k)
  OBVIOUS
<1>2. NotionalWithinCap(i, c) = {} /\ PortfolioWithinCap(i, c) = {}
  BY <1>1, Zenon DEF EvaluatePerpGuards
<1>3. /\ Opening(i.kind) /\ i.mint = SettlementMint /\ Cappable(i)
      /\ c.exposure = k.snapshot.exposure
  BY <1>1 DEF Coming, Cappable, Bucket, SettlementMint, ContextOf
<1>4. ~(Effective(i) > Policy.caps[Bucket(i.mint)].notional)
  BY <1>2, <1>3 DEF NotionalWithinCap, Refuse
<1>5. /\ ~c.exposure.stale
      /\ ~(c.exposure.notional[Bucket(i.mint)] + Effective(i) > Policy.caps[Bucket(i.mint)].portfolio)
  BY <1>2, <1>3 DEF PortfolioWithinCap, Refuse
<1> QED BY <1>1, <1>3, <1>4, <1>5 DEF Allowed, NotionalCap, PortfolioCap

\* An order that goes on as it is, in its next phase, weighs what it did.
LEMMA SameWeight ==
  ASSUME NEW k, NEW j, Coming(k) => SizedAt(k, lowest), j.intent = k.intent, KindSound(k),
         k.phase \in {"built", "approved", "sent", "resting"},
         j.phase \in {"approved", "sent", "resting"},
         k.phase = "built" => (Coming(k) => Allowed(k)),
         Placed(k) => Placed(j) /\ j.filled = k.filled,
         Placed(j) /\ ~Placed(k) => j.filled = 0
  PROVE  KindSound(j) /\ (Coming(j) => SizedAt(j, lowest)) /\ Weight(j) <= Weight(k)
<1>1. KindSound(j) /\ (Coming(j) <=> Coming(k))
  BY DEF KindSound, Coming
<1>2. CASE ~Coming(k)
  BY <1>1, <1>2, IdleWeighs
<1>3. CASE Coming(k)
  <2>1. SizedAt(k, lowest) /\ Weighs(k) /\ Weighs(j)
    BY <1>1, <1>3 DEF Weighs
  <2>2. k.intent.base \in Nat /\ NotionalCap \in Nat /\ Effective(k.intent) \in Nat
    BY <2>1, PerpsAssumption DEF SizedAt
  <2>3. Effective(k.intent) <= NotionalCap
    BY <1>3, <2>1, <2>2 DEF SizedAt, Allowed
  <2>4. Placed(j) => j.filled \in Nat /\ j.filled <= k.intent.base
    BY <2>1, <2>2 DEF SizedAt
  <2>5. SizedAt(j, lowest)
    BY <2>1, <2>3, <2>4 DEF SizedAt
  <2>6. ToFill(j) = ToFill(k)
    BY <2>2 DEF ToFill, LeftOf
  <2>7. Weight(j) = Weight(k)
    BY <2>1, <2>6 DEF Weight
  <2>8. Weight(k) \in Nat
    BY <2>1, WeightSound
  <2> QED BY <1>1, <2>5, <2>7, <2>8
<1> QED BY <1>2, <1>3

LEMMA JudgeBounds == ASSUME PerpInv, OvershootInv, NEW a \in Orders, Judge(a) PROVE OvershootInv'
<1>1. PICK k, j : k = call[a] /\ j = [k EXCEPT !.phase = "approved"]
  OBVIOUS
<1>2. CallSound(k) /\ k.phase = "built" /\ KindSound(k) /\ (Coming(k) => SizedAt(k, lowest))
  BY <1>1 DEF Judge, PerpInv, OvershootInv
<1>3. j.phase = "approved" /\ j.intent = k.intent
  BY <1>1, <1>2 DEF CallSound, BuiltFields
<1>4. UNCHANGED <<base, lowest>>
  BY DEF Judge
<1>5. CASE call' = [call EXCEPT ![a] = j] /\ EvaluatePerpGuards(k.intent, ContextOf(k)) = {}
  <2>1. ASSUME Coming(k) PROVE Allowed(k)
    BY <1>2, <1>5, <2>1, ApprovedWithinCaps DEF SizedAt
  <2>2. ~Placed(k) /\ ~Placed(j)
    BY <1>2, <1>3 DEF Placed
  <2>3. KindSound(j) /\ (Coming(j) => SizedAt(j, lowest)) /\ Weight(j) <= Weight(k)
    BY <1>2, <1>3, <2>1, <2>2, SameWeight
  <2> QED BY <1>1, <1>4, <1>5, <2>3, CallMoves
<1>6. CASE call' = [call EXCEPT ![a] = NoCall]
  <2>1. KindSound(NoCall) /\ ~Coming(NoCall)
    BY DEF KindSound, Coming, NoCall
  <2>2. Weight(NoCall) <= Weight(k)
    BY <1>2, <2>1, IdleWeighs, WeightSound
  <2> QED BY <1>1, <1>4, <1>6, <2>1, <2>2, CallMoves
<1>7. \/ call' = [call EXCEPT ![a] = j] /\ EvaluatePerpGuards(k.intent, ContextOf(k)) = {}
      \/ call' = [call EXCEPT ![a] = NoCall]
  BY <1>1, Zenon DEF Judge
<1> QED BY <1>5, <1>6, <1>7

\* A call that ends weighs nothing any more.
LEMMA EndBounds ==
  ASSUME PerpInv, OvershootInv, NEW a \in Orders, NEW k, KindSound(k), ~Coming(k),
         call' = [call EXCEPT ![a] = k], UNCHANGED <<base, lowest>>
  PROVE  OvershootInv'
<1>1. Weight(k) <= Weight(call[a])
  <2>1. Weight(call[a]) \in Nat
    BY WeightSound DEF OvershootInv
  <2> QED BY <2>1, IdleWeighs
<1> QED BY <1>1, CallMoves

LEMMA DropBounds ==
  ASSUME PerpInv, OvershootInv, NEW a \in Orders, Drop(a) \/ OrderEnds(a) PROVE OvershootInv'
<1>1. PICK k : k = NoCall
  OBVIOUS
<1>2. KindSound(k) /\ ~Coming(k)
  BY <1>1 DEF NoCall, KindSound, Coming
<1>3. call' = [call EXCEPT ![a] = k] /\ UNCHANGED <<base, lowest>>
  BY <1>1 DEF Drop, OrderEnds
<1> QED BY <1>2, <1>3, EndBounds

\* A settled order rests with what is left of it, and weighs as much as before.
LEMMA SettleBounds == ASSUME PerpInv, OvershootInv, NEW a \in Orders, Settle(a) PROVE OvershootInv'
<1>1. PICK k : k = call[a]
  OBVIOUS
<1>2. PICK x : call' = [call EXCEPT ![a] = [phase |-> "resting", intent |-> k.intent,
                  order |-> k.order, pre |-> 0, filled |-> k.filled, report |-> x]]
  BY <1>1 DEF Settle
<1>3. PICK j : j = [phase |-> "resting", intent |-> k.intent, order |-> k.order, pre |-> 0,
                    filled |-> k.filled, report |-> x]
  OBVIOUS
<1>4. k.phase = "sent" /\ KindSound(k) /\ (Coming(k) => SizedAt(k, lowest))
  BY <1>1 DEF Settle, OvershootInv
<1>5. j.phase = "resting" /\ j.intent = k.intent /\ j.filled = k.filled
  BY <1>3
<1>6. Placed(k) /\ Placed(j)
  BY <1>4, <1>5 DEF Placed
<1>7. KindSound(j) /\ (Coming(j) => SizedAt(j, lowest)) /\ Weight(j) <= Weight(k)
  BY <1>4, <1>5, <1>6, SameWeight
<1>8. call' = [call EXCEPT ![a] = j] /\ UNCHANGED <<base, lowest>>
  BY <1>2, <1>3 DEF Settle
<1> QED BY <1>1, <1>7, <1>8, CallMoves

LEMMA ExecuteBounds ==
  ASSUME PerpInv, OvershootInv, NEW a \in Orders, Execute(a) PROVE OvershootInv'
<1>1. PICK k : k = call[a]
  OBVIOUS
<1>2. PICK j : j = [phase |-> "sent", intent |-> k.intent, order |-> k.order,
                    pre |-> ReadPosition(k.intent.market), filled |-> 0, report |-> "none"]
  OBVIOUS
<1>3. k.phase = "approved" /\ KindSound(k) /\ (Coming(k) => SizedAt(k, lowest))
  BY <1>1 DEF Execute, OvershootInv
<1>4. j.phase = "sent" /\ j.intent = k.intent /\ j.filled = 0
  BY <1>2
<1>5. call' = [call EXCEPT ![a] = j] /\ UNCHANGED <<base, lowest>>
  BY <1>1, <1>2 DEF Execute
<1>6. ~Placed(k) /\ Placed(j)
  BY <1>3, <1>4 DEF Placed
<1>7. KindSound(j) /\ (Coming(j) => SizedAt(j, lowest)) /\ Weight(j) <= Weight(k)
  BY <1>3, <1>4, <1>6, SameWeight
<1> QED BY <1>1, <1>5, <1>7, CallMoves

\* Positions that shrink keep the invariant.
LEMMA ShrinkBounds ==
  ASSUME PerpInv, OvershootInv, base' \in [Markets -> Int],
         \A m \in Markets : Abs(base'[m]) <= Abs(base[m]), UNCHANGED <<lowest, call>>
  PROVE  OvershootInv'
<1>1. PICK b, c, l : b = base' /\ c = base /\ l = lowest
  OBVIOUS
<1>2. /\ b \in [Markets -> Int] /\ c \in [Markets -> Int] /\ l \in [Markets -> Nat]
      /\ \A m \in Markets : Abs(b[m]) <= Abs(c[m]) /\ l[m] <= l[m]
  BY <1>1 DEF PerpInv, OvershootInv
<1>3. WorthAt(b, l) \in Int /\ WorthAt(c, l) \in Int /\ WorthAt(b, l) <= WorthAt(c, l)
  BY <1>2, WorthShrinks
<1>4. Awaited(call) \in Int
  BY AwaitedType
<1>5. WorthAt(c, l) + Awaited(call) <= OwnCap + OthersCap
  BY <1>1 DEF OvershootInv
<1>6. OwnCap + OthersCap \in Int
  BY CapsSound
<1>7. WorthAt(b, l) + Awaited(call) <= OwnCap + OthersCap
  BY <1>3, <1>4, <1>5, <1>6
<1>8. WorthAt(base', lowest') + Awaited(call') <= OwnCap + OthersCap
  BY <1>1, <1>7, Zenon
<1> QED BY <1>8 DEF OvershootInv

\* One position grows by no more than some amount, and their worth with it.
LEMMA WorthChanges ==
  ASSUME PerpInv, OvershootInv, NEW m \in Markets, NEW b \in Int, NEW w \in Int,
         Abs(b) * lowest[m] <= Abs(base[m]) * lowest[m] + w
  PROVE  LET after == [base EXCEPT ![m] = b] IN
           WorthAt(after, lowest) \in Int /\ WorthAt(after, lowest) <= WorthAt(base, lowest) + w
<1>1. PICK after : after = [base EXCEPT ![m] = b]
  OBVIOUS
<1>2. PICK f, e : /\ f = [x \in Markets |-> Abs(base[x]) * lowest[x]]
                  /\ e = [x \in Markets |-> Abs(after[x]) * lowest[x]]
  OBVIOUS
<1>3. \A x \in Markets : base[x] \in Int /\ lowest[x] \in Nat /\ after[x] \in Int
  BY <1>1 DEF PerpInv, OvershootInv
<1>4. \A x \in Markets : Abs(base[x]) * lowest[x] \in Nat /\ Abs(after[x]) * lowest[x] \in Nat
  BY <1>3, NotionalType
<1>5. IsFiniteSet(Markets) /\ \A x \in Markets : f[x] \in Int /\ e[x] \in Int
  BY <1>2, <1>4, PerpsAssumption
<1>6. (\A x \in Markets : x # m => e[x] = f[x]) /\ e[m] <= f[m] + w
  BY <1>1, <1>2 DEF PerpInv
<1>7. /\ SumFunctionOnSet(f, Markets) \in Int
      /\ SumFunctionOnSet(e, Markets) = SumFunctionOnSet(f, Markets) - f[m] + e[m]
  <2>1. \A x \in Markets : f[x] \in Int /\ e[x] \in Int
    BY <1>5
  <2>2. \A x \in Markets : x # m => e[x] = f[x]
    BY <1>6
  <2> QED BY <1>5, <2>1, <2>2, SumChange
<1>8. WorthAt(base, lowest) = SumFunctionOnSet(f, Markets) /\ WorthAt(after, lowest) = SumFunctionOnSet(e, Markets)
  BY <1>2 DEF WorthAt
<1>9. WorthAt(after, lowest) \in Int /\ WorthAt(after, lowest) <= WorthAt(base, lowest) + w
  BY <1>5, <1>6, <1>7, <1>8
<1> QED BY <1>1, <1>9

\* A fill makes a position larger by no more than it takes off the order's weight.
LEMMA FillWithinWeight ==
  ASSUME PerpInv, OvershootInv, NEW a \in Orders, NEW whole \in BOOLEAN, FillOrder(a, whole),
         NEW k, k = call[a], NEW n, n = IF whole THEN Fillable(k) ELSE 1,
         NEW j, j = [k EXCEPT !.filled = k.filled + n],
         NEW m, m = k.intent.market, NEW b, b = base[m] + Signed(k.intent.side, n)
  PROVE  /\ m \in Markets /\ b \in Int /\ Weight(k) \in Nat /\ Weight(j) \in Nat
         /\ KindSound(j) /\ (Coming(j) => SizedAt(j, lowest))
         /\ Abs(b) * lowest[m] <= Abs(base[m]) * lowest[m] + (Weight(k) - Weight(j))
<1>1. /\ Placed(k) /\ CallSound(k) /\ n \in Nat \ {0} /\ n <= Fillable(k)
      /\ LeftOf(k) \in Nat /\ LeftOf(j) = LeftOf(k) - n /\ LeftOf(j) \in Nat
      /\ Placed(j) /\ CallSound(j) /\ j.phase = k.phase /\ j.intent = k.intent
  BY Filling
<1>2. /\ m \in Markets /\ k.phase # "built" /\ KindSound(k) /\ (Coming(k) => SizedAt(k, lowest))
      /\ Fillable(k) > 0
  BY <1>1 DEF FillOrder, CallSound, Placed, OvershootInv
<1>3. PICK p, x : p = lowest[m] /\ x = base[m]
  OBVIOUS
<1>4. p \in Nat /\ x \in Int /\ Abs(x) \in Nat /\ Abs(x) * p \in Nat
  <2>1. p \in Nat /\ x \in Int
    BY <1>2, <1>3 DEF PerpInv, OvershootInv
  <2> QED BY <2>1, NotionalType
<1>5. b \in Int /\ Abs(b) \in Nat /\ Abs(b) <= Abs(x) + n
  BY <1>1, <1>3, <1>4 DEF Signed, Abs
<1>6. KindSound(j) /\ (Coming(j) <=> Coming(k)) /\ (Weighs(j) <=> Weighs(k))
  BY <1>1, <1>2 DEF KindSound, Coming, Weighs
<1>7. Coming(j) => SizedAt(j, lowest)
  <2>1. j.filled \in Nat /\ j.filled <= j.intent.base
    BY <1>1 DEF CallSound
  <2> QED BY <1>1, <1>2, <1>6, <2>1 DEF SizedAt
<1>8. Weight(k) \in Nat /\ Weight(j) \in Nat
  BY <1>2, <1>7, WeightSound
<1>9. CASE Coming(k)
  <2>1. PICK q, y : q = k.intent.entry /\ y = LeftOf(k)
    OBVIOUS
  <2>2. q \in Nat /\ p <= q /\ y \in Nat /\ y - n \in Nat
    BY <1>1, <1>2, <1>3, <1>9, <2>1 DEF SizedAt
  <2>3. Weighs(k) /\ Weighs(j)
    BY <1>2, <1>6, <1>9 DEF Weighs
  <2>4. Weight(k) = y * q /\ Weight(j) = (y - n) * q
    BY <1>1, <2>1, <2>3 DEF Weight, ToFill
  <2>5. y * q = (y - n) * q + n * q /\ n * q \in Nat /\ y * q \in Nat /\ (y - n) * q \in Nat
    BY <1>1, <2>2, Z3
  <2>6. n <= n /\ Abs(x) + n \in Nat /\ p <= p
    BY <1>1, <1>4
  <2>7. n * p <= n * q /\ n * p \in Nat
    BY <1>1, <1>4, <2>2, <2>6, WorthGrows
  <2>8. Abs(b) * p \in Nat /\ Abs(b) * p <= (Abs(x) + n) * p
    BY <1>4, <1>5, <2>6, WorthGrows
  <2>9. (Abs(x) + n) * p = Abs(x) * p + n * p
    BY <1>1, <1>4, Z3
  <2>10. Abs(b) * p <= Abs(x) * p + (Weight(k) - Weight(j))
    BY <1>4, <2>4, <2>5, <2>7, <2>8, <2>9
  <2> QED BY <1>2, <1>3, <1>5, <1>6, <1>7, <1>8, <2>10
<1>10. CASE ~Coming(k)
  <2>1. Reducing(k.intent.kind) /\ Weight(k) = 0 /\ Weight(j) = 0
    BY <1>1, <1>2, <1>6, <1>10, IdleWeighs DEF KindSound, Coming, Placed
  <2>2. /\ Fillable(k) \in Nat /\ Fillable(k) <= Abs(x) /\ k.intent.side \in {"long", "short"}
        /\ SideOf(x) # k.intent.side
    BY <1>1, <1>2, <1>3, <2>1, FillableSound
  <2>3. Abs(b) <= Abs(x)
    BY <1>1, <1>3, <1>4, <2>2 DEF Signed, SideOf, Abs
  <2>4. p <= p
    BY <1>4
  <2>5. Abs(b) * p <= Abs(x) * p /\ Abs(b) * p \in Nat
    BY <1>4, <1>5, <2>3, <2>4, WorthGrows
  <2>6. Abs(b) * p <= Abs(x) * p + (Weight(k) - Weight(j))
    BY <1>4, <2>1, <2>5
  <2> QED BY <1>2, <1>3, <1>5, <1>6, <1>7, <1>8, <2>6
<1> QED BY <1>9, <1>10

LEMMA FillBounds ==
  ASSUME PerpInv, OvershootInv, NEW a \in Orders, NEW whole \in BOOLEAN, FillOrder(a, whole)
  PROVE  OvershootInv'
<1>1. PICK k : k = call[a]
  OBVIOUS
<1>2. PICK n, m : n = (IF whole THEN Fillable(k) ELSE 1) /\ m = k.intent.market
  OBVIOUS
<1>3. PICK b, j : b = base[m] + Signed(k.intent.side, n) /\ j = [k EXCEPT !.filled = k.filled + n]
  OBVIOUS
<1>4. /\ m \in Markets /\ b \in Int /\ Weight(k) \in Nat /\ Weight(j) \in Nat
      /\ KindSound(j) /\ (Coming(j) => SizedAt(j, lowest))
      /\ Abs(b) * lowest[m] <= Abs(base[m]) * lowest[m] + (Weight(k) - Weight(j))
  BY <1>1, <1>2, <1>3, FillWithinWeight
<1>5. /\ call' = [call EXCEPT ![a] = j] /\ UNCHANGED lowest
      /\ base' = [base EXCEPT ![m] = @ + Signed(k.intent.side, n)]
  BY <1>1, <1>2, <1>3, Filling
<1>6. base' = [base EXCEPT ![m] = b]
  BY <1>3, <1>5
<1>7. /\ Awaited(call) \in Int
      /\ Awaited(call') = Awaited(call) - Weight(k) + Weight(j)
  BY <1>1, <1>4, <1>5, AwaitedChanges
<1>8. PICK w : w = Weight(k) - Weight(j)
  OBVIOUS
<1>9. w \in Int /\ Abs(b) * lowest[m] <= Abs(base[m]) * lowest[m] + w
  BY <1>4, <1>8
<1>10. WorthAt(base', lowest) \in Int /\ WorthAt(base', lowest) <= WorthAt(base, lowest) + w
  BY <1>4, <1>6, <1>9, WorthChanges
<1>11. WorthAt(base, lowest) \in Int
  BY WorthType
<1>12. WorthAt(base, lowest) + Awaited(call) <= OwnCap + OthersCap
  BY DEF OvershootInv
<1>13. OwnCap + OthersCap \in Int
  BY CapsSound
<1>14. WorthAt(base', lowest') + Awaited(call') <= OwnCap + OthersCap
  <2>1. WorthAt(base', lowest') = WorthAt(base', lowest)
    BY <1>5, Zenon
  <2> QED BY <1>4, <1>7, <1>8, <1>10, <1>11, <1>12, <1>13, <2>1
<1>15. \A x \in Orders : call'[x] = IF x = a THEN j ELSE call[x]
  BY <1>5 DEF PerpInv
<1>16. \A x \in Orders : KindSound(call'[x]) /\ (Coming(call'[x]) => SizedAt(call'[x], lowest'))
  BY <1>4, <1>5, <1>15 DEF OvershootInv
<1> QED BY <1>5, <1>14, <1>16 DEF OvershootInv

\* A negative dividend has no positive quotient.
LEMMA NegativeQuotient ==
  ASSUME NEW x \in Int, x < 0, NEW m \in Nat \ {0} PROVE ~(x \div m > 0)
BY Z3

\* The price at which a market is counted and ordered at is a number.
LEMMA PricesSound ==
  ASSUME PerpInv, OvershootInv, NEW r \in Requests, Priced(r.market)
  PROVE  /\ r.market \in Markets /\ MarkOf(r.market) \in Nat \ {0}
         /\ \A m \in Markets : lowest[m] \in Nat /\ CountedAt(m) \in Nat /\ OrderedAt(m, r) \in Nat
<1>1. r.market \in Markets /\ \A m \in Markets : cond[m].oracle \in Nat /\ cond[m].mark \in Nat
  BY PerpsAssumption DEF PerpInv
<1>2. MarkOf(r.market) \in Nat \ {0}
  BY <1>1 DEF MarkOf, Priced, Usable
<1>3. \A m \in Markets : lowest[m] \in Nat
  BY DEF OvershootInv
<1> QED BY <1>1, <1>2, <1>3 DEF CountedAt, OrderedAt

\* An order to open is worth no more, at the mark it is sized with, than it is judged at,
\* but for the rounding.
LEMMA OrderWithinJudged ==
  ASSUME PerpInv, OvershootInv, NEW r \in Requests, NEW liq, Priced(r.market), Opening(r.kind),
         SizeFor(r) > 0
  PROVE  /\ SizeFor(r) \in Nat /\ Effective(IntentFor(r, liq)) \in Nat
         /\ SizeFor(r) * MarkOf(r.market) <= Base * Effective(IntentFor(r, liq)) + (Base - 1)
<1>1. PICK size, mark, N : /\ size = SizeFor(r) /\ mark = MarkOf(r.market)
                           /\ N = NotionalFrom(r.collateral, r.leverage)
  OBVIOUS
<1>2. mark \in Nat \ {0} /\ size \in Int /\ size > 0
  BY <1>1, PricesSound, SizeType
<1>3. N \in Int /\ (N < 0 \/ N \in Nat)
  <2>1. r.collateral \in Nat /\ r.leverage \in Nat /\ Bps \in Nat \ {0}
    BY PerpsAssumption, UnitsAssumption
  <2>2. r.collateral * r.leverage \in Nat
    BY <2>1, ProductType
  <2>3. (r.collateral * r.leverage) \div Bps \in Nat
    BY <2>1, <2>2, QuotientType
  <2> QED BY <1>1, <2>3 DEF NotionalFrom, Undefined
<1>4. PICK i : i = IntentFor(r, liq)
  OBVIOUS
<1>5. /\ i.collateral = r.collateral /\ i.leverage = r.leverage
      /\ i.notional = IF r.kind = "perp_open" THEN N ELSE NotionalOf(size, mark)
  BY <1>1, <1>4 DEF IntentFor
<1>6. Effective(i) = Larger(i.notional, N)
  BY <1>1, <1>5 DEF Effective
<1>7. size \in Nat /\ Base \in Nat \ {0} /\ size * mark \in Nat
  BY <1>2, PerpsAssumption, ProductType
<1>8. CASE r.kind = "perp_open"
  <2>1. size = (N * Base) \div mark
    BY <1>1, <1>8 DEF SizeFor
  <2>2. N \in Nat
    <3>1. CASE N < 0
      <4>1. N * Base \in Int /\ N * Base < 0
        BY <1>3, <1>7, <3>1, Z3
      <4>2. ~(size > 0)
        BY <1>2, <2>1, <4>1, NegativeQuotient
      <4> QED BY <1>2, <4>2
    <3> QED BY <1>3, <3>1
  <2>3. N * Base \in Nat
    BY <1>7, <2>2, ProductType
  <2>4. size * mark <= N * Base
    <3>1. size <= (N * Base) \div mark
      BY <1>7, <2>1
    <3> QED BY <1>2, <1>7, <2>3, <3>1, QuotientAbove
  <2>5. Effective(i) = N
    BY <1>5, <1>6, <1>8 DEF Larger
  <2>6. size * mark <= Base * N + (Base - 1)
    <3>1. Base * N = N * Base
      BY <1>7, <2>2
    <3> QED BY <1>7, <2>3, <2>4, <3>1
  <2> QED BY <1>1, <1>4, <1>7, <2>2, <2>5, <2>6
<1>9. CASE r.kind # "perp_open"
  <2>1. PICK v : v = NotionalOf(size, mark)
    OBVIOUS
  <2>2. Abs(size) = size
    BY <1>7 DEF Abs
  <2>3. mark \in Nat
    BY <1>2
  <2>4. v \in Nat /\ size * mark <= Base * v + (Base - 1)
    BY <1>2, <2>1, <2>2, <2>3, NotionalType
  <2>5. Effective(i) = Larger(v, N)
    BY <1>5, <1>6, <1>9, <2>1
  <2>6. Effective(i) \in Nat /\ v <= Effective(i)
    BY <1>3, <2>4, <2>5 DEF Larger
  <2>7. PICK E : E = Effective(i)
    OBVIOUS
  <2>8. v * Base <= E * Base /\ v * Base = Base * v /\ E * Base = Base * E
    BY <1>7, <2>4, <2>6, <2>7, ProductGrows
  <2>9. Base * v \in Nat /\ Base * E \in Nat
    BY <1>7, <2>4, <2>6, <2>7, ProductType
  <2>10. size * mark <= Base * E + (Base - 1)
    BY <1>7, <2>4, <2>8, <2>9
  <2> QED BY <1>1, <1>4, <1>7, <2>6, <2>7, <2>10
<1> QED BY <1>8, <1>9

\* Lower prices leave the orders under way sized.
LEMMA SizedBelow ==
  ASSUME PerpInv, OvershootInv, NEW x \in Orders, NEW l \in [Markets -> Nat],
         \A m \in Markets : l[m] <= lowest[m], Coming(call[x])
  PROVE  SizedAt(call[x], l)
<1>1. PICK k : k = call[x]
  OBVIOUS
<1>2. SizedAt(k, lowest)
  BY <1>1 DEF OvershootInv
<1>3. PICK m, p : m = k.intent.market /\ p = k.intent.entry
  OBVIOUS
<1>4. m \in Markets /\ p \in Nat /\ lowest[m] <= p
  BY <1>2, <1>3 DEF SizedAt
<1>5. l[m] \in Nat /\ lowest[m] \in Nat /\ l[m] <= lowest[m]
  BY <1>4 DEF OvershootInv
<1>6. l[m] <= p
  BY <1>4, <1>5
<1> QED BY <1>1, <1>2, <1>3, <1>6 DEF SizedAt

\* A new proposal: what it weighs fits beside the positions it has counted.
LEMMA ProposalBounds ==
  ASSUME PerpInv, OvershootInv, NEW a \in Orders, NEW r \in Requests, NEW liq,
         Priced(r.market), Opening(r.kind), Build(a, r, liq)
  PROVE  OvershootInv'
<1>1. PICK l, k : /\ l = lowest'
                  /\ k = [phase |-> "built", intent |-> IntentFor(r, liq), snapshot |-> Snapshot,
                          order |-> ReduceOnly(r.kind)]
  OBVIOUS
<1>2. /\ call' = [call EXCEPT ![a] = k] /\ UNCHANGED base /\ SizeFor(r) > 0
      /\ call[a].phase = "idle"
      /\ l = [m \in Markets |-> Smaller(lowest[m], Smaller(CountedAt(m), OrderedAt(m, r)))]
  BY <1>1 DEF Build
<1>3. /\ r.market \in Markets /\ MarkOf(r.market) \in Nat \ {0}
      /\ \A m \in Markets : lowest[m] \in Nat /\ CountedAt(m) \in Nat /\ OrderedAt(m, r) \in Nat
  BY PricesSound
<1>4. /\ l \in [Markets -> Nat]
      /\ \A m \in Markets : l[m] <= lowest[m] /\ l[m] <= CountedAt(m) /\ l[m] <= OrderedAt(m, r)
  BY <1>2, <1>3 DEF Smaller
<1>5. PICK i : i = IntentFor(r, liq)
  OBVIOUS
<1>6. /\ i.market = r.market /\ i.base = SizeFor(r) /\ i.kind = r.kind /\ i.mint = SettlementMint
      /\ i.entry = MarkOf(r.market)
  BY <1>5 DEF IntentFor
<1>7. k.phase = "built" /\ k.intent = i /\ k.snapshot = Snapshot
  BY <1>1, <1>5
<1>8. /\ SizeFor(r) \in Nat /\ Effective(i) \in Nat
      /\ SizeFor(r) * MarkOf(r.market) <= Base * Effective(i) + (Base - 1)
  BY <1>2, <1>5, OrderWithinJudged
<1>9. KindSound(k) /\ Coming(k) /\ SizedAt(k, l)
  <2>1. l[r.market] <= MarkOf(r.market)
    BY <1>3, <1>4 DEF OrderedAt
  <2>2. KindSound(k) /\ Coming(k) /\ ~Placed(k)
    BY <1>6, <1>7 DEF KindSound, Coming, Placed
  <2> QED BY <1>3, <1>6, <1>7, <1>8, <2>1, <2>2 DEF SizedAt
<1>10. \A x \in Orders : call'[x] = IF x = a THEN k ELSE call[x]
  BY <1>2 DEF PerpInv
<1>11. \A x \in Orders : Coming(call[x]) => SizedAt(call[x], l)
  BY <1>4, SizedBelow
<1>12. \A x \in Orders : KindSound(call'[x]) /\ (Coming(call'[x]) => SizedAt(call'[x], lowest'))
  BY <1>1, <1>9, <1>10, <1>11 DEF OvershootInv
<1>13. Weight(k) \in Nat /\ (Weighs(k) => Weight(k) <= Base * Effective(i) + (Base - 1))
  BY <1>7, <1>9, WeightSound
<1>14. Weight(call[a]) = 0
  <2>1. ~Coming(call[a])
    BY <1>2 DEF Coming
  <2> QED BY <2>1, IdleWeighs
<1>15. /\ Awaited(call) \in Int
       /\ Awaited(call') = Awaited(call) - Weight(call[a]) + Weight(k)
       /\ Awaited(call') <= OthersCap + Weight(k)
  BY <1>2, <1>13, AwaitedChanges
<1>16. PortfolioCap \in Nat /\ OthersCap \in Int /\ OwnCap \in Int /\ Base \in Nat \ {0}
  BY PerpsAssumption, CapsSound
<1>17. WorthAt(base, l) + Awaited(call') <= OwnCap + OthersCap
  <2>1. CASE Weighs(k)
    <3>1. Allowed(k)
      BY <1>7, <2>1 DEF Weighs
    <3>2. Snapshot.exposure = ExposureFrom(Positions)
      BY <1>7, <3>1 DEF Allowed, Snapshot, StaleExposure
    <3>3. PICK v : v = ExposureFrom(Positions).notional[Bucket(SettlementMint)]
      OBVIOUS
    <3>4. PICK M, W, E : M = Cardinality(Markets) /\ W = WorthAt(base, l) /\ E = Effective(i)
      OBVIOUS
    <3>5. W \in Int /\ v \in Int /\ W <= Base * v + (Base - 1) * M
      <4>1. \A m \in Markets : Shown(m) => l[m] <= cond[m].oracle
        BY <1>4 DEF CountedAt
      <4>2. \A m \in Markets : ~Shown(m) /\ base[m] # 0 => l[m] = 0
        BY <1>4 DEF CountedAt
      <4> QED BY <1>4, <3>3, <3>4, <4>1, <4>2, SnapshotCounts
    <3>6. ~(v + E > PortfolioCap)
      BY <1>7, <3>1, <3>2, <3>3, <3>4 DEF Allowed
    <3>7. M \in Nat /\ E \in Nat /\ v + E <= PortfolioCap
      BY <1>8, <1>16, <3>4, <3>5, <3>6, PerpsAssumption, FS_CardinalityType
    <3>8. Base * v + Base * E <= Base * PortfolioCap
      BY <1>16, <3>5, <3>7, Z3
    <3>9. OwnCap = Base * PortfolioCap + (Base - 1) * M + (Base - 1)
      BY <1>16, <3>4, <3>7, Z3 DEF OwnCap
    <3>10. Weight(k) <= Base * E + (Base - 1)
      BY <1>13, <2>1, <3>4
    <3>11. /\ Base * v \in Int /\ Base * E \in Int /\ Base * PortfolioCap \in Int
           /\ (Base - 1) * M \in Int
      BY <1>16, <3>5, <3>7, Z3
    <3>12. W + Weight(k) <= OwnCap
      BY <1>13, <1>16, <3>5, <3>8, <3>9, <3>10, <3>11
    <3> QED BY <1>13, <1>14, <1>15, <1>16, <3>4, <3>5, <3>12
  <2>2. CASE ~Weighs(k)
    <3>1. Weight(k) = 0
      BY <2>2 DEF Weight
    <3>2. PICK b, q : b = base /\ q = lowest
      OBVIOUS
    <3>3. /\ b \in [Markets -> Int] /\ q \in [Markets -> Nat]
          /\ \A m \in Markets : Abs(b[m]) <= Abs(b[m]) /\ l[m] <= q[m]
      BY <1>4, <3>2 DEF PerpInv, OvershootInv, Abs
    <3>4. WorthAt(b, l) \in Int /\ WorthAt(b, q) \in Int /\ WorthAt(b, l) <= WorthAt(b, q)
      BY <1>4, <3>3, WorthShrinks
    <3>5. WorthAt(b, q) + Awaited(call) <= OwnCap + OthersCap
      BY <3>2 DEF OvershootInv
    <3> QED BY <1>13, <1>14, <1>15, <1>16, <3>1, <3>2, <3>4, <3>5
  <2> QED BY <2>1, <2>2
<1>18. WorthAt(base', lowest') + Awaited(call') <= OwnCap + OthersCap
  BY <1>1, <1>2, <1>17, Zenon
<1> QED BY <1>1, <1>4, <1>12, <1>18 DEF OvershootInv

\* A proposal to reduce weighs nothing.
LEMMA ReductionBounds ==
  ASSUME PerpInv, OvershootInv, NEW a \in Orders, NEW r \in Requests, NEW liq,
         Reducing(r.kind), Build(a, r, liq)
  PROVE  OvershootInv'
<1>1. PICK k : k = [phase |-> "built", intent |-> IntentFor(r, liq), snapshot |-> Snapshot,
                    order |-> ReduceOnly(r.kind)]
  OBVIOUS
<1>2. ~Opening(r.kind)
  BY DEF Opening, Reducing
<1>3. call' = [call EXCEPT ![a] = k] /\ UNCHANGED <<base, lowest>>
  BY <1>1, <1>2 DEF Build
<1>4. k.phase = "built" /\ k.intent.kind = r.kind
  BY <1>1 DEF IntentFor
<1>5. KindSound(k) /\ ~Coming(k)
  BY <1>2, <1>4 DEF KindSound, Coming
<1> QED BY <1>3, <1>5, EndBounds

LEMMA OvershootStep == PerpInv /\ OvershootInv /\ [PerpNext]_perpVars => OvershootInv'
<1> SUFFICES ASSUME PerpInv, OvershootInv, [PerpNext]_perpVars PROVE OvershootInv'
  OBVIOUS
<1>0. ASSUME UNCHANGED <<base, lowest, call>> PROVE OvershootInv'
  <2>1. WorthAt(base', lowest') = WorthAt(base, lowest) /\ Awaited(call') = Awaited(call)
    BY <1>0, Zenon
  <2>2. WorthAt(base', lowest') + Awaited(call') <= OwnCap + OthersCap
    BY <2>1 DEF OvershootInv
  <2> QED BY <1>0, <2>2 DEF OvershootInv
<1>1. CASE UNCHANGED perpVars
  BY <1>0, <1>1 DEF perpVars
<1>2. CASE \E a \in Orders, r \in Requests : AskClose(a, r)
  BY <1>2, ReductionBounds DEF AskClose, Reducing
<1>3. CASE \E a \in Orders, r \in Requests, l \in LiqPrices \cup {Undefined} :
             AskOpen(a, r, l) \/ AskAdjust(a, r, l)
  <2>1. PICK a \in Orders, r \in Requests, l \in LiqPrices \cup {Undefined} :
          AskOpen(a, r, l) \/ AskAdjust(a, r, l)
    BY <1>3
  <2>2. Build(a, r, l) /\ Priced(r.market) /\ (Opening(r.kind) \/ Reducing(r.kind))
    BY <2>1 DEF AskOpen, AskAdjust, Opening, Reducing
  <2> QED BY <2>2, ProposalBounds, ReductionBounds
<1>4. CASE \E a \in Orders : Judge(a)
  BY <1>4, JudgeBounds
<1>5. CASE \E a \in Orders : Execute(a)
  BY <1>5, ExecuteBounds
<1>6. CASE \E a \in Orders : Drop(a) \/ OrderEnds(a)
  BY <1>6, DropBounds
<1>7. CASE \E a \in Orders : Settle(a)
  BY <1>7, SettleBounds
<1>8. CASE \E a \in Orders, whole \in BOOLEAN : FillOrder(a, whole)
  BY <1>8, FillBounds
<1>9. CASE \/ Connect \/ (\E ok \in BOOLEAN : Connected(ok)) \/ Disconnect \/ CreateAccount
           \/ (\E m \in Markets, c \in Conditions : MarketMoves(m, c))
           \/ \E s \in Switches : Operator(s)
  BY <1>0, <1>9 DEF Connect, Connected, Disconnect, CreateAccount, MarketMoves, Operator
<1>10. CASE \E m \in Markets, b \in {base[x] : x \in Markets} \cup {0 - base[x] : x \in Markets} :
              Elsewhere(m, b)
  <2>1. PICK m, b : /\ m \in Markets /\ b \in {0, 0 - base[m]} /\ base' = [base EXCEPT ![m] = b]
                    /\ UNCHANGED <<lowest, call>>
    BY <1>10 DEF Elsewhere
  <2>2. base \in [Markets -> Int]
    BY DEF PerpInv
  <2>3. base' \in [Markets -> Int] /\ \A x \in Markets : Abs(base'[x]) <= Abs(base[x])
    BY <2>1, <2>2 DEF Abs
  <2> QED BY <2>1, <2>3, ShrinkBounds
<1> QED BY <1>1, <1>2, <1>3, <1>4, <1>5, <1>6, <1>7, <1>8, <1>9, <1>10 DEF PerpNext

LEMMA OvershootStart == PerpInit => OvershootInv
<1> SUFFICES ASSUME PerpInit PROVE OvershootInv
  OBVIOUS
<1>1. PerpInv /\ base = [m \in Markets |-> 0] /\ call = [a \in Orders |-> NoCall]
  BY PerpStart DEF PerpInit
<1>2. lowest \in [Markets -> Nat]
  BY <1>1, PerpsAssumption DEF PerpInit, PerpInv
<1>3. \A a \in Orders : call[a] = NoCall /\ KindSound(NoCall) /\ ~Coming(NoCall)
  <2>1. KindSound(NoCall) /\ ~Coming(NoCall)
    BY DEF KindSound, Coming, NoCall
  <2>2. \A a \in Orders : call[a] = NoCall
    BY <1>1
  <2> QED BY <2>1, <2>2
<1>4. PICK f, e : /\ f = [m \in Markets |-> Abs(base[m]) * lowest[m]]
                  /\ e = [a \in Orders |-> Weight(call[a])]
  OBVIOUS
<1>5. IsFiniteSet(Markets) /\ IsFiniteSet(Orders)
  BY PerpsAssumption
<1>6. \A m \in Markets : f[m] \in Int /\ f[m] <= 0
  <2> SUFFICES ASSUME NEW m \in Markets PROVE Abs(0) * lowest[m] = 0
    BY <1>1, <1>4
  <2> QED BY <1>2 DEF Abs
<1>7. \A a \in Orders : e[a] \in Int /\ e[a] <= 0
  <2>1. Weight(NoCall) = 0
    BY DEF Weight, Weighs, Coming, NoCall
  <2> QED BY <1>3, <1>4, <2>1
<1>8. /\ SumFunctionOnSet(f, Markets) \in Int /\ SumFunctionOnSet(f, Markets) <= 0
      /\ SumFunctionOnSet(e, Orders) \in Int /\ SumFunctionOnSet(e, Orders) <= 0
  <2>1. SumFunctionOnSet(f, Markets) <= 0 * Cardinality(Markets)
    BY <1>5, <1>6, SumAtMost
  <2>2. SumFunctionOnSet(e, Orders) <= 0 * Cardinality(Orders)
    BY <1>5, <1>7, SumAtMost
  <2>3. 0 * Cardinality(Markets) = 0 /\ 0 * Cardinality(Orders) = 0
    BY <1>5, FS_CardinalityType
  <2> QED BY <1>5, <1>6, <1>7, <2>1, <2>2, <2>3, SumType
<1>9. WorthAt(base, lowest) = SumFunctionOnSet(f, Markets) /\ Awaited(call) = SumFunctionOnSet(e, Orders)
  BY <1>4 DEF WorthAt, Awaited
<1>10. WorthAt(base, lowest) + Awaited(call) <= OwnCap + OthersCap
  BY <1>8, <1>9, CapsSound
<1> QED BY <1>2, <1>3, <1>10 DEF OvershootInv

\* For any markets, requests, prices and caps and any number of orders outstanding at
\* once, placed at the market or at a limit, filled in parts, late, or never: although no
\* snapshot shows what has not filled, the positions, at the lowest price a proposal used,
\* exceed the portfolio cap by at most one order's cap for each other order outstanding,
\* and a fraction of a unit for every position and order.
THEOREM OvershootAlwaysBounded == PerpSpec => []OvershootBounded
<1>1. PerpSpec => [](PerpInv /\ OvershootInv)
  BY PerpStart, PerpStep, OvershootStart, OvershootStep, PTL DEF PerpSpec
<1>2. PerpInv /\ OvershootInv => OvershootBounded
  <2> SUFFICES ASSUME PerpInv, OvershootInv PROVE OvershootBounded
    OBVIOUS
  <2>1. WorthAt(base, lowest) + Awaited(call) <= OwnCap + OthersCap
    BY DEF OvershootInv
  <2>2. WorthAt(base, lowest) \in Int /\ OwnCap + OthersCap \in Int
    BY WorthType, CapsSound
  <2>3. Awaited(call) \in Nat
    <3>1. \A x \in Orders : Weight(call[x]) \in Nat
      BY WeightSound DEF OvershootInv
    <3>2. PICK f : f = [x \in Orders |-> Weight(call[x])]
      OBVIOUS
    <3>3. IsFiniteSet(Orders) /\ (\A x \in Orders : f[x] \in Nat) /\ Orders \in SUBSET Orders
      BY <3>1, <3>2, PerpsAssumption
    <3>4. SumFunctionOnSet(f, Orders) \in Nat
      BY <3>3, SumSubset
    <3> QED BY <3>2, <3>4 DEF Awaited
  <2>4. WorthAt(base, lowest) <= OwnCap + OthersCap
    BY <2>1, <2>2, <2>3
  <2>5. PICK B, P, C, M, n : /\ B = Base /\ P = PortfolioCap /\ C = NotionalCap
                             /\ M = Cardinality(Markets) /\ n = Cardinality(Orders)
    OBVIOUS
  <2>6. B \in Nat /\ P \in Nat /\ C \in Nat /\ M \in Nat /\ n \in Nat
    BY <2>5, PerpsAssumption, FS_CardinalityType
  <2>7. B * P + (B - 1) * (M + 1) + (n - 1) * (B * C + (B - 1))
          = B * (P + (n - 1) * C) + (B - 1) * (M + n)
    BY <2>6, Z3
  <2>8. OwnCap + OthersCap = Base * (PortfolioCap + (Cardinality(Orders) - 1) * NotionalCap)
                               + (Base - 1) * (Cardinality(Markets) + Cardinality(Orders))
    BY <2>5, <2>7 DEF OwnCap, OthersCap, OrderCap
  <2> QED BY <2>4, <2>8 DEF OvershootBounded, WorthAt
<1> QED BY <1>1, <1>2, PTL

-----------------------------------------------------------------------------
(* The feed.  A socket that is not closed and bears the watcher's          *)
(* generation is its current one; giving one up takes a new generation     *)
(* first, so that its late events no longer count.                         *)

FeedFields == {"started", "ws", "gen", "timer", "watchdog", "last"}
SocketFields == {"gen", "net", "subs"}

\* The watcher
WatcherSound ==
  /\ feed = [f \in FeedFields |-> feed[f]]
  /\ feed.started \in BOOLEAN /\ feed.timer \in BOOLEAN /\ feed.watchdog \in BOOLEAN
  /\ feed.gen \in Nat /\ feed.ws \in Nat
  /\ feed.timer => feed.started /\ feed.ws = NoSocket /\ ~feed.watchdog
  /\ feed.started => feed.timer \/ feed.ws # NoSocket
  /\ feed.watchdog => feed.started

\* Its sockets
SocketsSound ==
  /\ Len(sockets) \in Nat
  /\ sockets = [i \in 1..Len(sockets) |-> sockets[i]]
  /\ \A i \in 1..Len(sockets) :
       /\ sockets[i] = [f \in SocketFields |-> sockets[i][f]]
       /\ sockets[i].gen \in Nat /\ sockets[i].gen <= feed.gen
       /\ Mine(i) /\ sockets[i].net # "closed" => i = feed.ws

\* The current one
CurrentSound ==
  feed.ws # NoSocket =>
    /\ feed.ws \in 1..Len(sockets) /\ Mine(feed.ws)
    /\ sockets[feed.ws].net \in {"connecting", "open"}
    /\ sockets[feed.ws].net = "open" => feed.watchdog /\ sockets[feed.ws].subs = tokenSubs

\* The tape
TapeSound ==
  /\ ftime \in Nat
  /\ \A m \in Mints : \E C : tape[m] \in Seq(C) /\ \A t \in C : t.ts \in Nat
  /\ tape = [m \in Mints |-> tape[m]]

FeedInv ==
  /\ WatcherSound /\ SocketsSound /\ CurrentSound
  /\ pinned \subseteq tokenSubs
  /\ TapeSound

\* The parts of WatcherSound, of a watcher after a step.
LEMMA WatcherAfter ==
  ASSUME feed' = [f \in FeedFields |-> feed'[f]],
         NEW started \in BOOLEAN, NEW timer \in BOOLEAN, NEW watchdog \in BOOLEAN,
         NEW gen \in Nat, NEW ws \in Nat,
         feed'.started = started, feed'.timer = timer, feed'.watchdog = watchdog,
         feed'.gen = gen, feed'.ws = ws,
         timer => started /\ ws = NoSocket /\ ~watchdog,
         started => timer \/ ws # NoSocket,
         watchdog => started
  PROVE  WatcherSound'
BY Zenon DEF WatcherSound

\* The tape and what follows it do not change with the watcher's sockets.
LEMMA TapeKeeps ==
  ASSUME FeedInv, UNCHANGED <<tokenSubs, pinned, tape, ftime>>
  PROVE  TapeSound' /\ (pinned \subseteq tokenSubs)'
BY DEF FeedInv, TapeSound

\* The sockets with the net of one set
WithNet(w, net) == [sockets EXCEPT ![w].net = net]

\* A change of a socket's net leaves the rest of it.
LEMMA NetKeeps ==
  ASSUME SocketsSound, NEW w, NEW net, sockets' = WithNet(w, net)
  PROVE  /\ sockets' = [i \in 1..Len(sockets) |-> sockets'[i]]
         /\ \A i \in 1..Len(sockets) :
              /\ sockets'[i] = [f \in SocketFields |-> sockets'[i][f]]
              /\ sockets'[i].gen = sockets[i].gen /\ sockets'[i].subs = sockets[i].subs
              /\ sockets'[i].net = IF i = w THEN net ELSE sockets[i].net
<1>1. PICK s : s = [sockets[w] EXCEPT !.net = net]
  OBVIOUS
<1>2. sockets' = [sockets EXCEPT ![w] = s]
  BY <1>1 DEF WithNet
<1>3. sockets' = [i \in 1..Len(sockets) |-> IF i = w THEN s ELSE sockets[i]]
  BY <1>2 DEF SocketsSound
<1>4. ASSUME w \in 1..Len(sockets)
      PROVE  /\ s = [f \in SocketFields |-> s[f]] /\ s.net = net
             /\ s.gen = sockets[w].gen /\ s.subs = sockets[w].subs
  BY <1>1, <1>4 DEF SocketsSound, SocketFields
<1> QED BY <1>3, <1>4 DEF SocketsSound

LEMMA ConnectKeeps ==
  ASSUME FeedInv, NEW f, NEW created \in BOOLEAN, FeedConnect(f, created),
         f = [feed EXCEPT !.started = TRUE], feed.ws = NoSocket, ~feed.watchdog,
         UNCHANGED <<tokenSubs, pinned, tape, ftime>>
  PROVE  FeedInv'
<1>1. /\ feed' = [g \in FeedFields |-> feed'[g]]
      /\ feed'.started = TRUE /\ feed'.gen = feed.gen + 1 /\ feed'.timer = ~created
      /\ feed'.watchdog = feed.watchdog
      /\ feed'.ws = IF created THEN Len(sockets) + 1 ELSE NoSocket
  <2>1. /\ f = [g \in FeedFields |-> f[g]] /\ f.started = TRUE /\ f.gen = feed.gen
        /\ f.watchdog = feed.watchdog /\ f.ws = NoSocket
    BY DEF FeedInv, WatcherSound, FeedFields
  <2>2. PICK ws : ws = IF created THEN Len(sockets) + 1 ELSE NoSocket
    OBVIOUS
  <2>3. PICK timer : timer = ~created
    OBVIOUS
  <2>4. feed' = [f EXCEPT !.gen = feed.gen + 1, !.timer = timer, !.ws = ws]
    BY <2>1, <2>2, <2>3 DEF FeedConnect
  <2> QED BY <2>1, <2>2, <2>3, <2>4 DEF FeedFields
<1>2. feed.gen \in Nat /\ feed.watchdog = FALSE /\ Len(sockets) \in Nat
  BY DEF FeedInv, WatcherSound, SocketsSound
<1>3. WatcherSound'
  <2>1. CASE created = TRUE
    <3>0. feed'.timer = FALSE
      BY <1>1, <2>1, Zenon
    <3>1. /\ feed'.watchdog = FALSE /\ feed'.ws \in Nat
          /\ feed'.gen \in Nat /\ feed'.ws # NoSocket
      BY <1>1, <1>2, <2>1 DEF NoSocket
    <3> QED BY <1>1, <3>0, <3>1, WatcherAfter
  <2>2. CASE created = FALSE
    <3>0. feed'.timer = TRUE
      BY <1>1, <2>2, Zenon
    <3>1. /\ feed'.watchdog = FALSE /\ feed'.ws \in Nat
          /\ feed'.gen \in Nat /\ feed'.ws = NoSocket
      BY <1>1, <1>2, <2>2 DEF NoSocket
    <3> QED BY <1>1, <3>0, <3>1, WatcherAfter
  <2> QED BY <2>1, <2>2
<1>4. CASE created = FALSE
  <2>1. sockets' = sockets /\ feed'.ws = NoSocket
    BY <1>1, <1>4 DEF FeedConnect
  <2>2. \A i \in 1..Len(sockets) : sockets[i].gen < feed'.gen
    BY <1>1, <1>2 DEF FeedInv, SocketsSound
  <2>3. SocketsSound'
    BY <1>1, <1>2, <2>1, <2>2 DEF FeedInv, SocketsSound, Mine
  <2>4. CurrentSound'
    BY <2>1 DEF CurrentSound
  <2> QED BY <1>3, <2>3, <2>4, TapeKeeps DEF FeedInv
<1>5. CASE created = TRUE
  <2> DEFINE s == [gen |-> feed.gen + 1, net |-> "connecting", subs |-> {}]
             n == Len(sockets) + 1
  <2>1. sockets' = Append(sockets, s) /\ feed'.ws = n
    BY <1>1, <1>5 DEF FeedConnect
  <2>2. sockets' = [i \in 1..n |-> IF i = n THEN s ELSE sockets[i]] /\ Len(sockets') = n
    BY <2>1 DEF FeedInv, SocketsSound
  <2>3. s = [f_1 \in SocketFields |-> s[f_1]] /\ s.gen = feed.gen + 1 /\ s.net = "connecting"
    BY DEF SocketFields
  <2> HIDE DEF s
  <2>4. \A i \in 1..Len(sockets) : sockets'[i] = sockets[i] /\ sockets[i].gen < feed'.gen
    BY <1>1, <1>2, <2>2 DEF FeedInv, SocketsSound
  <2>5. sockets'[n] = s /\ n \in Nat
    BY <1>2, <2>2
  <2>6. SocketsSound'
    BY <1>1, <1>2, <2>1, <2>2, <2>3, <2>4, <2>5 DEF FeedInv, SocketsSound, Mine
  <2>7. CurrentSound'
    BY <1>1, <1>2, <2>1, <2>2, <2>3, <2>5 DEF CurrentSound, Mine, NoSocket
  <2> QED BY <1>3, <2>6, <2>7, TapeKeeps DEF FeedInv
<1> QED BY <1>4, <1>5

\* Stopping and giving up: a new generation, and the current socket is let go.
LEMMA LetGoKeeps ==
  ASSUME FeedInv, NEW on \in BOOLEAN,
         feed' = [feed EXCEPT !.started = on, !.timer = on, !.watchdog = FALSE,
                              !.ws = NoSocket, !.gen = @ + 1],
         sockets' = Closing(sockets), UNCHANGED <<tokenSubs, pinned, tape, ftime>>
  PROVE  FeedInv'
<1>1. /\ feed' = [g \in FeedFields |-> feed'[g]]
      /\ feed'.started = on /\ feed'.gen = feed.gen + 1 /\ feed'.timer = on
      /\ feed'.watchdog = FALSE /\ feed'.ws = NoSocket
  BY DEF FeedInv, WatcherSound, FeedFields
<1>2. feed.gen \in Nat /\ Len(sockets) \in Nat
  BY DEF FeedInv, WatcherSound, SocketsSound
<1>3. WatcherSound'
  BY <1>1, <1>2 DEF WatcherSound, NoSocket
<1>4. /\ sockets' = [i \in 1..Len(sockets) |-> sockets'[i]]
      /\ \A i \in 1..Len(sockets) :
           sockets'[i] = [f \in SocketFields |-> sockets'[i][f]] /\ sockets'[i].gen = sockets[i].gen
  <2>1. CASE sockets' = sockets
    BY <2>1 DEF FeedInv, SocketsSound
  <2>2. CASE sockets' = [sockets EXCEPT ![feed.ws].net = "closing"]
    <3>1. SocketsSound /\ sockets' = WithNet(feed.ws, "closing")
      BY <2>2 DEF FeedInv, WithNet
    <3> QED BY <3>1, NetKeeps
  <2> QED BY <2>1, <2>2 DEF Closing
<1>5. Len(sockets') = Len(sockets)
  BY <1>2, <1>4
<1>6. SocketsSound'
  BY <1>1, <1>2, <1>4, <1>5 DEF FeedInv, SocketsSound, Mine
<1>7. CurrentSound'
  BY <1>1 DEF CurrentSound
<1> QED BY <1>3, <1>6, <1>7, TapeKeeps DEF FeedInv

\* A socket's events leave the watcher's fields that they do not set.
LEMMA OpensKeeps ==
  ASSUME FeedInv, NEW s \in 1..Len(sockets), Opens(s) PROVE FeedInv'
<1>1. sockets[s].net = "connecting" /\ UNCHANGED <<tokenSubs, pinned, tape, ftime>>
  BY DEF Opens
<1>2. PICK subs : subs = IF Mine(s) THEN tokenSubs ELSE sockets[s].subs
  OBVIOUS
<1>3. PICK r : r = [sockets[s] EXCEPT !.net = "open", !.subs = subs]
  OBVIOUS
<1>4. sockets' = [i \in 1..Len(sockets) |-> IF i = s THEN r ELSE sockets[i]]
  <2>1. sockets' = [sockets EXCEPT ![s] = r]
    BY <1>2, <1>3 DEF Opens
  <2> QED BY <2>1 DEF FeedInv, SocketsSound
<1>5. /\ r = [f \in SocketFields |-> r[f]] /\ r.net = "open"
      /\ r.gen = sockets[s].gen /\ r.subs = subs
  BY <1>3 DEF FeedInv, SocketsSound, SocketFields
<1>6. Len(sockets') = Len(sockets) /\ Len(sockets) \in Nat
  BY <1>4 DEF FeedInv, SocketsSound
<1>7. CASE Mine(s)
  <2>1. s = feed.ws
    BY <1>1, <1>7 DEF FeedInv, SocketsSound
  <2>2. /\ feed' = [g \in FeedFields |-> feed'[g]]
        /\ feed'.started = feed.started /\ feed'.gen = feed.gen /\ feed'.timer = feed.timer
        /\ feed'.watchdog = TRUE /\ feed'.ws = feed.ws
    <3>1. feed' = [feed EXCEPT !.watchdog = TRUE, !.last = ftime]
      BY <1>7 DEF Opens
    <3> QED BY <3>1 DEF FeedInv, WatcherSound, FeedFields
  <2>3. WatcherSound'
    <3>1. /\ feed.started = TRUE /\ feed.ws # NoSocket /\ feed.timer = FALSE
          /\ feed.ws \in Nat /\ feed.gen \in Nat
      BY <1>7, <2>1 DEF FeedInv, WatcherSound, Mine, NoSocket
    <3> QED BY <2>2, <3>1, WatcherAfter
  <2>4. SocketsSound'
    BY <1>4, <1>5, <1>6, <1>7, <2>1, <2>2 DEF FeedInv, SocketsSound, Mine
  <2>5. CurrentSound'
    BY <1>1, <1>2, <1>4, <1>5, <1>6, <1>7, <2>1, <2>2 DEF CurrentSound, Mine
  <2> QED BY <1>1, <2>3, <2>4, <2>5, TapeKeeps DEF FeedInv
<1>8. CASE ~Mine(s)
  <2>1. feed' = feed
    BY <1>8 DEF Opens
  <2>2. feed.ws # NoSocket => feed.ws # s
    BY <1>8 DEF FeedInv, CurrentSound
  <2>3. WatcherSound'
    BY <2>1 DEF FeedInv, WatcherSound
  <2>4. SocketsSound'
    BY <1>4, <1>5, <1>6, <1>8, <2>1 DEF FeedInv, SocketsSound, Mine
  <2>5. CurrentSound'
    BY <1>1, <1>4, <1>6, <2>1, <2>2 DEF FeedInv, CurrentSound, Mine
  <2> QED BY <1>1, <2>3, <2>4, <2>5, TapeKeeps DEF FeedInv
<1> QED BY <1>7, <1>8

LEMMA ClosesKeeps ==
  ASSUME FeedInv, NEW s \in 1..Len(sockets), Closes(s) PROVE FeedInv'
<1>1. sockets[s].net # "closed" /\ UNCHANGED <<tokenSubs, pinned, tape, ftime>>
  BY DEF Closes
<1>2. sockets' = WithNet(s, "closed")
  BY DEF Closes, WithNet
<1>3. /\ sockets' = [i \in 1..Len(sockets) |-> sockets'[i]]
      /\ \A i \in 1..Len(sockets) :
           /\ sockets'[i] = [f \in SocketFields |-> sockets'[i][f]]
           /\ sockets'[i].gen = sockets[i].gen /\ sockets'[i].subs = sockets[i].subs
           /\ sockets'[i].net = IF i = s THEN "closed" ELSE sockets[i].net
  BY <1>2, NetKeeps DEF FeedInv
<1>4. Len(sockets') = Len(sockets) /\ Len(sockets) \in Nat
  BY <1>3 DEF FeedInv, SocketsSound
<1>5. CASE Mine(s)
  <2>1. s = feed.ws
    BY <1>1, <1>5 DEF FeedInv, SocketsSound
  <2>2. /\ feed' = [g \in FeedFields |-> feed'[g]]
        /\ feed'.started = feed.started /\ feed'.gen = feed.gen /\ feed'.timer = TRUE
        /\ feed'.watchdog = FALSE /\ feed'.ws = NoSocket
    <3>1. feed' = [feed EXCEPT !.watchdog = FALSE, !.timer = TRUE, !.ws = NoSocket]
      BY <1>5, <2>1 DEF Closes
    <3> QED BY <3>1 DEF FeedInv, WatcherSound, FeedFields
  <2>3. WatcherSound'
    <3>1. feed.started = TRUE /\ NoSocket \in Nat /\ feed.gen \in Nat
      BY <1>5 DEF FeedInv, WatcherSound, Mine, NoSocket
    <3> QED BY <2>2, <3>1, WatcherAfter
  <2>4. SocketsSound'
    BY <1>3, <1>4, <1>5, <2>1, <2>2 DEF FeedInv, SocketsSound, Mine
  <2>5. CurrentSound'
    BY <2>2 DEF CurrentSound
  <2> QED BY <1>1, <2>3, <2>4, <2>5, TapeKeeps DEF FeedInv
<1>6. CASE ~Mine(s)
  <2>1. feed' = feed
    BY <1>6 DEF Closes
  <2>2. feed.ws # NoSocket => feed.ws # s
    BY <1>6 DEF FeedInv, CurrentSound
  <2>3. WatcherSound'
    BY <2>1 DEF FeedInv, WatcherSound
  <2>4. SocketsSound'
    BY <1>3, <1>4, <1>6, <2>1 DEF FeedInv, SocketsSound, Mine
  <2>5. CurrentSound'
    BY <1>1, <1>3, <1>4, <2>1, <2>2 DEF FeedInv, CurrentSound, Mine
  <2> QED BY <1>1, <2>3, <2>4, <2>5, TapeKeeps DEF FeedInv
<1> QED BY <1>5, <1>6

\* A frame resets the watchdog's clock and nothing else of the watcher.
LEMMA LastKeeps ==
  ASSUME FeedInv, feed' = feed \/ feed' = [feed EXCEPT !.last = ftime]
  PROVE  /\ WatcherSound' /\ feed'.started = feed.started /\ feed'.gen = feed.gen
         /\ feed'.ws = feed.ws /\ feed'.watchdog = feed.watchdog
<1>1. /\ feed' = [g \in FeedFields |-> feed'[g]]
      /\ feed'.started = feed.started /\ feed'.gen = feed.gen /\ feed'.timer = feed.timer
      /\ feed'.watchdog = feed.watchdog /\ feed'.ws = feed.ws
  <2>1. CASE feed' = feed
    BY <2>1 DEF FeedInv, WatcherSound
  <2>2. CASE feed' = [feed EXCEPT !.last = ftime]
    BY <2>2 DEF FeedInv, WatcherSound, FeedFields
  <2> QED BY <2>1, <2>2
<1> QED BY <1>1 DEF FeedInv, WatcherSound

\* Told changes the subscriptions of the current socket alone.
LEMMA ToldKeeps ==
  ASSUME FeedInv, WatcherSound', NEW subs, sockets' = Told(sockets, subs), tokenSubs' = subs,
         feed'.started = feed.started, feed'.gen = feed.gen, feed'.ws = feed.ws,
         feed'.watchdog = feed.watchdog
  PROVE  SocketsSound' /\ CurrentSound'
<1>1. CASE feed.ws # NoSocket /\ sockets[feed.ws].net = "open"
  <2>1. PICK r : r = [sockets[feed.ws] EXCEPT !.subs = subs]
    OBVIOUS
  <2>2. feed.ws \in 1..Len(sockets)
    BY <1>1 DEF FeedInv, CurrentSound
  <2>3. sockets' = [i \in 1..Len(sockets) |-> IF i = feed.ws THEN r ELSE sockets[i]]
    <3>1. sockets' = [sockets EXCEPT ![feed.ws] = r]
      BY <1>1, <2>1 DEF Told
    <3> QED BY <3>1 DEF FeedInv, SocketsSound
  <2>4. /\ r = [f \in SocketFields |-> r[f]] /\ r.net = "open"
        /\ r.gen = sockets[feed.ws].gen /\ r.subs = subs
    BY <1>1, <2>1, <2>2 DEF FeedInv, SocketsSound, SocketFields
  <2>5. Len(sockets') = Len(sockets) /\ Len(sockets) \in Nat
    BY <2>3 DEF FeedInv, SocketsSound
  <2>6. SocketsSound'
    BY <2>2, <2>3, <2>4, <2>5 DEF FeedInv, SocketsSound, Mine
  <2>7. CurrentSound'
    BY <1>1, <2>2, <2>3, <2>4, <2>5 DEF FeedInv, CurrentSound, Mine
  <2> QED BY <2>6, <2>7
<1>2. CASE ~(feed.ws # NoSocket /\ sockets[feed.ws].net = "open")
  <2>1. sockets' = sockets
    BY <1>2 DEF Told
  <2>2. SocketsSound'
    BY <2>1 DEF FeedInv, SocketsSound, Mine
  <2>3. CurrentSound'
    BY <1>2, <2>1 DEF FeedInv, CurrentSound, Mine
  <2> QED BY <2>2, <2>3
<1> QED BY <1>1, <1>2

LEMMA LaunchKeeps ==
  ASSUME FeedInv, NEW s \in 1..Len(sockets), NEW m \in Mints, LaunchFrame(s, m) PROVE FeedInv'
<1> DEFINE list == Append(autoFollowed, m)
           dropped == IF Len(list) > MaxAutoFollow THEN {list[1]} \ pinned ELSE {}
           subs == (tokenSubs \cup {m}) \ dropped
<1>1. /\ feed' = [feed EXCEPT !.last = ftime] /\ UNCHANGED <<pinned, tape, ftime>>
      /\ \/ tokenSubs' = subs /\ sockets' = Told(sockets, subs)
         \/ tokenSubs' = tokenSubs /\ sockets' = sockets
  BY Zenon DEF LaunchFrame
<1>2. /\ WatcherSound' /\ feed'.started = feed.started /\ feed'.gen = feed.gen
      /\ feed'.ws = feed.ws /\ feed'.watchdog = feed.watchdog
  BY <1>1, LastKeeps
<1>3. pinned \cap dropped = {}
  OBVIOUS
<1> HIDE DEF list, dropped
<1>4. TapeSound' /\ (pinned \subseteq tokenSubs)'
  BY <1>1, <1>3 DEF FeedInv, TapeSound
<1>5. CASE tokenSubs' = subs /\ sockets' = Told(sockets, subs)
  <2> HIDE DEF subs
  <2>1. SocketsSound' /\ CurrentSound'
    BY <1>2, <1>5, ToldKeeps
  <2> QED BY <1>2, <1>4, <2>1 DEF FeedInv
<1>6. CASE tokenSubs' = tokenSubs /\ sockets' = sockets
  BY <1>2, <1>4, <1>6 DEF FeedInv, SocketsSound, CurrentSound, Mine
<1> QED BY <1>1, <1>5, <1>6

LEMMA WatchKeeps == ASSUME FeedInv, NEW m \in Mints, Watch(m) PROVE FeedInv'
<1>1. /\ feed' = feed /\ tokenSubs' = tokenSubs \cup {m} /\ pinned' = pinned \cup {m}
      /\ sockets' = Told(sockets, tokenSubs') /\ UNCHANGED <<tape, ftime>>
  BY DEF Watch
<1>2. WatcherSound'
  BY <1>1, LastKeeps
<1>3. TapeSound' /\ (pinned \subseteq tokenSubs)'
  BY <1>1 DEF FeedInv, TapeSound
<1>4. SocketsSound' /\ CurrentSound'
  BY <1>1, <1>2, ToldKeeps
<1> QED BY <1>2, <1>3, <1>4 DEF FeedInv

\* The tape of a mint after a trade: the newest, and none without a time.
LEMMA AddedSound ==
  ASSUME TapeSound, NEW t \in Trades, tape' = Added(t), UNCHANGED ftime
  PROVE  TapeSound'
<1>1. t.mint \in Mints /\ "ts" \in DOMAIN t /\ MaxPerMint \in Nat
  BY FeedAssumption
<1>2. PICK C : tape[t.mint] \in Seq(C) /\ \A x \in C : x.ts \in Nat
  BY <1>1 DEF TapeSound
<1>3. PICK e : e = [t EXCEPT !.ts = ftime]
  OBVIOUS
<1>4. e.ts = ftime /\ ftime \in Nat
  BY <1>1, <1>3 DEF TapeSound
<1>5. PICK buf : buf = Append(tape[t.mint], e)
  OBVIOUS
<1>6. buf \in Seq(C \cup {e}) /\ Len(buf) \in Nat /\ Len(buf) > 0
  BY <1>2, <1>5
<1> DEFINE from == Max({1, Len(buf) - MaxPerMint + 1})
           kept == SubSeq(buf, from, Len(buf))
<1>7. from \in {1, Len(buf) - MaxPerMint + 1} /\ from >= 1
  <2>1. \E x \in {1, Len(buf) - MaxPerMint + 1} : \A y \in {1, Len(buf) - MaxPerMint + 1} : x >= y
    BY <1>1, <1>6
  <2> QED BY <2>1 DEF Max
<1>8. tape' = [tape EXCEPT ![t.mint] = kept]
  BY <1>3, <1>5 DEF Added
<1>9. kept \in Seq(C \cup {e})
  <2> HIDE DEF from
  <2>1. from \in Nat /\ from >= 1 /\ from <= Len(buf) + 1
    BY <1>1, <1>6, <1>7
  <2> QED BY <1>6, <2>1
<1> HIDE DEF kept
<1>10. ASSUME NEW m \in Mints
       PROVE  \E D : tape'[m] \in Seq(D) /\ \A x \in D : x.ts \in Nat
  <2>1. CASE m = t.mint
    <3>1. \A x \in C \cup {e} : x.ts \in Nat
      BY <1>2, <1>4
    <3>2. tape'[m] = kept
      BY <1>8, <2>1 DEF TapeSound
    <3> QED BY <1>9, <3>1, <3>2
  <2>2. CASE m # t.mint
    <3>1. tape'[m] = tape[m]
      BY <1>8, <2>2 DEF TapeSound
    <3> QED BY <3>1 DEF TapeSound
  <2> QED BY <2>1, <2>2
<1>11. tape' = [m \in Mints |-> tape'[m]]
  BY <1>8 DEF TapeSound
<1>12. ftime' \in Nat
  BY <1>4
<1> QED BY <1>10, <1>11, <1>12 DEF TapeSound

LEMMA TradeKeeps ==
  ASSUME FeedInv, NEW s \in 1..Len(sockets), NEW t \in Trades, TradeFrame(s, t) PROVE FeedInv'
<1>1. /\ feed' = feed \/ feed' = [feed EXCEPT !.last = ftime]
      /\ tape' = Added(t) \/ tape' = tape
      /\ UNCHANGED <<sockets, tokenSubs, pinned, ftime>>
  BY Zenon DEF TradeFrame
<1>2. /\ WatcherSound' /\ feed'.started = feed.started /\ feed'.gen = feed.gen
      /\ feed'.ws = feed.ws /\ feed'.watchdog = feed.watchdog
  BY <1>1, LastKeeps
<1>3. TapeSound'
  <2>1. CASE tape' = Added(t)
    BY <1>1, <2>1, AddedSound DEF FeedInv
  <2>2. CASE tape' = tape
    BY <1>1, <2>2 DEF FeedInv, TapeSound
  <2> QED BY <1>1, <2>1, <2>2
<1> QED BY <1>1, <1>2, <1>3 DEF FeedInv, SocketsSound, CurrentSound, Mine

LEMMA FeedStep == FeedInv /\ [FeedNext]_feedVars => FeedInv'
<1> SUFFICES ASSUME FeedInv, [FeedNext]_feedVars PROVE FeedInv'
  OBVIOUS
<1>1. CASE UNCHANGED feedVars
  BY <1>1 DEF FeedInv, WatcherSound, SocketsSound, CurrentSound, TapeSound, Mine, feedVars
<1>2. ASSUME NEW created \in BOOLEAN, FeedStart(created) PROVE FeedInv'
  <2>1. feed.ws = NoSocket /\ ~feed.watchdog
    BY <1>2 DEF FeedStart, FeedInv, WatcherSound, CurrentSound, Mine
  <2> QED BY <1>2, <2>1, ConnectKeeps DEF FeedStart
<1>3. ASSUME NEW created \in BOOLEAN, Reconnect(created) PROVE FeedInv'
  <2>1. feed.ws = NoSocket /\ ~feed.watchdog /\ feed.started = TRUE
    BY <1>3 DEF Reconnect, FeedInv, WatcherSound
  <2>2. feed = [feed EXCEPT !.started = TRUE]
    BY <2>1 DEF FeedInv, WatcherSound, FeedFields
  <2> QED BY <1>3, <2>1, <2>2, ConnectKeeps DEF Reconnect
<1>4. CASE FeedStop
  BY <1>4, LetGoKeeps DEF FeedStop
<1>5. CASE WatchdogFires
  <2>1. feed.started = TRUE
    BY <1>5 DEF WatchdogFires, FeedInv, WatcherSound
  <2>2. feed' = [feed EXCEPT !.started = TRUE, !.timer = TRUE, !.watchdog = FALSE,
                             !.ws = NoSocket, !.gen = @ + 1]
    BY <1>5, <2>1 DEF WatchdogFires, GiveUp, FeedInv, WatcherSound, FeedFields
  <2> QED BY <1>5, <2>2, LetGoKeeps DEF WatchdogFires, GiveUp
<1>6. CASE FeedTick
  BY <1>6 DEF FeedTick, FeedInv, WatcherSound, SocketsSound, CurrentSound, TapeSound, Mine
<1>7. DOMAIN sockets = 1..Len(sockets)
  BY DEF FeedInv, SocketsSound
<1>8. CASE \E s \in DOMAIN sockets : Opens(s)
  BY <1>7, <1>8, OpensKeeps
<1>9. CASE \E s \in DOMAIN sockets : Closes(s)
  BY <1>7, <1>9, ClosesKeeps
<1>10. CASE \E s \in DOMAIN sockets : OtherFrame(s)
  <2>1. /\ feed' = [feed EXCEPT !.last = ftime]
        /\ UNCHANGED <<sockets, tokenSubs, pinned, tape, ftime>>
    BY <1>10 DEF OtherFrame
  <2>2. /\ WatcherSound' /\ feed'.started = feed.started /\ feed'.gen = feed.gen
        /\ feed'.ws = feed.ws /\ feed'.watchdog = feed.watchdog
    BY <2>1, LastKeeps
  <2> QED BY <2>1, <2>2, TapeKeeps DEF FeedInv, SocketsSound, CurrentSound, Mine
<1>11. CASE \E s \in DOMAIN sockets, t \in Trades : TradeFrame(s, t)
  BY <1>7, <1>11, TradeKeeps
<1>12. CASE \E s \in DOMAIN sockets, m \in Mints : LaunchFrame(s, m)
  BY <1>7, <1>12, LaunchKeeps
<1>13. CASE \E m \in Mints : Watch(m)
  BY <1>13, WatchKeeps
<1> QED BY <1>1, <1>2, <1>3, <1>4, <1>5, <1>6, <1>8, <1>9, <1>10, <1>11, <1>12, <1>13 DEF FeedNext

LEMMA FeedBegins == FeedInit => FeedInv
<1> SUFFICES ASSUME FeedInit PROVE FeedInv
  OBVIOUS
<1>1. WatcherSound
  BY DEF FeedInit, WatcherSound, FeedFields, NoSocket
<1>2. SocketsSound /\ CurrentSound /\ pinned \subseteq tokenSubs
  BY DEF FeedInit, SocketsSound, CurrentSound, NoSocket
<1>3. TapeSound
  <2>1. <<>> \in Seq({})
    OBVIOUS
  <2> QED BY <2>1 DEF FeedInit, TapeSound
<1> QED BY <1>1, <1>2, <1>3 DEF FeedInv

\* A reading below 60 rests on a trade within the window.
LEMMA ColdIsRecent ==
  ASSUME TapeSound, NEW m \in Mints, RugHeat(m) < 60
  PROVE  \E n \in DOMAIN tape[m] : tape[m][n].ts >= ftime - HeatWindow
<1>1. PICK C : tape[m] \in Seq(C) /\ \A x \in C : x.ts \in Nat
  BY DEF TapeSound
<1>2. Recent(m) # <<>>
  <2>1. PICK rest : RugHeat(m) = IF Recent(m) = <<>> THEN 60 ELSE rest
    BY DEF RugHeat
  <2> QED BY <2>1
<1>3. PICK S : S = Older(m)
  OBVIOUS
<1>4. Recent(m) = Without(tape[m], S)
  BY <1>3 DEF Recent
<1>5. Without(tape[m], S) \in Seq(C) /\ \A k \in 1..Len(Without(tape[m], S)) :
        \E i \in 1..Len(tape[m]) : Without(tape[m], S)[k] = tape[m][i] /\ tape[m][i] \notin S
  BY <1>1, WithoutKeeps
<1>6. 1 \in 1..Len(Without(tape[m], S))
  BY <1>2, <1>4, <1>5
<1>7. PICK i \in 1..Len(tape[m]) : tape[m][i] \notin S
  BY <1>5, <1>6
<1>8. i \in DOMAIN tape[m] /\ tape[m][i].ts \in Nat /\ tape[m][i] \in Range(tape[m])
  BY <1>1, <1>7 DEF Range
<1>9. ~(tape[m][i].ts < ftime - HeatWindow)
  BY <1>3, <1>7, <1>8 DEF Older
<1>10. ftime - HeatWindow \in Int
  BY FeedAssumption DEF TapeSound
<1> QED BY <1>8, <1>9, <1>10

\* For any mints, trades, limits and number of reconnects, the feed fails safe.
THEOREM FeedAlwaysFailsSafe == FeedSpec => []FeedFailsSafe
<1>1. FeedSpec => []FeedInv
  BY FeedBegins, FeedStep, PTL DEF FeedSpec
<1>2. FeedInv => FeedFailsSafe
  <2> SUFFICES ASSUME FeedInv PROVE FeedFailsSafe
    OBVIOUS
  <2>1. feed.started =>
          \/ feed.timer
          \/ /\ feed.ws # NoSocket /\ Mine(feed.ws)
             /\ sockets[feed.ws].net = "connecting" \/ feed.watchdog
    BY DEF FeedInv, WatcherSound, CurrentSound
  <2>2. feed.ws # NoSocket /\ sockets[feed.ws].net = "open" => sockets[feed.ws].subs = tokenSubs
    BY DEF FeedInv, CurrentSound
  <2>3. \A m \in Mints : RugHeat(m) < 60 =>
          \E n \in DOMAIN tape[m] : tape[m][n].ts >= ftime - HeatWindow
    BY ColdIsRecent DEF FeedInv
  <2> QED BY <2>1, <2>2, <2>3 DEF FeedInv, FeedFailsSafe
<1> QED BY <1>1, <1>2, PTL

-----------------------------------------------------------------------------
(* Liquidity.  What the floors leave, times the sum of the weights, is the *)
(* sum of the remainders, each below the sum of the weights: it is less    *)
(* than the number of bins, and as the ranks of the remainders are the     *)
(* numbers from 0, exactly that many bins get one unit more.               *)

\* There are m numbers below m.
LEMMA Upto ==
  ASSUME NEW m \in Nat PROVE IsFiniteSet(0..(m - 1)) /\ Cardinality(0..(m - 1)) = m
<1>1. PICK b \in Int : b = m - 1
  OBVIOUS
<1>2. IsFiniteSet(0..b) /\ Cardinality(0..b) = IF 0 > b THEN 0 ELSE b - 0 + 1
  BY FS_Interval
<1> QED BY <1>1, <1>2

\* Of n remainders, k rank below k.
LEMMA RanksCount ==
  ASSUME NEW n \in Nat, NEW rem, rem = [i \in 1..n |-> rem[i]], \A i \in 1..n : rem[i] \in Int,
         NEW k \in 0..n
  PROVE  Cardinality({i \in 1..n : Rank(rem, i) < k}) = k
<1> DEFINE D == 1..n
           Before(i) == {j \in D : rem[j] > rem[i] \/ (rem[j] = rem[i] /\ j < i)}
           rank == [i \in D |-> Rank(rem, i)]
           T == {i \in D : Rank(rem, i) < k}
<1>1. IsFiniteSet(D) /\ Cardinality(D) = n /\ DOMAIN rem = D
  BY FS_Interval
<1>2. \A i \in D : Rank(rem, i) = Cardinality(Before(i))
  BY <1>1 DEF Rank
<1>3. ASSUME NEW i \in D, NEW V \in SUBSET D, i \in V, Before(i) \subseteq V \ {i}
      PROVE  Cardinality(Before(i)) \in Nat /\ Cardinality(Before(i)) <= Cardinality(V) - 1
  <2>1. IsFiniteSet(V) /\ IsFiniteSet(V \ {i}) /\ Cardinality(V \ {i}) = Cardinality(V) - 1
    BY <1>1, <1>3, Subsets
  <2> HIDE DEF Before
  <2> QED BY <1>3, <2>1, FS_Subset, FS_CardinalityType
<1>4. \A i \in D : Rank(rem, i) \in 0..(n - 1)
  <2> SUFFICES ASSUME NEW i \in D PROVE Rank(rem, i) \in 0..(n - 1)
    OBVIOUS
  <2>1. Before(i) \subseteq D \ {i} /\ D \in SUBSET D
    OBVIOUS
  <2> HIDE DEF D, Before
  <2>2. Cardinality(Before(i)) \in Nat /\ Cardinality(Before(i)) <= Cardinality(D) - 1
    BY <1>3, <2>1
  <2> QED BY <1>1, <1>2, <2>2
<1>5. ASSUME NEW i \in D, NEW j \in D, i \in Before(j) PROVE Rank(rem, i) # Rank(rem, j)
  <2>1. Before(i) \subseteq Before(j) \ {i} /\ Before(j) \in SUBSET D
    BY <1>5
  <2>2. Cardinality(Before(i)) \in Nat /\ Cardinality(Before(i)) <= Cardinality(Before(j)) - 1
    <3> HIDE DEF D, Before
    <3> QED BY <1>3, <1>5, <2>1
  <2>3. Cardinality(Before(j)) \in Nat
    <3> HIDE DEF D, Before
    <3> QED BY <1>1, <2>1, FS_Subset, FS_CardinalityType
  <2> HIDE DEF D, Before
  <2> QED BY <1>2, <2>2, <2>3
<1>6. \A i, j \in D : i # j => i \in Before(j) \/ j \in Before(i)
  OBVIOUS
<1>7. rank \in Injection(D, 0..(n - 1))
  <2>1. \A i, j \in D : i # j => Rank(rem, i) # Rank(rem, j)
    <3> HIDE DEF D, Before
    <3> QED BY <1>5, <1>6
  <2>2. rank \in [D -> 0..(n - 1)]
    BY <1>4
  <2> HIDE DEF D
  <2> QED BY <2>1, <2>2 DEF Injection, IsInjective
<1>8. IsFiniteSet(0..(n - 1)) /\ Cardinality(0..(n - 1)) = n
  BY Upto
<1>9. rank \in Surjection(D, 0..(n - 1))
  <2> HIDE DEF D, rank
  <2> QED BY <1>1, <1>7, <1>8, FS_Injection
<1>10. [i \in T |-> Rank(rem, i)] \in Bijection(T, 0..(k - 1))
  <2> DEFINE low == [i \in T |-> Rank(rem, i)]
  <2>1. \A i \in T : i \in D /\ Rank(rem, i) \in 0..(k - 1)
    BY <1>4
  <2>2. low \in [T -> 0..(k - 1)]
    BY <2>1
  <2>3. \A i, j \in D : i # j => Rank(rem, i) # Rank(rem, j)
    <3> HIDE DEF D, Before
    <3> QED BY <1>5, <1>6
  <2>4. \A i, j \in T : low[i] = low[j] => i = j
    BY <2>1, <2>3
  <2>5. ASSUME NEW v \in 0..(k - 1) PROVE \E i \in T : low[i] = v
    <3>1. v \in 0..(n - 1)
      OBVIOUS
    <3>2. PICK i \in D : rank[i] = v
      <4> HIDE DEF D, rank
      <4> QED BY <1>9, <3>1 DEF Surjection
    <3>3. i \in T /\ Rank(rem, i) = v
      BY <3>2
    <3> QED BY <3>3
  <2> HIDE DEF T
  <2> QED BY <2>2, <2>4, <2>5 DEF Bijection, Injection, Surjection, IsInjective
<1>11. IsFiniteSet(T) /\ Cardinality(0..(k - 1)) = k
  <2>1. T \in SUBSET D
    OBVIOUS
  <2> HIDE DEF T, D
  <2> QED BY <1>1, <2>1, FS_Subset, Upto
<1>12. Cardinality(0..(k - 1)) = Cardinality(T)
  <2> HIDE DEF T
  <2>1. ExistsBijection(T, 0..(k - 1))
    BY <1>10 DEF ExistsBijection
  <2> QED BY <1>11, <2>1, FS_Bijection
<1> QED BY <1>11, <1>12

\* An amount is part of the sum.
LEMMA SumHas ==
  ASSUME NEW S, IsFiniteSet(S), NEW f, \A x \in S : f[x] \in Nat, NEW x \in S
  PROVE  SumFunctionOnSet(f, S) \in Nat /\ f[x] <= SumFunctionOnSet(f, S)
<1>1. S \in SUBSET S /\ S \ {x} \in SUBSET S /\ \A y \in S : f[y] \in Int
  OBVIOUS
<1>2. SumFunctionOnSet(f, S \ {x}) \in Nat /\ SumFunctionOnSet(f, S) \in Nat
  BY <1>1, SumSubset
<1>3. SumFunctionOnSet(f, S) = f[x] + SumFunctionOnSet(f, S \ {x})
  BY <1>1, SumSteps
<1> QED BY <1>2, <1>3

\* Positive weights, no more than the scale has units, do not all round to zero.
LEMMA ScaledSound ==
  ASSUME NEW n \in Nat \ {0}, n <= WeightScale, NEW w \in [1..n -> Nat \ {0}]
  PROVE  Scaled(w) \in [1..n -> Nat] /\ Sum(Scaled(w)) \in Nat \ {0}
<1> DEFINE D == 1..n
<1>1. IsFiniteSet(D) /\ Cardinality(D) = n /\ 1 \in D /\ DOMAIN w = D /\ WeightScale \in Nat
  BY FS_Interval, LpAssumption
<1>2. PICK sum : sum = SumFunctionOnSet(w, D)
  OBVIOUS
<1>3. sum \in Nat \ {0}
  <2>1. \A x \in D : w[x] \in Nat
    OBVIOUS
  <2>2. sum \in Nat /\ w[1] <= sum
    <3> HIDE DEF D
    <3> QED BY <1>1, <1>2, <2>1, SumHas
  <2>3. w[1] \in Nat \ {0}
    BY <1>1
  <2> QED BY <2>2, <2>3
<1> DEFINE a(i) == w[i] * WeightScale + sum \div 2
           s == Scaled(w)
<1>4. s = [i \in D |-> a(i) \div sum]
  BY <1>1, <1>2 DEF Scaled, Sum
<1>5. \A i \in D : w[i] * WeightScale \in Nat /\ a(i) \in Nat
  <2>1. sum \div 2 \in Nat
    BY <1>3
  <2>2. \A i \in D : w[i] * WeightScale \in Nat
    BY <1>1, ProductType
  <2> QED BY <2>1, <2>2
<1> HIDE DEF a, s
<1>6. \A i \in D : s[i] \in Nat
  BY <1>3, <1>4, <1>5, QuotientType
<1>7. \E i \in D : s[i] # 0
  <2> SUFFICES ASSUME \A i \in D : s[i] = 0 PROVE FALSE
    OBVIOUS
  <2> DEFINE f == [i \in D |-> WeightScale * w[i]]
  <2>1. ASSUME NEW i \in D PROVE f[i] \in Int /\ f[i] <= sum - 1
    <3>1. a(i) \div sum <= 0 /\ a(i) \in Nat
      BY <1>4, <1>5
    <3>2. a(i) < (0 + 1) * sum
      BY <1>3, <3>1, QuotientBelow
    <3>3. f[i] = w[i] * WeightScale
      BY <1>1
    <3>4. PICK half : half = sum \div 2 /\ half \in Nat
      BY <1>3
    <3>5. w[i] * WeightScale \in Nat /\ a(i) = w[i] * WeightScale + half
      BY <1>5, <3>4 DEF a
    <3> HIDE DEF f
    <3> QED BY <1>3, <3>2, <3>3, <3>4, <3>5
  <2>2. \A i \in D : w[i] \in Int /\ f[i] = WeightScale * w[i] + 0 * w[i]
    BY <1>1
  <2> HIDE DEF f
  <2>3. SumFunctionOnSet(f, D) = WeightScale * sum + 0 * sum
    <3> HIDE DEF D
    <3>1. PICK c \in Int, d \in Int : c = WeightScale /\ d = 0
      BY <1>1
    <3>2. PICK e, h, S : e = w /\ h = f /\ S = D
      OBVIOUS
    <3>3. IsFiniteSet(S) /\ \A x \in S : e[x] \in Int /\ e[x] \in Int /\ h[x] = c * e[x] + d * e[x]
      BY <1>1, <2>2, <3>1, <3>2, Zenon
    <3>4. SumFunctionOnSet(h, S) = c * SumFunctionOnSet(e, S) + d * SumFunctionOnSet(e, S)
      BY <3>3, SumLinear
    <3> QED BY <1>2, <3>1, <3>2, <3>4
  <2>4. SumFunctionOnSet(f, D) <= (sum - 1) * n
    <3> HIDE DEF D
    <3>1. PICK m \in Int : m = sum - 1
      BY <1>3
    <3>2. \A i \in D : f[i] \in Int /\ f[i] <= m
      BY <2>1, <3>1
    <3>3. SumFunctionOnSet(f, D) <= m * Cardinality(D)
      BY <1>1, <3>2, SumAtMost
    <3> QED BY <1>1, <3>1, <3>3
  <2>5. (sum - 1) * n <= (sum - 1) * WeightScale
    <3>1. n * (sum - 1) <= WeightScale * (sum - 1)
      BY <1>1, <1>3, ProductGrows
    <3> QED BY <1>1, <1>3, <3>1
  <2>6. WeightScale * sum = (sum - 1) * WeightScale + WeightScale /\ (sum - 1) * WeightScale \in Int
    BY <1>1, <1>3, Z3
  <2>7. (sum - 1) * n \in Int
    BY <1>3, Distributes
  <2>8. SumFunctionOnSet(f, D) = WeightScale * sum
    BY <1>1, <1>3, <2>3, <2>6
  <2> QED BY <1>1, <2>4, <2>5, <2>6, <2>7, <2>8
<1>8. Sum(s) \in Nat \ {0}
  <2>1. PICK i \in D : s[i] # 0
    BY <1>7
  <2>2. Sum(s) = SumFunctionOnSet(s, D)
    BY <1>4 DEF Sum
  <2>3. SumFunctionOnSet(s, D) \in Nat /\ s[i] <= SumFunctionOnSet(s, D)
    <3> HIDE DEF D
    <3> QED BY <1>1, <1>6, <2>1, SumHas
  <2>4. s[i] \in Nat
    BY <1>6, <2>1
  <2> QED BY <2>1, <2>2, <2>3, <2>4
<1>9. s \in [1..n -> Nat]
  BY <1>4, <1>6
<1> QED BY <1>8, <1>9 DEF s

\* distributeAmount loses and invents nothing.
LEMMA DistributeExact ==
  ASSUME NEW n \in Nat \ {0}, n <= WeightScale, NEW w \in [1..n -> Nat \ {0}], NEW total \in Nat
  PROVE  Sum(distributeAmount(total, w)) = total
<1> DEFINE D == 1..n
<1>1. IsFiniteSet(D) /\ Cardinality(D) = n /\ DOMAIN w = D
  BY FS_Interval
<1>2. PICK scaled : scaled = Scaled(w)
  OBVIOUS
<1>3. PICK all : all = Sum(scaled)
  OBVIOUS
<1>4. scaled = [i \in D |-> scaled[i]] /\ (\A i \in D : scaled[i] \in Nat) /\ all \in Nat \ {0}
  BY <1>2, <1>3, ScaledSound
<1>5. PICK share, rem : share = Floored(total, scaled, all) /\ rem = Remainders(total, scaled, all)
  OBVIOUS
<1>6. /\ share = [i \in D |-> (total * scaled[i]) \div all]
      /\ rem = [i \in D |-> (total * scaled[i]) % all]
  BY <1>4, <1>5 DEF Floored, Remainders
<1>7. \A i \in D :
        /\ share[i] \in Nat /\ rem[i] \in 0..(all - 1)
        /\ total * scaled[i] = share[i] * all + rem[i] /\ total * scaled[i] \in Nat
  <2> SUFFICES ASSUME NEW i \in D
               PROVE  /\ share[i] \in Nat /\ rem[i] \in 0..(all - 1)
                      /\ total * scaled[i] = share[i] * all + rem[i] /\ total * scaled[i] \in Nat
    OBVIOUS
  <2>1. scaled[i] \in Nat
    BY <1>4
  <2>2. PICK a \in Nat : a = total * scaled[i]
    BY <2>1, ProductType
  <2>3. share[i] = a \div all /\ rem[i] = a % all
    BY <1>6, <2>2
  <2>4. a = (a \div all) * all + (a % all) /\ a % all \in 0..(all - 1) /\ a \div all \in Nat
    BY <1>4, DivMod
  <2> QED BY <2>2, <2>3, <2>4
<1>8. PICK given : given = SumFunctionOnSet(share, D)
  OBVIOUS
<1>9. PICK over : over = SumFunctionOnSet(rem, D)
  OBVIOUS
<1>10. given \in Nat
  <2>1. \A i \in D : share[i] \in Nat
    BY <1>7
  <2>2. 1 \in D
    OBVIOUS
  <2> HIDE DEF D
  <2> QED BY <1>1, <1>8, <2>1, <2>2, SumHas
<1>11. over \in Nat /\ over <= (all - 1) * n
  <2>1. \A i \in D : rem[i] \in Nat /\ rem[i] \in Int /\ rem[i] <= all - 1
    BY <1>4, <1>7
  <2>2. 1 \in D
    OBVIOUS
  <2> HIDE DEF D
  <2>3. over \in Nat
    BY <1>1, <1>9, <2>1, <2>2, SumHas
  <2>4. PICK m \in Int : m = all - 1
    BY <1>4
  <2>5. over <= m * Cardinality(D)
    BY <1>1, <1>9, <2>1, <2>4, SumAtMost
  <2> QED BY <1>1, <2>3, <2>4, <2>5
<1>12. over = total * all + (0 - all) * given
  <2>1. PICK c \in Int, d \in Int : c = total /\ d = 0 - all
    BY <1>4
  <2>2. ASSUME NEW i \in D PROVE rem[i] = c * scaled[i] + d * share[i]
    <3>1. PICK s \in Nat, q \in Nat, r \in Nat : s = scaled[i] /\ q = share[i] /\ r = rem[i]
      BY <1>4, <1>7
    <3>2. total * s = q * all + r
      BY <1>7, <3>1
    <3>3. r = total * s + (0 - all) * q
      BY <1>4, <3>2, Z3
    <3> QED BY <2>1, <3>1, <3>3
  <2>3. \A i \in D : scaled[i] \in Int /\ share[i] \in Int /\ rem[i] = c * scaled[i] + d * share[i]
    BY <1>4, <1>7, <2>2
  <2>4. PICK S : S = D
    OBVIOUS
  <2>5. IsFiniteSet(S) /\ \A i \in S : scaled[i] \in Int /\ share[i] \in Int
                                       /\ rem[i] = c * scaled[i] + d * share[i]
    BY <1>1, <2>3, <2>4, Zenon
  <2>6. SumFunctionOnSet(rem, S) = c * SumFunctionOnSet(scaled, S) + d * SumFunctionOnSet(share, S)
    BY <2>5, SumLinear
  <2>7. SumFunctionOnSet(scaled, D) = all
    BY <1>3, <1>4 DEF Sum
  <2> QED BY <1>8, <1>9, <2>1, <2>4, <2>6, <2>7
<1>13. PICK left \in Int : left = total - given
  BY <1>10
<1>14. over = left * all
  BY <1>4, <1>10, <1>12, <1>13, Z3
<1>15. left \in 0..n
  <2>1. left >= 0
    <3> SUFFICES ASSUME left <= 0 - 1 PROVE FALSE
      BY <1>13
    <3>1. left * all <= (0 - 1) * all
      BY <1>4, <1>13, Z3
    <3> QED BY <1>4, <1>11, <1>14, <3>1
  <2>2. left <= n
    <3> SUFFICES ASSUME left >= n + 1 PROVE FALSE
      BY <1>13
    <3>1. (n + 1) * all <= left * all
      <4>1. PICK a \in Nat, b \in Nat, c \in Nat : a = n + 1 /\ b = left /\ c = all
        BY <1>4, <2>1
      <4>2. a * c <= b * c
        BY <4>1, ProductGrows
      <4> QED BY <4>1, <4>2
    <3>2. (n + 1) * all = (all - 1) * n + n + all /\ (all - 1) * n \in Int
      <4>1. PICK m \in Int : m = all - 1
        BY <1>4
      <4>2. (n + 1) * (m + 1) = m * n + n + (m + 1) /\ m * n \in Int
        BY <4>1, Z3
      <4> QED BY <1>4, <4>1, <4>2
    <3> QED BY <1>4, <1>11, <1>14, <3>1, <3>2
  <2> QED BY <1>13, <2>1, <2>2
<1> DEFINE T == {i \in D : Rank(rem, i) < left}
           more == [i \in D |-> IF i \in T THEN 1 ELSE 0]
<1>16. Cardinality(T) = left
  <2>1. rem = [i \in 1..n |-> rem[i]]
    BY <1>6
  <2>2. \A i \in 1..n : rem[i] \in Int
    BY <1>4, <1>7
  <2>3. n \in Nat
    OBVIOUS
  <2> QED BY <1>15, <2>1, <2>2, <2>3, RanksCount
<1>17. SumFunctionOnSet(more, D) = left
  <2>1. T \in SUBSET D /\ \A i \in D : more[i] = IF i \in T THEN 1 ELSE 0
    OBVIOUS
  <2> HIDE DEF T, more, D
  <2> QED BY <1>1, <1>16, <2>1, SumCounts
<1>18. PICK shares : shares = distributeAmount(total, w)
  OBVIOUS
<1>19. shares = [i \in D |-> share[i] + IF Rank(rem, i) < left THEN 1 ELSE 0]
  <2>1. Sum(share) = given
    BY <1>6, <1>8 DEF Sum
  <2>2. distributeAmount(total, w)
          = [i \in DOMAIN w |-> share[i] + IF Rank(rem, i) < total - Sum(share) THEN 1 ELSE 0]
    BY <1>2, <1>3, <1>5 DEF distributeAmount
  <2> QED BY <1>1, <1>13, <1>18, <2>1, <2>2
<1>20. \A i \in D : share[i] \in Int /\ more[i] \in Int /\ shares[i] = 1 * share[i] + 1 * more[i]
  <2>1. \A i \in D : shares[i] = share[i] + more[i]
    BY <1>19
  <2>2. \A i \in D : share[i] \in Int /\ more[i] \in Int
    BY <1>7
  <2> HIDE DEF more
  <2> QED BY <2>1, <2>2
<1>21. SumFunctionOnSet(shares, D) = 1 * given + 1 * left
  <2>1. PICK one \in Int : one = 1
    OBVIOUS
  <2>4. PICK S, e : S = D /\ e = more
    OBVIOUS
  <2> HIDE DEF more, D, T
  <2>2. /\ IsFiniteSet(S)
        /\ \A i \in S : share[i] \in Int /\ e[i] \in Int /\ shares[i] = one * share[i] + one * e[i]
    BY <1>1, <1>20, <2>1, <2>4, Zenon
  <2>3. SumFunctionOnSet(shares, S) = one * SumFunctionOnSet(share, S) + one * SumFunctionOnSet(e, S)
    BY <2>2, SumLinear
  <2> QED BY <1>8, <1>17, <2>1, <2>3, <2>4
<1>22. Sum(shares) = SumFunctionOnSet(shares, D)
  BY <1>19 DEF Sum
<1> QED BY <1>10, <1>13, <1>18, <1>21, <1>22

\* The greatest of two and of three numbers.
LEMMA MaxOfTwo ==
  ASSUME NEW a \in Int, NEW b \in Int
  PROVE  Max({a, b}) \in {a, b} /\ Max({a, b}) >= a /\ Max({a, b}) >= b
<1>1. \E x \in {a, b} : \A y \in {a, b} : x >= y
  OBVIOUS
<1> QED BY <1>1 DEF Max

LEMMA MaxOfThree ==
  ASSUME NEW a \in Int, NEW b \in Int, NEW c \in Int
  PROVE  /\ Max({a, b, c}) \in {a, b, c} /\ Max({a, b, c}) >= a
         /\ Max({a, b, c}) >= b /\ Max({a, b, c}) >= c
<1>1. \E x \in {a, b, c} : \A y \in {a, b, c} : x >= y
  OBVIOUS
<1> QED BY <1>1 DEF Max

\* Every bin of a range weighs something, whatever the shape.
LEMMA WeightsSound ==
  ASSUME NEW shape \in {"spot", "curve", "bid-ask"}, NEW bin \in Int, NEW range,
         range.lower \in Int, range.upper \in Int, range.lower <= range.upper,
         binSpan(range) <= MaxLevels
  PROVE  /\ binSpan(range) \in Nat \ {0}
         /\ shapeWeights(shape, range, bin) \in [1..binSpan(range) -> Nat \ {0}]
<1>1. PICK l \in Int, u \in Int : l = range.lower /\ u = range.upper
  OBVIOUS
<1>2. PICK n : n = binSpan(range)
  OBVIOUS
<1>3. n = u - l + 1 /\ n \in Nat \ {0} /\ n <= MaxLevels /\ MaxLevels \in Nat
  BY <1>1, <1>2, LpAssumption DEF binSpan
<1>4. PICK from : from = Max({bin, l})
  OBVIOUS
<1>5. PICK centre : centre = LeastOf(from, u)
  OBVIOUS
<1>6. centre \in Int /\ l <= centre /\ centre <= u
  <2>1. from \in Int /\ from >= l
    BY <1>4, MaxOfTwo
  <2>2. l <= u
    BY <1>1
  <2> QED BY <1>5, <2>1, <2>2 DEF LeastOf
<1>7. PICK reach : reach = Max({centre - l, u - centre, 1})
  OBVIOUS
<1>8. reach \in Nat \ {0}
  <2>1. PICK a \in Int, b \in Int, one \in Int : a = centre - l /\ b = u - centre /\ one = 1
    BY <1>6
  <2>2. Max({a, b, one}) \in {a, b, one} /\ Max({a, b, one}) >= one
    BY MaxOfThree
  <2> QED BY <1>7, <2>1, <2>2
<1> DEFINE far(i) == Distance(l + i - 1, centre)
           weight(i) == CASE shape = "spot" -> 1
                          [] shape = "curve" -> Bell[far(i)]
                          [] shape = "bid-ask" -> 20 * far(i) + reach
<1>9. shapeWeights(shape, range, bin) = [i \in 1..n |-> weight(i)]
  BY <1>1, <1>2, <1>4, <1>5, <1>7 DEF shapeWeights
<1>10. ASSUME NEW i \in 1..n PROVE weight(i) \in Nat \ {0}
  <2>1. far(i) \in 0..MaxLevels
    BY <1>3, <1>6 DEF Distance
  <2>2. PICK d : d = far(i)
    OBVIOUS
  <2>3. Bell[d] \in Nat \ {0} /\ d \in Nat
    BY <2>1, <2>2, LpAssumption
  <2>4. 20 * d + reach \in Nat \ {0}
    BY <1>8, <2>3
  <2>5. weight(i) \in {1, Bell[d], 20 * d + reach}
    BY <2>2
  <2> HIDE DEF weight
  <2> QED BY <2>3, <2>4, <2>5
<1> HIDE DEF weight
<1> QED BY <1>2, <1>3, <1>9, <1>10

\* What a position covers and holds
PositionFields == {"open", "lower", "upper", "quote", "base"}
PositionSound(p) ==
  /\ p = [f \in PositionFields |-> p[f]]
  /\ p.lower = Range0.lower /\ p.upper = Range0.upper
  /\ p.quote \in Nat /\ p.base \in Nat

\* What a tool call carries
ToolSound(k) ==
  /\ k.phase \in {"idle", "pool", "intent"}
  /\ k.phase = "pool" => k.ask \in LpRequests
  /\ k.phase = "intent" =>
       IF k.kind = "lp_add" THEN k.input.amount \in Nat /\ k.base \in Nat
                            ELSE k.bps \in 1..Bps

LpInv ==
  /\ active \in Int /\ now \in Nat
  /\ position = [a \in Accounts |-> position[a]]
  /\ \A a \in Accounts : PositionSound(position[a])
  /\ lpCall = [c \in Callers |-> lpCall[c]]
  /\ \A c \in Callers : ToolSound(lpCall[c])

\* A call of one caller leaves the others'.
LEMMA CallerKeeps ==
  ASSUME LpInv, NEW c \in Callers, NEW k, ToolSound(k), Finish(c, k)
  PROVE  lpCall' = [x \in Callers |-> lpCall'[x]] /\ \A x \in Callers : ToolSound(lpCall'[x])
<1>1. lpCall' = [lpCall EXCEPT ![c] = k]
  BY DEF Finish
<1>2. \A x \in Callers : lpCall'[x] = IF x = c THEN k ELSE lpCall[x]
  BY <1>1 DEF LpInv
<1>3. lpCall' = [x \in Callers |-> lpCall'[x]]
  BY <1>1 DEF LpInv
<1> QED BY <1>2, <1>3 DEF LpInv

LEMMA NoToolSound == ToolSound(NoTool)
BY DEF ToolSound, NoTool

LEMMA StartKeeps ==
  ASSUME LpInv, NEW c \in Callers, NEW r \in LpRequests, Start(c, r) PROVE LpInv'
<1>1. PICK k : k = PoolSummary(r)
  OBVIOUS
<1>2. ToolSound(k)
  BY <1>1 DEF PoolSummary, ToolSound
<1>3. Finish(c, k) /\ UNCHANGED <<active, position, now>>
  BY <1>1 DEF Start, Finish
<1>4. lpCall' = [x \in Callers |-> lpCall'[x]] /\ \A x \in Callers : ToolSound(lpCall'[x])
  BY <1>2, <1>3, CallerKeeps
<1> QED BY <1>3, <1>4 DEF LpInv

LEMMA BuildOpenKeeps == ASSUME LpInv, NEW c \in Callers, BuildOpen(c) PROVE LpInv'
<1>1. PICK r : r = lpCall[c].ask
  OBVIOUS
<1>2. r \in LpRequests
  BY <1>1 DEF BuildOpen, LpInv, ToolSound
<1>3. r.quote \in Nat /\ r.base \in Nat
  BY <1>2, LpAssumption
<1>4. PICK k : /\ Finish(c, k)
               /\ \/ k = NoTool
                  \/ k = [phase |-> "intent", kind |-> "lp_add", at |-> r.at,
                          input |-> [mint |-> lpCall[c].facts.quoteMint, amount |-> r.quote],
                          base |-> r.base, bps |-> 0]
  BY <1>1, Zenon DEF BuildOpen
<1>5. ToolSound(k)
  BY <1>3, <1>4, NoToolSound DEF ToolSound
<1>6. lpCall' = [x \in Callers |-> lpCall'[x]] /\ \A x \in Callers : ToolSound(lpCall'[x])
  BY <1>4, <1>5, CallerKeeps
<1>7. UNCHANGED <<active, position, now>>
  BY DEF BuildOpen
<1> QED BY <1>6, <1>7 DEF LpInv

\* A withdrawal takes a share.
LEMMA WithdrawalSound ==
  ASSUME NEW kind, kind # "lp_add", NEW a, NEW bps \in 1..Bps
  PROVE  ToolSound(Withdrawal(kind, a, bps))
BY DEF ToolSound, Withdrawal

LEMMA BuildCloseKeeps == ASSUME LpInv, NEW c \in Callers, BuildClose(c) PROVE LpInv'
<1>1. PICK r : r = lpCall[c].ask
  OBVIOUS
<1>2. PICK k : /\ Finish(c, k)
               /\ \/ k = NoTool
                  \/ /\ r.bps \in 1..Bps
                     /\ k = Withdrawal(IF r.bps = Bps THEN "lp_close" ELSE "lp_remove", r.at, r.bps)
  BY <1>1, Zenon DEF BuildClose
<1>3. ToolSound(k)
  <2>1. PICK kind : kind = IF r.bps = Bps THEN "lp_close" ELSE "lp_remove"
    OBVIOUS
  <2>2. kind # "lp_add"
    BY <2>1
  <2>3. k = NoTool \/ (r.bps \in 1..Bps /\ k = Withdrawal(kind, r.at, r.bps))
    BY <1>2, <2>1
  <2> QED BY <2>2, <2>3, WithdrawalSound, NoToolSound
<1>4. lpCall' = [x \in Callers |-> lpCall'[x]] /\ \A x \in Callers : ToolSound(lpCall'[x])
  BY <1>2, <1>3, CallerKeeps
<1>5. UNCHANGED <<active, position, now>>
  BY DEF BuildClose
<1> QED BY <1>4, <1>5 DEF LpInv

LEMMA DecideKeeps == ASSUME LpInv, NEW c \in Callers, Decide(c) PROVE LpInv'
<1>1. PICK a, k : Finish(c, k) /\ (k = NoTool \/ k = Withdrawal("lp_rebalance", a, Bps))
  BY Zenon DEF Decide
<1>2. ToolSound(k)
  <2>1. Bps \in 1..Bps /\ "lp_rebalance" # "lp_add"
    BY UnitsAssumption
  <2> QED BY <1>1, <2>1, WithdrawalSound, NoToolSound
<1>3. lpCall' = [x \in Callers |-> lpCall'[x]] /\ \A x \in Callers : ToolSound(lpCall'[x])
  BY <1>1, <1>2, CallerKeeps
<1>4. UNCHANGED <<active, position, now>>
  BY DEF Decide
<1> QED BY <1>3, <1>4 DEF LpInv

\* A share of an amount is at most the amount.
LEMMA ShareFits ==
  ASSUME NEW q \in Nat, NEW bps \in 1..Bps
  PROVE  q - (q * bps) \div Bps \in Nat
<1>1. Bps \in Nat \ {0} /\ bps \in Nat
  BY UnitsAssumption
<1>2. PICK a \in Nat : a = q * bps
  BY <1>1, ProductType
<1>3. a <= q * Bps
  <2>1. bps * q <= Bps * q
    BY <1>1, ProductGrows
  <2> QED BY <1>1, <1>2, <2>1
<1>4. PICK s : s = a \div Bps
  OBVIOUS
<1>5. s \in Nat
  BY <1>1, <1>4, QuotientType
<1>6. s <= q
  <2> SUFFICES ASSUME q + 1 <= s PROVE FALSE
    BY <1>5
  <2>1. (q + 1) * Bps <= a
    <3>1. q + 1 \in Nat /\ q + 1 <= a \div Bps
      BY <1>4
    <3> QED BY <1>1, <3>1, QuotientAbove
  <2>2. (q + 1) * Bps = q * Bps + Bps /\ q * Bps \in Nat
    BY <1>1, Z3
  <2> QED BY <1>1, <1>2, <1>3, <2>1, <2>2
<1> QED BY <1>2, <1>4, <1>5, <1>6

\* A withdrawal leaves a position in order, and so does a deposit.
LEMMA RemovedSound ==
  ASSUME NEW p, PositionSound(p), NEW bps \in 1..Bps PROVE PositionSound(Removed(p, bps))
<1>1. PICK q, b : q = p.quote - (p.quote * bps) \div Bps /\ b = p.base - (p.base * bps) \div Bps
  OBVIOUS
<1>2. q \in Nat /\ b \in Nat
  BY <1>1, ShareFits DEF PositionSound
<1>3. \/ Removed(p, bps) = [p EXCEPT !.open = FALSE, !.quote = 0, !.base = 0]
      \/ Removed(p, bps) = [p EXCEPT !.quote = q, !.base = b]
  BY <1>1 DEF Removed
<1>4. PositionSound([p EXCEPT !.open = FALSE, !.quote = 0, !.base = 0])
  BY DEF PositionSound, PositionFields
<1>5. PositionSound([p EXCEPT !.quote = q, !.base = b])
  BY <1>2 DEF PositionSound, PositionFields
<1> QED BY <1>3, <1>4, <1>5

LEMMA AmountsSound ==
  ASSUME NEW p, PositionSound(p), NEW q \in Nat, NEW b \in Nat
  PROVE  PositionSound([p EXCEPT !.quote = q, !.base = b])
BY DEF PositionSound, PositionFields

LEMMA LandKeeps == ASSUME LpInv, NEW c \in Callers, Land(c) PROVE LpInv'
<1>1. PICK i : i = lpCall[c]
  OBVIOUS
<1>2. ToolSound(i) /\ i.phase = "intent" /\ i.at \in Accounts
  BY <1>1 DEF Land, LpInv, Open
<1>3. PICK p : p = position[i.at]
  OBVIOUS
<1>4. PositionSound(p)
  BY <1>2, <1>3 DEF LpInv
<1>5. PICK s : s = Landed(p, i) /\ position' = [position EXCEPT ![i.at] = s]
  BY <1>1, <1>3 DEF Land
<1>6. PositionSound(s)
  <2>1. CASE i.kind = "lp_add"
    <3>1. PICK q, b : q = p.quote + i.input.amount /\ b = p.base + i.base
      OBVIOUS
    <3>2. q \in Nat /\ b \in Nat
      BY <1>2, <1>4, <2>1, <3>1 DEF ToolSound, PositionSound
    <3>3. s = [p EXCEPT !.quote = q, !.base = b]
      BY <1>5, <2>1, <3>1, Zenon DEF Landed
    <3>4. PositionSound([p EXCEPT !.quote = q, !.base = b])
      BY <1>4, <3>2, AmountsSound
    <3> QED BY <3>3, <3>4, Zenon
  <2>2. CASE i.kind # "lp_add"
    <3>1. i.bps \in 1..Bps
      BY <1>2, <2>2 DEF ToolSound
    <3>2. s = Removed(p, i.bps)
      BY <1>5, <2>2, Zenon DEF Landed
    <3> QED BY <1>4, <3>1, <3>2, RemovedSound
  <2> QED BY <2>1, <2>2
<1>7. /\ position' = [a \in Accounts |-> position'[a]]
      /\ \A a \in Accounts : PositionSound(position'[a])
  <2>1. \A a \in Accounts : position'[a] = IF a = i.at THEN s ELSE position[a]
    BY <1>5 DEF LpInv
  <2>2. position' = [a \in Accounts |-> position'[a]]
    BY <1>5 DEF LpInv
  <2> QED BY <1>6, <2>1, <2>2 DEF LpInv
<1>8. lpCall' = [x \in Callers |-> lpCall'[x]] /\ \A x \in Callers : ToolSound(lpCall'[x])
  BY CallerKeeps, NoToolSound DEF Land
<1>9. UNCHANGED <<active, now>>
  BY DEF Land
<1> QED BY <1>7, <1>8, <1>9 DEF LpInv

\* Simulations and refusals change the call alone.
LEMMA EndsKeeps ==
  ASSUME LpInv, NEW c \in Callers, Simulate(c) \/ Refused(c) PROVE LpInv'
<1>1. Finish(c, NoTool) /\ UNCHANGED <<active, position, now>>
  BY DEF Simulate, Refused
<1>2. lpCall' = [x \in Callers |-> lpCall'[x]] /\ \A x \in Callers : ToolSound(lpCall'[x])
  BY <1>1, CallerKeeps, NoToolSound
<1> QED BY <1>1, <1>2 DEF LpInv

\* Trades turn one token of a position into the other.
LEMMA ConvertedSound ==
  ASSUME NEW p, PositionSound(p), NEW bin PROVE PositionSound(Converted(p, bin))
<1>1. PICK l \in Nat \ {0}, u \in Nat \ {0} : l = priceOfBin(p.lower) /\ u = priceOfBin(p.upper)
  BY LpAssumption DEF PositionSound
<1>2. p.quote \in Nat /\ p.base \in Nat
  BY DEF PositionSound
<1>3. PICK q, r, b : /\ q = p.quote + p.base * u
                     /\ r = p.quote % l /\ b = p.base + p.quote \div l
  OBVIOUS
<1>4. q \in Nat /\ r \in Nat /\ b \in Nat
  <2>1. p.base * u \in Nat
    BY <1>2, ProductType
  <2>2. p.quote % l \in Nat /\ p.quote \div l \in Nat
    BY <1>2, DivMod
  <2> QED BY <1>2, <1>3, <2>1, <2>2
<1>5. \/ Converted(p, bin) = [p EXCEPT !.quote = q, !.base = 0]
      \/ Converted(p, bin) = [p EXCEPT !.quote = r, !.base = b]
      \/ Converted(p, bin) = p
  <2>1. \/ Converted(p, bin) = [p EXCEPT !.quote = @ + p.base * u, !.base = 0]
        \/ Converted(p, bin) = [p EXCEPT !.quote = @ % l, !.base = @ + p.quote \div l]
        \/ Converted(p, bin) = p
    BY <1>1, Zenon DEF Converted
  <2> QED BY <1>3, <2>1
<1>6. PICK zero \in Nat : zero = 0
  OBVIOUS
<1>7. /\ PositionSound([p EXCEPT !.quote = q, !.base = zero])
      /\ PositionSound([p EXCEPT !.quote = r, !.base = b])
  BY <1>4, <1>6, AmountsSound
<1> QED BY <1>5, <1>6, <1>7, Zenon

LEMMA LpStep == LpInv /\ [LpNext]_lpVars => LpInv'
<1> SUFFICES ASSUME LpInv, [LpNext]_lpVars PROVE LpInv'
  OBVIOUS
<1>1. CASE UNCHANGED lpVars
  BY <1>1 DEF LpInv, lpVars
<1>2. CASE \E c \in Callers : \E r \in LpRequests : Start(c, r)
  BY <1>2, StartKeeps
<1>3. CASE \E c \in Callers : BuildOpen(c) \/ BuildClose(c) \/ Decide(c)
  BY <1>3, BuildOpenKeeps, BuildCloseKeeps, DecideKeeps
<1>4. CASE \E c \in Callers : Land(c) \/ Simulate(c) \/ Refused(c)
  BY <1>4, LandKeeps, EndsKeeps
<1>5. CASE Trade
  <2>1. active' \in Int /\ now' \in Nat /\ lpCall' = lpCall
    BY <1>5, LpAssumption DEF Trade, LpInv
  <2>2. position' = [a \in Accounts |-> Converted(position[a], active')]
    BY <1>5 DEF Trade
  <2>3. \A a \in Accounts : PositionSound(Converted(position[a], active'))
    BY ConvertedSound DEF LpInv
  <2> QED BY <2>1, <2>2, <2>3 DEF LpInv
<1>6. CASE Restart
  <2>1. lpCall' = [c \in Callers |-> NoTool] /\ UNCHANGED <<active, position>> /\ now' \in Nat
    BY <1>6 DEF Restart, LpInv
  <2> QED BY <2>1, NoToolSound DEF LpInv
<1> QED BY <1>1, <1>2, <1>3, <1>4, <1>5, <1>6 DEF LpNext

LEMMA LpStart == LpInit => LpInv
<1> SUFFICES ASSUME LpInit PROVE LpInv
  OBVIOUS
<1>1. PICK p : p = [open |-> TRUE, lower |-> Range0.lower, upper |-> Range0.upper,
                    quote |-> Quote0, base |-> 0]
  OBVIOUS
<1>2. PositionSound(p)
  BY <1>1, LpAssumption DEF PositionSound, PositionFields
<1>3. position = [a \in Accounts |-> p]
  BY <1>1 DEF LpInit
<1>4. lpCall = [c \in Callers |-> NoTool] /\ active \in Int /\ now \in Nat
  BY LpAssumption DEF LpInit
<1> QED BY <1>2, <1>3, <1>4, NoToolSound DEF LpInv

\* For any range, shape, weights and active bin, and any number of positions and calls,
\* the shares of a deposit add up to it.
THEOREM SplitsAreExact == LpSpec => []SplitIsExact
<1>1. LpSpec => []LpInv
  BY LpStart, LpStep, PTL DEF LpSpec
<1>2. LpInv => SplitIsExact
  <2> SUFFICES ASSUME LpInv, NEW a \in Accounts, NEW shape \in {"spot", "curve", "bid-ask"},
                      NEW side \in {"quote", "base"},
                      planDeposit(RangeOf(position[a]), active, shape, position[a][side], side) # <<>>
               PROVE  Sum(planDeposit(RangeOf(position[a]), active, shape, position[a][side], side))
                        = position[a][side]
    BY DEF SplitIsExact, LpInv, Range
  <2>1. PICK l \in Int, u \in Int : l = Range0.lower /\ u = Range0.upper
    BY LpAssumption
  <2>2. RangeOf(position[a]) = [lower |-> l, upper |-> u]
    BY <2>1 DEF RangeOf, LpInv, PositionSound
  <2>3. PICK amount \in Nat : amount = position[a][side]
    BY DEF LpInv, PositionSound
  <2>4. PICK funded : funded = IF side = "quote" THEN [lower |-> l, upper |-> LeastOf(u, active)]
                               ELSE [lower |-> Max({l, active}), upper |-> u]
    OBVIOUS
  <2>5. planDeposit(RangeOf(position[a]), active, shape, amount, side)
          = IF funded.upper < funded.lower THEN <<>>
            ELSE distributeAmount(amount, shapeWeights(shape, funded, active))
    <3>1. PICK range : range = RangeOf(position[a])
      OBVIOUS
    <3>2. /\ [range EXCEPT !.upper = LeastOf(@, active)] = [lower |-> l, upper |-> LeastOf(u, active)]
          /\ [range EXCEPT !.lower = Max({@, active})] = [lower |-> Max({l, active}), upper |-> u]
      BY <2>2, <3>1
    <3>3. funded = IF side = "quote" THEN [range EXCEPT !.upper = LeastOf(@, active)]
                                     ELSE [range EXCEPT !.lower = Max({@, active})]
      BY <2>4, <3>2, Zenon
    <3>4. planDeposit(range, active, shape, amount, side)
            = IF funded.upper < funded.lower THEN <<>>
              ELSE distributeAmount(amount, shapeWeights(shape, funded, active))
      BY <3>3, Zenon DEF planDeposit
    <3> QED BY <3>1, <3>4
  <2>6. /\ funded.lower \in Int /\ funded.upper \in Int /\ funded.upper <= u /\ funded.lower >= l
        /\ active \in Int
    <3>1. active \in Int
      BY DEF LpInv
    <3>2. Max({l, active}) \in Int /\ Max({l, active}) >= l
      BY <3>1, MaxOfTwo
    <3>3. LeastOf(u, active) \in Int /\ LeastOf(u, active) <= u
      BY <3>1 DEF LeastOf
    <3>4. CASE side = "quote"
      BY <2>4, <3>1, <3>3, <3>4
    <3>5. CASE side # "quote"
      BY <2>4, <3>1, <3>2, <3>5
    <3> QED BY <3>4, <3>5
  <2>7. funded.lower <= funded.upper
    BY <2>3, <2>5, <2>6
  <2>8. binSpan(funded) <= MaxLevels /\ MaxLevels \in Nat /\ WeightScale \in Nat /\ MaxLevels <= WeightScale
    <3>1. u - l + 1 <= MaxLevels /\ MaxLevels \in Nat /\ WeightScale \in Nat /\ MaxLevels <= WeightScale
      BY <2>1, LpAssumption DEF binSpan
    <3>2. PICK x \in Int, y \in Int : x = funded.lower /\ y = funded.upper
      BY <2>6
    <3>3. y - x + 1 <= MaxLevels
      BY <2>6, <3>1, <3>2
    <3> QED BY <3>1, <3>2, <3>3 DEF binSpan
  <2>9. PICK n, w : n = binSpan(funded) /\ w = shapeWeights(shape, funded, active)
    OBVIOUS
  <2>10. n \in Nat \ {0} /\ w \in [1..n -> Nat \ {0}]
    BY <2>6, <2>7, <2>8, <2>9, WeightsSound
  <2>11. n <= WeightScale
    BY <2>8, <2>9, <2>10
  <2>12. Sum(distributeAmount(amount, w)) = amount
    BY <2>10, <2>11, DistributeExact
  <2>13. planDeposit(RangeOf(position[a]), active, shape, amount, side) = distributeAmount(amount, w)
    BY <2>5, <2>6, <2>7, <2>9
  <2> QED BY <2>3, <2>12, <2>13
<1> QED BY <1>1, <1>2, PTL
=============================================================================
