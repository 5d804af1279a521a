---------------------------- MODULE PerpsTrading ----------------------------
(***************************************************************************)
(* Perps trading: the Drift venue (perps/drift), the proposing tools       *)
(* perps_open, perps_adjust and perps_close, and the settlement the kernel *)
(* checks through the venue's positions (perps/settle).                    *)
(*                                                                         *)
(* The Drift client answers from the caches of its subscription, so a tool *)
(* reads market, prices, funding and positions and sizes its order without *)
(* giving way; it waits while the order's transaction is built, and only   *)
(* then reads the policy and judges.  The call ends with the proposal: the *)
(* next one may follow at once, and nothing judges the first again.  The   *)
(* exchange is external: markets move, the wallet's owner trades           *)
(* elsewhere, and a signed order fills late, in several parts or not at    *)
(* all, also after the kernel has settled it.                              *)
(***************************************************************************)
EXTENDS PerpsGuards, Sequences

CONSTANTS
  Markets,
  Orders,       \* slots for what is outstanding at once, of any callers: a tool call
                \* that builds, its proposal, then the order until it cannot fill any more
  Requests,     \* what an agent may ask for, see Held below
  Conditions,   \* what the exchange may say of a market:
                \* [named, status, oracle, mark, funded, funding, margin]
  Switches,     \* the operator's switches: [kill, armed, enabled, windDown]
  LiqPrices,    \* liquidation prices the exchange may estimate
  Base,         \* base units in one (BASE_PRECISION)
  MayCreate,    \* allowAccountCreation
  MaxMoves,     \* bound on the steps the world takes by itself
  MaxAsks       \* bound on the tool calls

\* A market that is open, with its mark at the oracle's price
InOrder(c) == c.named /\ c.status = "active" /\ c.oracle = c.mark /\ Usable(c.oracle) /\ c.funded

SettlementMint == "usdc"
PortfolioCap == Policy.caps[Bucket(SettlementMint)].portfolio
NotionalCap == Policy.caps[Bucket(SettlementMint)].notional

\* Amounts, caps and prices are integers, and some market is in order at the start
ASSUME PerpsAssumption ==
  /\ Base \in Nat \ {0}
  /\ IsFiniteSet(Markets) /\ IsFiniteSet(Orders) /\ Orders # {}
  /\ PortfolioCap \in Nat /\ NotionalCap \in Nat
  /\ \A r \in Requests :
       r.market \in Markets /\ {r.collateral, r.leverage, r.delta, r.fraction} \subseteq Nat
  /\ \A c \in Conditions : c.oracle \in Nat /\ c.mark \in Nat
  /\ \E c \in Conditions : InOrder(c)

VARIABLES
  conn,         \* "down", "connecting" or "up"
  account,      \* the subaccount exists
  base,         \* signed base of each market's position, on the exchange
  cond,         \* each market's condition
  switches,
  call,         \* the tool call, proposal or order in each slot
  moves, asked, \* steps the world has taken by itself, tool calls so far
  lowest        \* history: the lowest price at which a proposal to open has counted
                \* each market's position or sized an order in it

perpVars == <<conn, account, base, cond, switches, call, moves, asked, lowest>>

NoCall == [phase |-> "idle"]

-----------------------------------------------------------------------------
(* The venue *)

\* toPerpMarket and listMarkets: markets whose account can be read
Listed(m) == cond[m].named /\ cond[m].margin \in 0..(Bps - 1)

\* getPrices: the oracle's price must be usable, the mark falls back to it
MarkOf(m) == IF Usable(cond[m].mark) THEN cond[m].mark ELSE cond[m].oracle

\* #ready, getMarket, getPrices and #entry all answer
Priced(m) == conn = "up" /\ Listed(m) /\ Usable(cond[m].oracle)

SideOf(b) == IF b < 0 THEN "short" ELSE "long"

\* notionalQuoteUnits
NotionalOf(b, price) == (Abs(b) * price) \div Base

\* getPositions: a position in a market that is not listed, or without a price, is
\* left out
Shown(m) == base[m] # 0 /\ Listed(m) /\ Usable(cond[m].oracle)
Positions ==
  {[market |-> m, side |-> SideOf(base[m]), base |-> Abs(base[m]),
    notional |-> NotionalOf(base[m], cond[m].oracle), mint |-> SettlementMint] :
   m \in {x \in Markets : Shown(x)}}

\* readSnapshot: a venue that cannot be read gives a stale exposure
Snapshot ==
  IF conn = "up" /\ account
  THEN [positions |-> Positions, exposure |-> ExposureFrom(Positions), account |-> TRUE]
  ELSE [positions |-> {}, exposure |-> StaleExposure, account |-> FALSE]

-----------------------------------------------------------------------------
(* The tools *)

\* A request: [kind, market, side, collateral, leverage, delta, fraction, slippage, limit,
\* limitPrice].
\* The position the snapshot shows decides the side of an adjustment or a close.
Held(r) == PositionIn(Snapshot.positions, r.market)
\* #order's side
SideFor(r) ==
  CASE r.kind = "perp_open" -> r.side
    [] r.kind = "perp_increase" -> (CHOOSE p \in Held(r) : TRUE).side
    [] OTHER -> Opposite((CHOOSE p \in Held(r) : TRUE).side)

\* buildOpen, buildAdjust and buildClose: the size of the order in base units
SizeFor(r) ==
  CASE r.kind = "perp_open" -> (NotionalFrom(r.collateral, r.leverage) * Base) \div MarkOf(r.market)
    [] r.kind = "perp_close" -> (Abs(base[r.market]) * r.fraction) \div Bps
    [] OTHER -> r.delta

\* Fault: the order is not marked reduce-only
NotReduceOnly(kind) == FALSE

\* #order: the flag the exchange gets with the order
ReduceOnly(kind) == Reducing(kind)

\* buildPerpIntent on top of #order and #assemble
IntentFor(r, liq) ==
  LET m == r.market
      size == SizeFor(r)
  IN  [kind |-> r.kind, market |-> m, side |-> SideFor(r), reduceOnly |-> Reducing(r.kind),
       leverage |-> IF Opening(r.kind) THEN r.leverage ELSE Bps,
       slippage |-> r.slippage, limit |-> r.limit, limitPrice |-> r.limitPrice,
       base |-> size, minBase |-> (size * (Bps - r.slippage)) \div Bps,
       mint |-> SettlementMint,
       collateral |-> IF Opening(r.kind) THEN r.collateral ELSE 0,
       notional |-> IF r.kind = "perp_open" THEN NotionalFrom(r.collateral, r.leverage)
                    ELSE NotionalOf(size, MarkOf(m)),
       entry |-> MarkOf(m), mark |-> MarkOf(m), oracle |-> cond[m].oracle,
       margin |-> cond[m].margin, status |-> cond[m].status,
       venueLiq |-> liq, funded |-> cond[m].funded, funding |-> cond[m].funding]

\* The price at which the snapshot of a proposal counts the position in m (a position
\* left out counts for nothing), and the price at which it sizes its own order
CountedAt(m) == IF Shown(m) THEN cond[m].oracle ELSE IF base[m] # 0 THEN 0 ELSE lowest[m]
OrderedAt(m, r) == IF m = r.market THEN MarkOf(m) ELSE lowest[m]

\* #order and #assemble: a size that is not positive and a limit order without a price
\* throw; the transaction is awaited from here on
Build(a, r, liq) ==
  /\ call[a].phase = "idle"
  /\ asked < MaxAsks /\ asked' = asked + 1
  /\ SizeFor(r) > 0
  /\ r.limit => Usable(r.limitPrice)
  /\ call' = [call EXCEPT ![a] =
       [phase |-> "built", intent |-> IntentFor(r, liq), snapshot |-> Snapshot,
        order |-> ReduceOnly(r.kind)]]
  /\ lowest' = IF Opening(r.kind)
               THEN [m \in Markets |-> Smaller(lowest[m], Smaller(CountedAt(m), OrderedAt(m, r)))]
               ELSE lowest
  /\ UNCHANGED <<conn, account, base, cond, switches, moves>>

\* perps_open; a market that cannot be read throws, like below
AskOpen(a, r, liq) ==
  /\ r.kind = "perp_open" /\ Priced(r.market) /\ r.collateral > 0
  /\ Build(a, r, liq)

\* perps_adjust: without a position it throws
AskAdjust(a, r, liq) ==
  /\ r.kind \in {"perp_increase", "perp_reduce"} /\ Priced(r.market) /\ Held(r) # {}
  /\ Reducing(r.kind) => liq = Undefined
  /\ Build(a, r, liq)

\* perps_close; no rule reads the liquidation estimate of a reducing order
AskClose(a, r) ==
  /\ r.kind = "perp_close" /\ Priced(r.market) /\ Held(r) # {}
  /\ Build(a, r, Undefined)

\* guardContext: the policy and the switches as they are now, the snapshot as it was
ContextOf(k) ==
  [kill |-> switches.kill, armed |-> switches.armed, enabled |-> switches.enabled,
   windDown |-> switches.windDown, exposure |-> k.snapshot.exposure,
   position |-> PositionIn(k.snapshot.positions, k.intent.market),
   account |-> k.snapshot.account, dryRun |-> FALSE]

\* makeProposal: the verdict; a refused proposal is only shown
Judge(a) ==
  /\ call[a].phase = "built"
  /\ call' = [call EXCEPT ![a] =
       IF EvaluatePerpGuards(call[a].intent, ContextOf(call[a])) = {}
       THEN [@ EXCEPT !.phase = "approved"] ELSE NoCall]
  /\ UNCHANGED <<conn, account, base, cond, switches, moves, asked, lowest>>

-----------------------------------------------------------------------------
(* The kernel's settlement, seen from the venue *)

\* positionReaderFor: the signed base of the position shown, 0 when there is none
ReadPosition(m) == IF Shown(m) THEN base[m] ELSE 0

\* execute: refused under the kill switch or when the venue cannot be read; the
\* position before the order is noted
Execute(a) ==
  /\ call[a].phase = "approved"
  /\ ~switches.kill /\ switches.armed /\ conn = "up"
  /\ call' = [call EXCEPT ![a] =
       [phase |-> "sent", intent |-> @.intent, order |-> @.order,
        pre |-> ReadPosition(@.intent.market), filled |-> 0, report |-> "none"]]
  /\ UNCHANGED <<conn, account, base, cond, switches, moves, asked, lowest>>

\* The transaction cannot be built, is refused, or expires; or nobody takes up the proposal
Drop(a) ==
  /\ call[a].phase \in {"built", "approved", "sent"}
  /\ call' = [call EXCEPT ![a] = NoCall]
  /\ UNCHANGED <<conn, account, base, cond, switches, moves, asked, lowest>>

Signed(side, n) == IF side = "long" THEN n ELSE 0 - n

\* An order on the exchange, and what is left of it to fill
Placed(k) == k.phase \in {"sent", "resting"}
LeftOf(k) == k.intent.base - k.filled

\* How much of the order the exchange can fill: a reduce-only order stops at zero
Fillable(k) ==
  LET b == base[k.intent.market]
  IN  IF ~k.order THEN LeftOf(k)
      ELSE IF b = 0 \/ SideOf(b) = k.intent.side THEN 0
      ELSE IF LeftOf(k) < Abs(b) THEN LeftOf(k) ELSE Abs(b)

\* A limit order waits for its price
Crossed(k) ==
  k.intent.limit => IF k.intent.side = "long" THEN MarkOf(k.intent.market) <= k.intent.limitPrice
                    ELSE MarkOf(k.intent.market) >= k.intent.limitPrice

\* The exchange fills the order, wholly or in part (one unit), settled or not
FillOrder(a, whole) ==
  LET m == call[a].intent.market
      n == IF whole THEN Fillable(call[a]) ELSE 1
  IN  /\ Placed(call[a]) /\ Crossed(call[a])
      /\ Fillable(call[a]) > 0
      /\ base' = [base EXCEPT ![m] = @ + Signed(call[a].intent.side, n)]
      /\ call' = [call EXCEPT ![a].filled = @ + n]
      /\ UNCHANGED <<conn, account, cond, switches, moves, asked, lowest>>

\* What is left of the order is cancelled or expires, or nothing is left
OrderEnds(a) ==
  /\ call[a].phase = "resting"
  /\ call' = [call EXCEPT ![a] = NoCall]
  /\ UNCHANGED <<conn, account, base, cond, switches, moves, asked, lowest>>

\* #settle: how far the position moved in the order's direction
Moved(k) == Signed(k.intent.side, ReadPosition(k.intent.market) - k.pre)

\* #settle: the confirmed trade is reported filled, short, or unverified; the order rests
\* on the exchange with what is left of it, and no snapshot shows it
Settle(a) ==
  /\ call[a].phase = "sent"
  /\ call' = [call EXCEPT ![a] =
       [phase |-> "resting", intent |-> @.intent, order |-> @.order, pre |-> 0,
        filled |-> @.filled,
        report |-> IF conn # "up" THEN "SETTLE_UNVERIFIED"
                   ELSE IF Moved(call[a]) < @.intent.minBase THEN "SETTLE_SHORTFALL"
                   ELSE "ok"]]
  /\ UNCHANGED <<conn, account, base, cond, switches, moves, asked, lowest>>

-----------------------------------------------------------------------------
(* Connection, account and the world *)

Moves == moves < MaxMoves /\ moves' = moves + 1

\* connect: one attempt at a time
Connect ==
  /\ conn = "down" /\ conn' = "connecting"
  /\ UNCHANGED <<account, base, cond, switches, call, moves, asked, lowest>>

Connected(ok) ==
  /\ conn = "connecting" /\ conn' = IF ok THEN "up" ELSE "down"
  /\ UNCHANGED <<account, base, cond, switches, call, moves, asked, lowest>>

\* disconnect finds no client while an attempt is under way, and stops nothing
Disconnect ==
  /\ conn = "up" /\ conn' = "down"
  /\ Moves
  /\ UNCHANGED <<account, base, cond, switches, call, asked, lowest>>

\* buildInitializeAccount, signed and sent: an explicit step, refused unless enabled
CreateAccount ==
  /\ MayCreate /\ conn = "up" /\ ~account
  /\ account' = TRUE
  /\ UNCHANGED <<conn, base, cond, switches, call, moves, asked, lowest>>

MarketMoves(m, c) ==
  /\ cond' = [cond EXCEPT ![m] = c] /\ cond' # cond
  /\ Moves
  /\ UNCHANGED <<conn, account, base, switches, call, asked, lowest>>

Operator(s) ==
  /\ switches' = s /\ switches' # switches
  /\ Moves
  /\ UNCHANGED <<conn, account, base, cond, call, asked, lowest>>

\* The owner trades elsewhere: closes a position, or turns it around
Elsewhere(m, b) ==
  /\ account /\ base[m] # 0 /\ b \in {0, 0 - base[m]}
  /\ base' = [base EXCEPT ![m] = b]
  /\ Moves
  /\ UNCHANGED <<conn, account, cond, switches, call, asked, lowest>>

PerpInit ==
  /\ conn = "up"
  /\ account = ~MayCreate
  /\ base = [m \in Markets |-> 0]
  /\ cond = [m \in Markets |-> CHOOSE c \in Conditions : InOrder(c)]
  /\ switches = [kill |-> FALSE, armed |-> TRUE, enabled |-> TRUE, windDown |-> FALSE]
  /\ call = [a \in Orders |-> NoCall]
  /\ moves = 0 /\ asked = 0
  /\ lowest = [m \in Markets |-> cond[m].oracle]

PerpNext ==
  \/ \E a \in Orders :
       \/ \E r \in Requests : AskClose(a, r)
       \/ \E r \in Requests, l \in LiqPrices \cup {Undefined} : AskOpen(a, r, l) \/ AskAdjust(a, r, l)
       \/ Judge(a) \/ Execute(a) \/ Drop(a) \/ Settle(a) \/ OrderEnds(a)
       \/ \E whole \in BOOLEAN : FillOrder(a, whole)
  \/ Connect \/ (\E ok \in BOOLEAN : Connected(ok)) \/ Disconnect \/ CreateAccount
  \/ \E m \in Markets, c \in Conditions : MarketMoves(m, c)
  \/ \E s \in Switches : Operator(s)
  \/ \E m \in Markets, b \in {base[x] : x \in Markets} \cup {0 - base[x] : x \in Markets} :
       Elsewhere(m, b)

PerpSpec == PerpInit /\ [][PerpNext]_perpVars

-----------------------------------------------------------------------------
(* Properties *)

\* A reduce or close order never grows a position or turns it around, even when
\* the position it was judged against has been closed or turned meanwhile, or other
\* orders have reduced it while this one rested: the guard looks at a snapshot, the
\* reduce-only flag of the order at the fill.
ReduceOnlyShrinks ==
  [][\A a \in Orders : \A m \in Markets :
       (/\ Placed(call[a]) /\ Placed(call'[a])
        /\ call'[a].filled # call[a].filled
        /\ Reducing(call[a].intent.kind) /\ m = call[a].intent.market) =>
         /\ Abs(base'[m]) < Abs(base[m])
         /\ base'[m] # 0 => SideOf(base'[m]) = SideOf(base[m])]_perpVars

\* No snapshot shows an order that has not filled: neither a proposal under way nor one
\* that rests on the exchange, settled.  So the portfolio cap can be overshot, by one
\* order's cap for each other order outstanding at once and by no more, however orders are
\* split, increased, filled in parts and late, and interleaved, and however prices move:
\* the positions are valued at the lowest price a proposal has used so far, and every
\* position and every order may lose a fraction of a unit to rounding.
OvershootBounded ==
  SumFunctionOnSet([m \in Markets |-> Abs(base[m]) * lowest[m]], Markets)
    <= Base * (PortfolioCap + (Cardinality(Orders) - 1) * NotionalCap)
         + (Base - 1) * (Cardinality(Markets) + Cardinality(Orders))
=============================================================================
