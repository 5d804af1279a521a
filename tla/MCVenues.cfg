\* perps: two markets, two orders outstanding and one step of the world by itself; curve: two
\* calls, two trades of others; lp: two positions, two calls, two ticks.
SPECIFICATION Spec
CONSTANTS
 Bps = 100
 Overrides <- MCOverrides
 Markets = {"S", "B"}
 Orders = {p, q}
 Requests <- MCRequests
 Conditions <- MCConditions
 Switches <- MCSwitches
 LiqPrices = {9}
 Base = 5
 MayCreate = TRUE
 MaxMoves = 1
 MaxAsks = 3
 Sol = 2
 Usdc = 2
 MaxLevels = 5
 Configured <- MCConfigured
 NoConfig = NoConfig
 Launches <- MCLaunches
 Evidences <- MCEvidences
 Budgets = {4, 11}
 Slippages = {20}
 Amounts = {5}
 Shares = {100}
 Reserves0 <- MCReserves
 Supply = 1000
 Traders = {"t1", "t2"}
 MaxTrades = 2
 MaxTools = 3
 MinBin = 0
 MaxBin = 4
 RootStep = 2
 Bell <- MCBell
 WeightScale = 1000
 Accounts = {"p1", "p2"}
 Range0 <- MCRange
 Quote0 = 17
 PoolFacts <- MCFacts
 Holdings = 8
 LpRequests <- MCLpRequests
 RebalanceSet <- MCPolicy
 Hour = 1
 Day = 2
 PriorityFee = 1
 SignatureFee = 1
 Modes = {"live", "dry"}
 Callers = {"a", "b"}
 MaxLpCalls = 2
 MaxTicks = 2
 Mints = {"a", "b"}
 Trades <- MCTrades
 MaxPerMint = 2
 MaxAutoFollow = 1
 HeatWindow = 1
 StaleAfter = 1
 MaxGen = 3
 MaxFeedTime = 3
 Parts = {"perps", "curve", "lp", "feed"}
INVARIANTS OvershootBounded BuyWithinBudget SplitIsExact FeedFailsSafe
PROPERTIES ReduceOnlyShrinks
SYMMETRY MCSymmetry
CHECK_DEADLOCK FALSE
