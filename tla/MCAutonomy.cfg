SPECIFICATION Spec
CONSTANTS
  Parts = {"bus", "triggers", "scheduler", "delegation", "strategy"}
  Events = {"e1", "e2", "e3"}
  Consumers <- MCConsumers
  Wants <- MCWants
  Stale = {"e3"}
  MaxAttempts = 2
  BatchSize = 2
  MaxCalls = 2
  MarketEvents <- MCMarketEvents
  Threshold <- MCThreshold
  Cooldown = 2
  Debounces = {0, 1}
  MaxTriggerTime = 4
  Ids = {"a"}
  Schedules <- MCSchedules
  Payloads = {"x", "y"}
  Minute = 2
  HourLength = 2
  DayLength = 1
  MonthLength = 2
  YearLength = 2
  WeekLength = 3
  Horizon = 12
  Root = "root"
  Children = {"k1", "k2", "k3"}
  MaxDepth = 2
  MaxChildren = 2
  Concurrency = 2
  Verifies = TRUE
  Strategies = {"s1", "s2"}
  Kind <- MCKind
  Target <- MCTarget
  Per = 2
  Prices = {8, 10}
  Entry = 8
  GainPct = 20
  DropPct = 15
  MaxErrors = 2
  Interval = 1
  Uncertain = TRUE
  MaxStratTime = 2
  MaxRuns = 3
INVARIANTS
  OnceInOrder
  FiresApart
  SlotsCovered
  SlotsReturned
  CancelledNotAnnounced
  TradesAccounted
CHECK_DEADLOCK FALSE
