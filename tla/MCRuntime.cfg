SPECIFICATION Spec
CONSTANTS
  Candidates <- MCCandidates
  MaxRetries = 1
  Providers = 2
  Replies <- MCReplies
  Tools <- MCTools
  Granted = {"quote", "swap"}
  MaxIterations = 3
  MaxToolCalls = 3
  MaxRepeated = 2
  Retention = 4
  MaxCrashes = 1
  SessionIds = {"s", "t", "u"}
  MessageIds = {"m", "n", "o"}
  CallIds = {"c"}
  MaxDepth = 1
  UnitsPerInstruction = 4
  MaxUnits = 8
  MicroLamports = 10
  Scale = 100
  Tolerance = 1
  Configured = TRUE
  Scopes = {"agent:read", "trading:execute"}
  Boots <- MCBoots
  Cookies = {"c1", "c2", "c3"}
  MaxSessions = 2
  Ttl = 2
  MaxAttempts = 2
  Window = 2
  Streams = {"s1"}
  MaxStreams = 1
  MaxBuilding = 2
  Recent = 1
  Intents <- MCIntents
  Limits <- MCLimits
  MaxTrades = 1
  MaxTime = 2
  Updates <- MCUpdates
  AllowedUsers = {"op"}
  AllowedChats = {}
  Frames <- MCFrames
  Methods = {"trade"}
  Clients = {"g1"}
  Sessions = {"s"}
  Principals = {"alice", "bob"}
  ChannelAccounts = {"a1", "a2"}
  MaxFailures = 3
  Prepared <- MCPrepared
  Cluster = "main"
  Pinned = {"t"}
  MaxObserved = 3
  MaxDrift = 1
  MaxLag = 1
  Allowed = {"native", "good"}
  Addresses <- MCAddresses
  Accounts0 <- MCAccounts0
  Others <- MCOthers
  PolicyFiles <- MCPolicyFiles
  Wallet = "wallet"
  BaseFee = 1
  MaxSlot = 2
  Parts = {"agent", "history", "records", "access", "snapshots", "telegram", "core", "gateway"}
INVARIANTS
  EffectsAreRecorded
  NoFallbackAfterEffect
  NoFrameAfterEnd
  ReservedIsBounded
  ActedOnce
  SentIsSafe
PROPERTIES
  BranchIsStable
CHECK_DEADLOCK FALSE
