SPECIFICATION Spec
CONSTANTS
  Requests = {r1}
  Operators = {o1, o2, o3}
  Processes = {p1, p2}
  Nonces = {n1, n2, n3}
  NoRequest = NoRequest
  Deadline = 1
  m1 = m1
  Auths = {a1}
  Messages = {m1}
  MessageOf <- MCMessageOf
  Calls = {p1, p2}
  Reconcilers = {k1, k2}
  LastValid <- MCLastValid
  MaxHeight = 2
  NoAuth = NoAuth
  Ids = {n1, n2, n3}
  Assets = {s1}
  Amounts = {1, 2}
  Denoms = {d1}
  PerAsset = 3
  AggregateMax = 2
  AssetExposure = 4
  TotalExposure = 4
  AssetHourly = 2
  Window = 2
  Ttl = 2
  MaxTime = 2
  Drift = 1
  SnapshotTimes = {1}
  SnapshotAmounts = {1}
  NoDenom = NoDenom
  NoAsset = NoAsset
  Parts = {"approvals", "signer", "ledger"}
SYMMETRY MCSymmetry
INVARIANTS
  QuorumApproved
  AuditTellsStatus
  SignedAtMostOnce
  SettledAgrees
  CapHolds
  HourlyHolds
PROPERTIES
  DroppedStaysOut
CHECK_DEADLOCK FALSE
