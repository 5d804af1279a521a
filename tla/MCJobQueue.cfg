SPECIFICATION FairSpec
CONSTANTS
  NoJob = NoJob
  NoWorker = NoWorker
  j1 = j1
  w1 = w1
  w2 = w2
  s1 = s1
  s2 = s2
  s3 = s3
  Jobs = {j1}
  Workers = {w1, w2}
  Slots = {s1, s2, s3}
  WorkerOf <- MCWorkerOf
  MaxAttempts <- MCThreeTries
  LeaseMs = 2
  BackoffMs = 12
  Jitter = 0
  Delays = {0, 1}
  Drainable = {w1}
  MaxSafe = 24
  MaxBeats = 1
INVARIANTS
  AttemptsAgree
  ResultOfOneAttempt
PROPERTIES
  ImplementsLifecycle
  EveryJobSettles
CHECK_DEADLOCK FALSE
