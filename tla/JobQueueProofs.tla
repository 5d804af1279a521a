--------------------------- MODULE JobQueueProofs ---------------------------
(***************************************************************************)
(* Proofs that the invariants of JobQueue hold for every set of jobs,      *)
(* workers and slots, every retry budget and every timing parameter.       *)
(***************************************************************************)
EXTENDS JobQueue, TLAPS

\* A row stays a row when claim's recovery or the end of an attempt stops it.
LEMMA StopType ==
  ASSUME NEW r \in Row, NEW st \in Status
  PROVE  Stop(r, st) \in Row
<1>1. 0 \in 0..MaxSafe
  BY JobQueueAssumption
<1> QED BY <1>1, Zenon DEF Stop, Row

\* Closing an attempt yields an attempt table again.
LEMMA FinishType ==
  ASSUME TypeOK, NEW j \in Jobs, NEW t, NEW o \in Outcome
  PROVE  Finish(j, t, o) \in [Numbers(j) -> Attempt]
BY DEF Finish, TypeOK, Attempt

\* The recovery sweep of claim preserves the types of both tables.
LEMMA RecoveredType ==
  ASSUME TypeOK, NEW j \in Jobs
  PROVE  /\ Recovered(j) \in Row
         /\ RecoveredAttempt(j) \in [Numbers(j) -> Attempt]
<1>1. RecoverStatus(j) \in Status
  BY DEF RecoverStatus, Status, Terminal
<1>2. row[j] \in Row /\ attempt[j] \in [Numbers(j) -> Attempt]
  BY DEF TypeOK
<1>3. Recovered(j) \in Row
  BY <1>1, <1>2, StopType DEF Recovered
<1>4. {"cancelled", "failed"} \subseteq Outcome
  BY DEF Outcome
<1>5. RecoveredAttempt(j) \in [Numbers(j) -> Attempt]
  BY <1>2, <1>4, FinishType DEF RecoveredAttempt
<1> QED BY <1>3, <1>5

\* A slot at work holds a lease of a real job.
LEMMA LeaseJob ==
  ASSUME TypeOK, NEW s \in Slots, ~Idle(s)
  PROVE  lease[s] \in Lease /\ lease[s].job \in Jobs /\ lease[s].token \in Nat
BY DEF TypeOK, Lease, Idle

-----------------------------------------------------------------------------
(* Type correctness.                                                       *)

\* Empty tables and idle slots are well-formed.
LEMMA InitType == Init => TypeOK
<1> SUFFICES ASSUME Init PROVE TypeOK
  OBVIOUS
<1>1. AbsentRow \in Row
  BY JobQueueAssumption DEF AbsentRow, Row, Status
<1>2. NoAttempt \in Attempt
  BY DEF NoAttempt, Attempt, Outcome
<1>3. NoLease \in Lease
  BY JobQueueAssumption DEF NoLease, Lease
<1> QED BY <1>1, <1>2, <1>3, JobQueueAssumption DEF Init, TypeOK

\* Every method of the queue and every step of a worker keeps the types.
LEMMA NextType == TypeOK /\ [Next]_vars => TypeOK'
<1> SUFFICES ASSUME TypeOK, [Next]_vars PROVE TypeOK'
  OBVIOUS
<1> USE JobQueueAssumption
<1>a. NoLease \in Lease
  BY DEF NoLease, Lease
<1>1. ASSUME NEW j \in Jobs, NEW d \in Delays, Enqueue(j, d) PROVE TypeOK'
  <2>1. [AbsentRow EXCEPT !.status = IF d > 0 THEN "scheduled" ELSE "queued",
                          !.at = now + d, !.created = now] \in Row
    <3>1. AbsentRow \in Row
      BY DEF AbsentRow, Row, Status
    <3>2. /\ (IF d > 0 THEN "scheduled" ELSE "queued") \in Status
          /\ now + d \in 0..MaxSafe
          /\ now \in 0..MaxSafe
      BY <1>1 DEF Enqueue, Status, IsSafe, TypeOK
    <3> QED BY <3>1, <3>2, Zenon DEF Row
  <2> QED BY <1>1, <2>1 DEF Enqueue, TypeOK
<1>2. ASSUME NEW j \in Jobs, Cancel(j) PROVE TypeOK'
  <2>1. row'[j] \in Row
    BY <1>2 DEF Cancel, TypeOK, Row, Status, Terminal
  <2> QED BY <1>2, <2>1 DEF Cancel, TypeOK
<1>3. ASSUME NEW s \in Slots, NEW j \in Jobs, Claim(s, j) PROVE TypeOK'
  <2>1. \A k \in Jobs : Recovered(k) \in Row /\ RecoveredAttempt(k) \in [Numbers(k) -> Attempt]
    BY RecoveredType
  <2> DEFINE r == Recovered(j)
  <2>2. r \in Row /\ now + LeaseMs \in 0..MaxSafe /\ WorkerOf[s] \in Workers
    BY <1>3, <2>1 DEF Claim, CanClaim, IsSafe
  <2>3. NextToken(r) \in Nat
    BY <2>2 DEF NextToken, Row
  <2>4. [r EXCEPT !.status = "running", !.worker = WorkerOf[s], !.token = NextToken(r),
                  !.expires = now + LeaseMs, !.count = r.count + 1] \in Row
    <3>1. r.count + 1 \in Nat /\ "running" \in Status
      BY <2>2 DEF Row, Status
    <3> QED BY <2>2, <2>3, <3>1, Zenon DEF Row
  <2>5. [worker |-> WorkerOf[s], token |-> NextToken(r), outcome |-> "open"] \in Attempt
    BY <2>2, <2>3 DEF Attempt, Outcome
  <2>6. [NoLease EXCEPT !.job = j, !.token = NextToken(r)] \in Lease
    BY <1>a, <2>3, Zenon DEF Lease
  <2>7. row' \in [Jobs -> Row]
    BY <1>3, <2>1, <2>4 DEF Claim
  <2>8. DOMAIN attempt' = Jobs /\ \A k \in Jobs : attempt'[k] \in [Numbers(k) -> Attempt]
    <3>1. [RecoveredAttempt(j) EXCEPT ![r.count + 1] =
             [worker |-> WorkerOf[s], token |-> NextToken(r), outcome |-> "open"]]
          \in [Numbers(j) -> Attempt]
      BY <2>1, <2>5
    <3> QED BY <1>3, <2>1, <3>1 DEF Claim
  <2>9. lease' \in [Slots -> Lease]
    BY <1>3, <2>6 DEF Claim, TypeOK
  <2> QED BY <1>3, <2>7, <2>8, <2>9 DEF Claim, TypeOK
<1>4. ASSUME NEW s \in Slots, ClaimNothing(s) PROVE TypeOK'
  BY <1>4, RecoveredType DEF ClaimNothing, TypeOK
<1>5. ASSUME NEW s \in Slots, Beat(s) PROVE TypeOK'
  <2>1. lease[s] \in Lease /\ lease[s].job \in Jobs
    BY <1>5, LeaseJob DEF Beat
  <2>2. lease' \in [Slots -> Lease]
    BY <1>5, <2>1 DEF Beat, TypeOK, Lease
  <2>3. row' \in [Jobs -> Row]
    <3>1. \A r \in Row : [r EXCEPT !.expires = now + LeaseMs] \in Row
      BY <1>5 DEF Beat, Row, IsSafe
    <3> QED BY <1>5, <2>1, <3>1 DEF Beat, TypeOK
  <2> QED BY <1>5, <2>2, <2>3 DEF Beat, TypeOK
<1>6. ASSUME NEW s \in Slots, HandlerReturns(s) PROVE TypeOK'
  <2>1. lease[s].job \in Jobs /\ lease[s].token \in Nat
    BY <1>6, LeaseJob DEF HandlerReturns
  <2>2. CASE UNCHANGED <<row, attempt>>
    BY <1>6, <1>a, <2>2 DEF HandlerReturns, TypeOK
  <2>3. CASE Complete(s) /\ ~UNCHANGED <<row, attempt>>
    <3> DEFINE j == lease[s].job
               t == lease[s].token
               c == row[j].cancel
    <3>1. CompletedStatus(c) \in Status \cap Outcome
      BY DEF CompletedStatus, Status, Terminal, Outcome
    <3>2. Stop(row[j], CompletedStatus(c)) \in Row
      BY <2>1, <3>1, StopType DEF TypeOK
    <3>3. [Stop(row[j], CompletedStatus(c)) EXCEPT !.ref = IF c THEN 0 ELSE t] \in Row
      BY <2>1, <3>2 DEF Row
    <3>4. Finish(j, t, CompletedStatus(c)) \in [Numbers(j) -> Attempt]
      BY <2>1, <3>1, FinishType
    <3>5. /\ row' = [row EXCEPT ![j] =
                [Stop(row[j], CompletedStatus(c)) EXCEPT !.ref = IF c THEN 0 ELSE t]]
          /\ attempt' = [attempt EXCEPT ![j] = Finish(j, t, CompletedStatus(c))]
      BY <2>3 DEF Complete
    <3> HIDE DEF j, t, c
    <3> QED BY <1>6, <1>a, <2>1, <3>3, <3>4, <3>5 DEF HandlerReturns, TypeOK, j
  <2> QED BY <1>6, <2>2, <2>3 DEF HandlerReturns
<1>7. ASSUME NEW s \in Slots, HandlerThrows(s) PROVE TypeOK'
  <2>1. lease[s].job \in Jobs /\ lease[s].token \in Nat
    BY <1>7, LeaseJob DEF HandlerThrows
  <2>2. CASE UNCHANGED <<row, attempt>>
    BY <1>7, <1>a, <2>2 DEF HandlerThrows, TypeOK
  <2>3. CASE Fail(s) /\ ~UNCHANGED <<row, attempt>>
    <3> DEFINE j == lease[s].job
               t == lease[s].token
               o == IF row[j].cancel THEN "cancelled" ELSE "failed"
    <3>1. PICK f \in FailedRow(row[j], j) : IsSafe(f.at) /\ row' = [row EXCEPT ![j] = f]
      BY <2>3 DEF Fail
    <3>2. row[j] \in Row
      BY <2>1 DEF TypeOK
    <3>3. f \in Row
      <4>1. \A st \in {"cancelled", "dead-letter", "scheduled"} : Stop(row[j], st) \in Row
        BY <3>2, StopType DEF Status, Terminal
      <4>2. PICK st \in {"cancelled", "dead-letter", "scheduled"} :
              \E x : f = [Stop(row[j], st) EXCEPT !.at = x]
        BY DEF FailedRow
      <4>3. PICK x : f = [Stop(row[j], st) EXCEPT !.at = x]
        BY <4>2
      <4>4. f.at = x
        BY <4>1, <4>3 DEF Row
      <4> QED BY <3>1, <4>1, <4>3, <4>4 DEF Row, IsSafe
    <3>4. Finish(j, t, o) \in [Numbers(j) -> Attempt]
      BY <2>1, FinishType DEF Outcome
    <3>5. attempt' = [attempt EXCEPT ![j] = Finish(j, t, o)]
      BY <2>3 DEF Fail
    <3> QED BY <1>7, <1>a, <2>1, <3>1, <3>3, <3>4, <3>5 DEF HandlerThrows, TypeOK
  <2> QED BY <1>7, <2>2, <2>3 DEF HandlerThrows
<1>8. ASSUME NEW s \in Slots, BackoffOverflow(s) PROVE TypeOK'
  BY <1>8, <1>a DEF BackoffOverflow, TypeOK
<1>9. ASSUME NEW w \in Workers, Drain(w) PROVE TypeOK'
  BY <1>9 DEF Drain, TypeOK
<1>10. ASSUME NEW w \in Workers, Crash(w) PROVE TypeOK'
  BY <1>10, <1>a DEF Crash, TypeOK
<1>11. CASE Tick
  BY <1>11 DEF Tick, TypeOK, IsSafe
<1>12. CASE UNCHANGED vars
  BY <1>12 DEF vars, TypeOK
<1> QED BY <1>1, <1>2, <1>3, <1>4, <1>5, <1>6, <1>7, <1>8, <1>9, <1>10, <1>11, <1>12 DEF Next

\* Every reachable state of the queue is well-formed: no timestamp leaves the
\* safe-integer range, no row, attempt or lease is malformed.
THEOREM TypeCorrect == Spec => []TypeOK
BY InitType, NextType, PTL DEF Spec

-----------------------------------------------------------------------------
(* The jobs and job_attempts tables agree.  AttemptsAgree is inductive     *)
(* together with TypeOK; it is proved job by job.                          *)

\* The fields of a row that the agreement of the two tables depends on.
SameRun(r, q) == r.count = q.count /\ r.token = q.token

\* Ending the current attempt of a running job writes its outcome and no other.
LEMMA FinishOutcome ==
  ASSUME TypeOK, AttemptsAgree, NEW j \in Jobs, row[j].status = "running",
         NEW o, NEW n \in Numbers(j)
  PROVE  /\ Finish(j, row[j].token, o)[n].token = attempt[j][n].token
         /\ Finish(j, row[j].token, o)[n].outcome =
              IF n = row[j].count THEN o ELSE attempt[j][n].outcome
<1> DEFINE a == attempt[j]
<1>1. row[j].count \in Nat /\ a \in [Numbers(j) -> Attempt] /\ n \in 1..MaxAttempts[j]
  BY JobQueueAssumption DEF TypeOK, Row, Numbers
<1>2. Consistent(row[j], a, MaxAttempts[j])
  BY DEF AttemptsAgree
<1>3. IsOpen(j, n, row[j].token) <=> n = row[j].count
  BY <1>1, <1>2 DEF IsOpen, Consistent
<1>4. Finish(j, row[j].token, o)[n] =
        IF n = row[j].count THEN [a[n] EXCEPT !.outcome = o] ELSE a[n]
  BY <1>3 DEF Finish
<1> QED BY <1>1, <1>4 DEF Attempt

\* Ending the current attempt of a running job keeps its tables in agreement.
LEMMA FinishConsistent ==
  ASSUME TypeOK, AttemptsAgree, NEW j \in Jobs, row[j].status = "running",
         NEW o \in {"succeeded", "failed", "cancelled"},
         NEW r, SameRun(r, row[j]), r.status \notin {"running", "absent"}
  PROVE  Consistent(r, Finish(j, row[j].token, o), MaxAttempts[j])
<1> DEFINE M == MaxAttempts[j]
           a == attempt[j]
           f == Finish(j, row[j].token, o)
<1>1. M \in Nat /\ row[j].count \in Nat
  BY JobQueueAssumption DEF TypeOK, Row
<1>2. Consistent(row[j], a, M)
  BY DEF AttemptsAgree
<1>3. \A n \in 1..M : /\ f[n].token = a[n].token
                      /\ f[n].outcome = IF n = row[j].count THEN o ELSE a[n].outcome
  BY FinishOutcome DEF Numbers
<1> HIDE DEF f
<1> QED BY <1>1, <1>2, <1>3 DEF Consistent, SameRun, f

\* The recovery sweep keeps the tables of every job in agreement.
LEMMA RecoveredConsistent ==
  ASSUME TypeOK, AttemptsAgree, NEW j \in Jobs
  PROVE  Consistent(Recovered(j), RecoveredAttempt(j), MaxAttempts[j])
<1>1. CASE ~Expired(j)
  BY <1>1 DEF Recovered, RecoveredAttempt, AttemptsAgree
<1>2. CASE Expired(j)
  <2>1. row[j] \in Row /\ row[j].status = "running"
    BY <1>2 DEF TypeOK, Expired
  <2>2. /\ SameRun(Recovered(j), row[j])
        /\ Recovered(j).status \notin {"running", "absent"}
    BY <1>2, <2>1 DEF Recovered, Stop, SameRun, Row, RecoverStatus
  <2> QED BY <1>2, <2>1, <2>2, FinishConsistent DEF RecoveredAttempt
<1> QED BY <1>1, <1>2

\* Empty tables agree.
LEMMA InitAgree == Init => AttemptsAgree
BY JobQueueAssumption
   DEF Init, AttemptsAgree, Consistent, AbsentRow, NoAttempt, Numbers

\* Every method of the queue keeps its two tables in agreement.
LEMMA NextAgree == TypeOK /\ AttemptsAgree /\ [Next]_vars => AttemptsAgree'
<1> SUFFICES ASSUME TypeOK, AttemptsAgree, [Next]_vars PROVE AttemptsAgree'
  OBVIOUS
<1> USE JobQueueAssumption
<1>a. ASSUME NEW j \in Jobs, attempt' = attempt,
             \A k \in Jobs : k # j => row'[k] = row[k],
             SameRun(row'[j], row[j]),
             row'[j].status = "running" <=> row[j].status = "running",
             row'[j].status # "absent"
      PROVE  AttemptsAgree'
  BY <1>a DEF AttemptsAgree, Consistent, SameRun
<1>1. ASSUME NEW j \in Jobs, NEW d \in Delays, Enqueue(j, d) PROVE AttemptsAgree'
  <2>1. row[j].count = 0 /\ row[j].token = 0 /\ row[j].status # "running"
    BY <1>1 DEF Enqueue, AttemptsAgree, Consistent
  <2>2. SameRun(row'[j], row[j]) /\ row'[j].status \notin {"running", "absent"}
    BY <1>1, <2>1 DEF Enqueue, TypeOK, SameRun, AbsentRow
  <2>3. attempt' = attempt /\ \A k \in Jobs : k # j => row'[k] = row[k]
    BY <1>1 DEF Enqueue, TypeOK
  <2> QED BY <1>a, <2>1, <2>2, <2>3
<1>2. ASSUME NEW j \in Jobs, Cancel(j) PROVE AttemptsAgree'
  <2>1. row[j] \in Row
    BY DEF TypeOK
  <2> QED BY <1>2, <1>a, <2>1 DEF Cancel, Cancellable, SameRun, TypeOK, Row
<1>3. ASSUME NEW s \in Slots, NEW j \in Jobs, Claim(s, j) PROVE AttemptsAgree'
  <2> DEFINE r == Recovered(j)
             M == MaxAttempts[j]
             n == r.count + 1
             a == RecoveredAttempt(j)
             q == [worker |-> WorkerOf[s], token |-> NextToken(r), outcome |-> "open"]
  <2>1. \A k \in Jobs : Consistent(Recovered(k), RecoveredAttempt(k), MaxAttempts[k])
    BY RecoveredConsistent
  <2>2. r \in Row /\ M \in Nat /\ a \in [1..M -> Attempt]
    BY RecoveredType DEF Numbers
  <2>3. r.status \in {"queued", "scheduled"} /\ r.count < M
    BY <1>3 DEF Claim, First, Claimable
  <2>4. /\ row'[j].status = "running" /\ row'[j].count = n /\ row'[j].token = NextToken(r)
        /\ attempt'[j] = [a EXCEPT ![n] = q]
    BY <1>3, <2>2 DEF Claim, Row
  <2>5. Consistent(row'[j], attempt'[j], M)
    <3>1. n \in 1..M /\ NextToken(r) = n
      BY <2>1, <2>2, <2>3 DEF Row, NextToken, Consistent
    <3>2. \A m \in 1..M : attempt'[j][m] = IF m = n THEN q ELSE a[m]
      BY <2>2, <2>4, <3>1
    <3>3. Consistent(r, a, M)
      BY <2>1
    <3> HIDE DEF r, a, n, M
    <3>4. \A m \in 1..M : /\ attempt'[j][m].outcome = "none" <=> m > n
                          /\ attempt'[j][m].outcome # "none" => attempt'[j][m].token = m
                          /\ attempt'[j][m].outcome = "open" <=> m = n
      BY <2>2, <2>3, <3>1, <3>2, <3>3 DEF Consistent, n, Row
    <3> QED BY <2>2, <2>4, <3>1, <3>4 DEF Consistent
  <2>6. \A k \in Jobs : k # j => row'[k] = Recovered(k) /\ attempt'[k] = RecoveredAttempt(k)
    BY <1>3 DEF Claim
  <2> QED BY <2>1, <2>5, <2>6 DEF AttemptsAgree
<1>4. ASSUME NEW s \in Slots, ClaimNothing(s) PROVE AttemptsAgree'
  BY <1>4, RecoveredConsistent DEF ClaimNothing, AttemptsAgree
<1>5. ASSUME NEW s \in Slots, Beat(s) PROVE AttemptsAgree'
  <2>1. lease[s].job \in Jobs
    BY <1>5, LeaseJob DEF Beat
  <2>2. CASE UNCHANGED row
    BY <1>5, <2>2 DEF Beat, AttemptsAgree
  <2>3. CASE Owns(s) /\ row' = [row EXCEPT ![lease[s].job].expires = now + LeaseMs]
    <3>1. row[lease[s].job] \in Row /\ row[lease[s].job].status = "running"
      BY <2>1, <2>3 DEF TypeOK, Owns
    <3> QED BY <1>5, <1>a, <2>1, <2>3, <3>1 DEF Beat, SameRun, TypeOK, Row
  <2> QED BY <1>5, <2>2, <2>3 DEF Beat
<1>b. ASSUME NEW j \in Jobs, row[j].status = "running",
             NEW r, NEW o \in {"succeeded", "failed", "cancelled"},
             SameRun(r, row[j]), r.status \notin {"running", "absent"},
             row' = [row EXCEPT ![j] = r],
             attempt' = [attempt EXCEPT ![j] = Finish(j, row[j].token, o)]
      PROVE  AttemptsAgree'
  <2>1. Consistent(r, Finish(j, row[j].token, o), MaxAttempts[j])
    BY <1>b, FinishConsistent
  <2> QED BY <1>b, <2>1 DEF AttemptsAgree, TypeOK
<1>6. ASSUME NEW s \in Slots, HandlerReturns(s) PROVE AttemptsAgree'
  <2>1. lease[s].job \in Jobs
    BY <1>6, LeaseJob DEF HandlerReturns
  <2>2. CASE UNCHANGED <<row, attempt>>
    BY <2>2 DEF AttemptsAgree
  <2>3. CASE Complete(s) /\ Owns(s)
    <3> DEFINE j == lease[s].job
               o == CompletedStatus(row[j].cancel)
               r == [Stop(row[j], o) EXCEPT !.ref = IF row[j].cancel THEN 0 ELSE lease[s].token]
    <3>1. row[j].status = "running" /\ row[j].token = lease[s].token /\ row[j] \in Row
      BY <2>1, <2>3 DEF Owns, TypeOK
    <3>2. o \in {"succeeded", "failed", "cancelled"}
      BY DEF CompletedStatus
    <3>3. SameRun(r, row[j]) /\ r.status = o
      BY <3>1 DEF SameRun, Stop, Row
    <3>4. /\ row' = [row EXCEPT ![j] = r]
          /\ attempt' = [attempt EXCEPT ![j] = Finish(j, row[j].token, o)]
      BY <2>3, <3>1 DEF Complete
    <3> HIDE DEF j, o, r
    <3> QED BY <1>b, <2>1, <3>1, <3>2, <3>3, <3>4 DEF j
  <2> QED BY <1>6, <2>2, <2>3 DEF HandlerReturns, Complete
<1>7. ASSUME NEW s \in Slots, HandlerThrows(s) PROVE AttemptsAgree'
  <2>1. lease[s].job \in Jobs
    BY <1>7, LeaseJob DEF HandlerThrows
  <2>2. CASE UNCHANGED <<row, attempt>>
    BY <2>2 DEF AttemptsAgree
  <2>3. CASE Fail(s) /\ Owns(s)
    <3> DEFINE j == lease[s].job
               o == IF row[j].cancel THEN "cancelled" ELSE "failed"
    <3>1. row[j].status = "running" /\ row[j].token = lease[s].token /\ row[j] \in Row
      BY <2>1, <2>3 DEF Owns, TypeOK
    <3>2. PICK r \in FailedRow(row[j], j) : row' = [row EXCEPT ![j] = r]
      BY <2>3 DEF Fail
    <3>3. SameRun(r, row[j]) /\ r.status \notin {"running", "absent"}
      <4>1. PICK st \in {"cancelled", "dead-letter", "scheduled"} :
              \E x : r = [Stop(row[j], st) EXCEPT !.at = x]
        BY DEF FailedRow
      <4> QED BY <3>1, <4>1 DEF SameRun, Stop, Row
    <3>4. attempt' = [attempt EXCEPT ![j] = Finish(j, row[j].token, o)]
      BY <2>3, <3>1 DEF Fail
    <3> QED BY <1>b, <2>1, <3>1, <3>2, <3>3, <3>4
  <2> QED BY <1>7, <2>2, <2>3 DEF HandlerThrows, Fail
<1>8. ASSUME NEW s \in Slots, BackoffOverflow(s) PROVE AttemptsAgree'
  BY <1>8 DEF BackoffOverflow, AttemptsAgree
<1>9. CASE UNCHANGED <<row, attempt>>
  BY <1>9 DEF AttemptsAgree
<1> QED BY <1>1, <1>2, <1>3, <1>4, <1>5, <1>6, <1>7, <1>8, <1>9
        DEF Next, vars, Drain, Crash, Tick

\* The jobs and job_attempts tables always agree, so the consistency errors
\* of claim, complete and fail are unreachable and no job is ever tried more
\* often than max_attempts.
THEOREM TablesAgree == Spec => []AttemptsAgree
<1>1. Init => TypeOK /\ AttemptsAgree
  BY InitType, InitAgree
<1>2. TypeOK /\ AttemptsAgree /\ [Next]_vars => (TypeOK /\ AttemptsAgree)'
  BY NextType, NextAgree
<1> QED BY <1>1, <1>2, PTL DEF Spec

-----------------------------------------------------------------------------
(* A job succeeds with the result of one attempt.  Inductive together with *)
(* the agreement of the tables, again job by job.                          *)

\* The result of a job with row r and attempts a
OneResult(r, a, max) ==
  /\ r.status = "succeeded" => r.ref \in 1..max /\ a[r.ref].outcome = "succeeded"
  /\ \A n \in 1..max : a[n].outcome = "succeeded" => r.status = "succeeded" /\ r.ref = n

\* Closing the current attempt otherwise than with success gives no result.
LEMMA FinishNoResult ==
  ASSUME TypeOK, AttemptsAgree, ResultOfOneAttempt, NEW j \in Jobs, row[j].status = "running",
         NEW o \in {"failed", "cancelled"}, NEW r, r.status # "succeeded"
  PROVE  OneResult(r, Finish(j, row[j].token, o), MaxAttempts[j])
<1>1. \A n \in Numbers(j) : Finish(j, row[j].token, o)[n].outcome =
        IF n = row[j].count THEN o ELSE attempt[j][n].outcome
  BY FinishOutcome
<1> QED BY <1>1 DEF OneResult, ResultOfOneAttempt, Numbers

\* The recovery sweep gives no job a result.
LEMMA RecoveredResult ==
  ASSUME TypeOK, AttemptsAgree, ResultOfOneAttempt, NEW j \in Jobs
  PROVE  OneResult(Recovered(j), RecoveredAttempt(j), MaxAttempts[j])
<1>1. CASE ~Expired(j)
  BY <1>1 DEF Recovered, RecoveredAttempt, ResultOfOneAttempt, OneResult, Numbers
<1>2. CASE Expired(j)
  <2>1. row[j] \in Row /\ row[j].status = "running"
    BY <1>2 DEF TypeOK, Expired
  <2>2. Recovered(j).status # "succeeded"
    BY <1>2, <2>1 DEF Recovered, Stop, Row, RecoverStatus
  <2> QED BY <1>2, <2>1, <2>2, FinishNoResult DEF RecoveredAttempt
<1> QED BY <1>1, <1>2

\* Every method of the queue keeps a job to one result.
LEMMA NextResult ==
  TypeOK /\ AttemptsAgree /\ ResultOfOneAttempt /\ [Next]_vars => ResultOfOneAttempt'
<1> SUFFICES ASSUME TypeOK, AttemptsAgree, ResultOfOneAttempt, [Next]_vars, NEW k \in Jobs
             PROVE  OneResult(row'[k], attempt'[k], MaxAttempts[k])
  BY DEF ResultOfOneAttempt, OneResult, Numbers
<1> USE JobQueueAssumption
<1>0. /\ row[k] \in Row /\ row \in [Jobs -> Row] /\ row[k].count \in Nat
      /\ DOMAIN attempt = Jobs /\ OneResult(row[k], attempt[k], MaxAttempts[k])
  BY DEF TypeOK, Row, ResultOfOneAttempt, OneResult, Numbers
<1>a. ASSUME attempt'[k] = attempt[k],
             \/ row'[k].status = row[k].status /\ row'[k].ref = row[k].ref
             \/ row'[k].status # "succeeded" /\ row[k].status # "succeeded"
      PROVE  OneResult(row'[k], attempt'[k], MaxAttempts[k])
  BY <1>0, <1>a DEF OneResult
<1>1. ASSUME NEW j \in Jobs, NEW d \in Delays, Enqueue(j, d)
      PROVE  OneResult(row'[k], attempt'[k], MaxAttempts[k])
  <2>1. CASE j # k
    BY <1>0, <1>1, <1>a, <2>1 DEF Enqueue
  <2>2. CASE j = k
    BY <1>0, <1>1, <1>a, <2>2 DEF Enqueue, AbsentRow
  <2> QED BY <2>1, <2>2
<1>2. ASSUME NEW j \in Jobs, Cancel(j)
      PROVE  OneResult(row'[k], attempt'[k], MaxAttempts[k])
  <2>1. CASE j # k
    BY <1>0, <1>2, <1>a, <2>1 DEF Cancel
  <2>2. CASE j = k
    BY <1>0, <1>2, <1>a, <2>2 DEF Cancel, Cancellable, Row
  <2> QED BY <2>1, <2>2
<1>3. ASSUME NEW s \in Slots, NEW j \in Jobs, Claim(s, j)
      PROVE  OneResult(row'[k], attempt'[k], MaxAttempts[k])
  <2>0. OneResult(Recovered(k), RecoveredAttempt(k), MaxAttempts[k])
    BY RecoveredResult
  <2>1. CASE j # k
    BY <1>3, <2>0, <2>1 DEF Claim
  <2>2. CASE j = k
    <3> DEFINE r == Recovered(k)
               a == RecoveredAttempt(k)
               q == [worker |-> WorkerOf[s], token |-> NextToken(r), outcome |-> "open"]
    <3>1. r \in Row /\ a \in [1..MaxAttempts[k] -> Attempt] /\ r.status # "succeeded"
      BY <1>3, <2>2, RecoveredType DEF Claim, First, Claimable, Numbers
    <3>2. row'[k].status = "running" /\ attempt'[k] = [a EXCEPT ![r.count + 1] = q]
      BY <1>3, <2>2, <3>1 DEF Claim, Row
    <3>3. \A n \in 1..MaxAttempts[k] : attempt'[k][n].outcome \in {"open", a[n].outcome}
      BY <3>1, <3>2
    <3> HIDE DEF r, a
    <3> QED BY <2>0, <3>1, <3>2, <3>3 DEF OneResult, r, a
  <2> QED BY <2>1, <2>2
<1>4. ASSUME NEW s \in Slots, ClaimNothing(s)
      PROVE  OneResult(row'[k], attempt'[k], MaxAttempts[k])
  BY <1>4, RecoveredResult DEF ClaimNothing
<1>5. ASSUME NEW s \in Slots, Beat(s)
      PROVE  OneResult(row'[k], attempt'[k], MaxAttempts[k])
  <2>1. row'[k].status = row[k].status /\ row'[k].ref = row[k].ref /\ attempt' = attempt
    BY <1>0, <1>5 DEF Beat, Row
  <2> QED BY <1>a, <2>1
<1>6. ASSUME NEW s \in Slots, HandlerReturns(s)
      PROVE  OneResult(row'[k], attempt'[k], MaxAttempts[k])
  <2>1. CASE row'[k] = row[k] /\ attempt'[k] = attempt[k]
    BY <1>a, <2>1
  <2>2. CASE ~(row'[k] = row[k] /\ attempt'[k] = attempt[k])
    <3> DEFINE o == CompletedStatus(row[k].cancel)
    <3>1. /\ k = lease[s].job /\ Owns(s)
          /\ row'[k] = [Stop(row[k], o) EXCEPT !.ref = IF row[k].cancel THEN 0 ELSE lease[s].token]
          /\ attempt'[k] = Finish(k, lease[s].token, o)
      BY <1>0, <1>6, <2>2 DEF HandlerReturns, Complete
    <3>2. /\ row[k].status = "running" /\ row[k].token = lease[s].token
          /\ row'[k].status = o /\ row'[k].ref = IF row[k].cancel THEN 0 ELSE row[k].token
      BY <1>0, <3>1 DEF Owns, Stop, Row
    <3>3. CASE row[k].cancel
      <4>1. o = "cancelled"
        BY <3>3 DEF CompletedStatus
      <4>2. row'[k].status # "succeeded" /\ attempt'[k] = Finish(k, row[k].token, "cancelled")
        BY <3>1, <3>2, <4>1
      <4> QED BY <3>2, <4>2, FinishNoResult
    <3>4. CASE ~row[k].cancel
      <4>1. Consistent(row[k], attempt[k], MaxAttempts[k])
        BY DEF AttemptsAgree
      <4>2. /\ row'[k].status = "succeeded" /\ row'[k].ref = row[k].count
            /\ row[k].count <= MaxAttempts[k]
        BY <3>2, <3>4, <4>1 DEF CompletedStatus, Consistent
      <4>3. \A n \in Numbers(k) : attempt'[k][n].outcome =
              IF n = row[k].count THEN "succeeded" ELSE attempt[k][n].outcome
        BY <3>1, <3>2, <3>4, FinishOutcome DEF CompletedStatus
      <4>4. row[k].count # 0
        <5>1. OneOpen(k, row[k].token)
          BY <1>6, <2>2, <3>1, <3>2 DEF HandlerReturns, Complete
        <5>2. PICK n \in 1..MaxAttempts[k] : attempt[k][n].outcome = "open"
          BY <5>1 DEF OneOpen, IsOpen, Numbers
        <5> QED BY <4>1, <5>2 DEF Consistent
      <4>5. row[k].count \in 1..MaxAttempts[k]
        BY <1>0, <4>2, <4>4
      <4> QED BY <1>0, <3>2, <4>2, <4>3, <4>5 DEF OneResult, Numbers
    <3> QED BY <3>3, <3>4
  <2> QED BY <2>1, <2>2
<1>7. ASSUME NEW s \in Slots, HandlerThrows(s)
      PROVE  OneResult(row'[k], attempt'[k], MaxAttempts[k])
  <2>1. CASE row'[k] = row[k] /\ attempt'[k] = attempt[k]
    BY <1>a, <2>1
  <2>2. CASE ~(row'[k] = row[k] /\ attempt'[k] = attempt[k])
    <3> DEFINE o == IF row[k].cancel THEN "cancelled" ELSE "failed"
    <3>1. /\ k = lease[s].job /\ Owns(s) /\ row'[k] \in FailedRow(row[k], k)
          /\ attempt'[k] = Finish(k, lease[s].token, o)
      BY <1>0, <1>7, <2>2 DEF HandlerThrows, Fail
    <3>2. row[k].status = "running" /\ row[k].token = lease[s].token
      BY <3>1 DEF Owns
    <3>3. row'[k].status # "succeeded"
      <4>1. PICK st \in {"cancelled", "dead-letter", "scheduled"} :
              \E x : row'[k] = [Stop(row[k], st) EXCEPT !.at = x]
        BY <3>1 DEF FailedRow
      <4> QED BY <1>0, <4>1 DEF Stop, Row
    <3> QED BY <3>1, <3>2, <3>3, FinishNoResult
  <2> QED BY <2>1, <2>2
<1>8. CASE UNCHANGED <<row, attempt>>
  BY <1>8, <1>a
<1> QED BY <1>1, <1>2, <1>3, <1>4, <1>5, <1>6, <1>7, <1>8
        DEF Next, vars, BackoffOverflow, Drain, Crash, Tick

\* However leases expire, are recovered and answered late, a job that succeeds does so
\* with the result of exactly one attempt.
THEOREM SucceedsOnce == Spec => []ResultOfOneAttempt
<1>1. Init => ResultOfOneAttempt
  BY DEF Init, ResultOfOneAttempt, AbsentRow, NoAttempt
<1> QED BY <1>1, NextResult, TypeCorrect, TablesAgree, PTL DEF Spec

-----------------------------------------------------------------------------
(* The queue implements JobLifecycle.  A step of the queue is looked at     *)
(* one job at a time, as what the caller of the queue sees of it.           *)

\* What a step does to the phase and the tries of job j
Moves(j) ==
  LET p == Phase(row[j].status)   q == Phase(row'[j].status)
      n == row[j].count           m == row'[j].count
  IN  \/ q = p /\ m = n
      \/ p = "absent" /\ q = "waiting" /\ m = 0
      \/ p \in {"waiting", "running"} /\ n < MaxAttempts[j] /\ q = "running" /\ m = n + 1
      \/ p = "running" /\ n < MaxAttempts[j] /\ q = "waiting" /\ m = n
      \/ p = "running" /\ q = "succeeded" /\ m = n
      \/ p = "running" /\ n = MaxAttempts[j] /\ q = "dead-letter" /\ m = n
      \/ p \in {"waiting", "running"} /\ q = "cancelled" /\ m = n

\* A move is a step of the lifecycle.
LEMMA MovesIsStep ==
  ASSUME NEW j \in Jobs, Moves(j)
  PROVE  Lifecycle!Step(j)
BY DEF Moves, Lifecycle!Step, Lifecycle!Become, Lifecycle!Submit, Lifecycle!Start,
       Lifecycle!Retry, Lifecycle!Succeed, Lifecycle!Bury, Lifecycle!Abandon

\* The end of an attempt in one of the statuses the queue may leave it in.
LEMMA StopMoves ==
  ASSUME TypeOK, AttemptsAgree, NEW j \in Jobs, row[j].status = "running",
         row'[j].count = row[j].count,
         \/ row'[j].status \in {"cancelled", "succeeded"}
         \/ row'[j].status = "dead-letter" /\ row[j].count >= MaxAttempts[j]
         \/ row'[j].status \in {"queued", "scheduled"} /\ row[j].count < MaxAttempts[j]
  PROVE  Moves(j)
<1>1. row[j].count \in Nat /\ MaxAttempts[j] \in Nat /\ row[j].count <= MaxAttempts[j]
  BY JobQueueAssumption DEF TypeOK, Row, AttemptsAgree, Consistent
<1> QED BY <1>1 DEF Moves, Phase

\* The sweep of claim ends the attempts of expired leases and nothing else.
LEMMA RecoveredMoves ==
  ASSUME TypeOK, AttemptsAgree, NEW j \in Jobs, row'[j] = Recovered(j)
  PROVE  Moves(j)
<1>1. CASE ~Expired(j)
  BY <1>1 DEF Recovered, Moves
<1>2. CASE Expired(j)
  <2>1. row[j] \in Row /\ row[j].status = "running" /\ MaxAttempts[j] \in Nat
    BY <1>2, JobQueueAssumption DEF TypeOK, Expired
  <2>2. row'[j].count = row[j].count /\ row'[j].status = RecoverStatus(j)
    BY <1>2, <2>1 DEF Recovered, Stop, Row
  <2>3. row[j].count \in Nat
    BY <2>1 DEF Row
  <2> QED BY <2>1, <2>2, <2>3, StopMoves DEF RecoverStatus
<1> QED BY <1>1, <1>2

\* Every step of the queue moves every job along its lifecycle, or not at all.
LEMMA NextMoves ==
  ASSUME TypeOK, AttemptsAgree, [Next]_vars, NEW k \in Jobs
  PROVE  Moves(k)
<1> USE JobQueueAssumption
<1>0. row[k] \in Row /\ row \in [Jobs -> Row] /\ MaxAttempts[k] \in Nat /\ row[k].count \in Nat
  BY DEF TypeOK, Row
<1>a. CASE row'[k] = row[k]
  BY <1>a DEF Moves
<1>1. ASSUME NEW j \in Jobs, NEW d \in Delays, Enqueue(j, d) PROVE Moves(k)
  <2>1. CASE j # k
    BY <1>0, <1>1, <1>a, <2>1 DEF Enqueue
  <2>2. CASE j = k
    BY <1>0, <1>1, <2>2 DEF Enqueue, Moves, Phase, AbsentRow
  <2> QED BY <2>1, <2>2
<1>2. ASSUME NEW j \in Jobs, Cancel(j) PROVE Moves(k)
  <2>1. CASE j # k
    BY <1>0, <1>2, <1>a, <2>1 DEF Cancel
  <2>2. CASE j = k
    BY <1>0, <1>2, <2>2 DEF Cancel, Cancellable, Moves, Phase, Row
  <2> QED BY <2>1, <2>2
<1>3. ASSUME NEW s \in Slots, NEW j \in Jobs, Claim(s, j) PROVE Moves(k)
  <2>1. CASE j # k
    BY <1>3, <2>1, RecoveredMoves DEF Claim
  <2>2. CASE j = k
    <3>1. /\ Recovered(k) \in Row /\ Recovered(k).status \in {"queued", "scheduled"}
          /\ Recovered(k).count < MaxAttempts[k]
      BY <1>3, <2>2, RecoveredType DEF Claim, First, Claimable
    <3>2. row'[k].status = "running" /\ row'[k].count = Recovered(k).count + 1
      BY <1>3, <2>2, <3>1 DEF Claim, Row
    <3>3. Recovered(k).count = row[k].count
      BY <1>0 DEF Recovered, Stop, Row
    <3>4. row[k].status \in {"queued", "scheduled", "running"}
      BY <3>1 DEF Recovered, Expired
    <3> QED BY <1>0, <3>1, <3>2, <3>3, <3>4 DEF Moves, Phase
  <2> QED BY <2>1, <2>2
<1>4. ASSUME NEW s \in Slots, ClaimNothing(s) PROVE Moves(k)
  BY <1>4, RecoveredMoves DEF ClaimNothing
<1>5. ASSUME NEW s \in Slots, Beat(s) PROVE Moves(k)
  <2>1. row'[k].status = row[k].status /\ row'[k].count = row[k].count
    BY <1>0, <1>5 DEF Beat, Row
  <2> QED BY <2>1 DEF Moves
<1>6. ASSUME NEW s \in Slots, HandlerReturns(s) PROVE Moves(k)
  <2>1. CASE row'[k] # row[k]
    <3>1. /\ k = lease[s].job /\ Owns(s)
          /\ row'[k] = [Stop(row[k], CompletedStatus(row[k].cancel)) EXCEPT
                          !.ref = IF row[k].cancel THEN 0 ELSE lease[s].token]
      BY <1>0, <1>6, <2>1 DEF HandlerReturns, Complete
    <3>2. /\ row[k].status = "running" /\ row'[k].count = row[k].count
          /\ row'[k].status \in {"cancelled", "succeeded"}
      BY <1>0, <3>1 DEF Owns, Stop, Row, CompletedStatus
    <3> QED BY <3>2, StopMoves
  <2> QED BY <1>a, <2>1
<1>7. ASSUME NEW s \in Slots, HandlerThrows(s) PROVE Moves(k)
  <2>1. CASE row'[k] # row[k]
    <3>1. k = lease[s].job /\ Owns(s) /\ row'[k] \in FailedRow(row[k], k)
      BY <1>0, <1>7, <2>1 DEF HandlerThrows, Fail
    <3>2. row[k].status = "running"
      BY <3>1 DEF Owns
    <3>3. PICK st \in {"cancelled", "dead-letter", "scheduled"} :
            /\ \E x : row'[k] = [Stop(row[k], st) EXCEPT !.at = x]
            /\ st = "dead-letter" => row[k].count >= MaxAttempts[k]
            /\ st = "scheduled" => row[k].count < MaxAttempts[k]
      <4>1. CASE row[k].cancel
        BY <3>1, <4>1 DEF FailedRow
      <4>2. CASE ~row[k].cancel /\ row[k].count >= MaxAttempts[k]
        BY <3>1, <4>2 DEF FailedRow
      <4>3. CASE ~row[k].cancel /\ ~(row[k].count >= MaxAttempts[k])
        <5>1. \E x : row'[k] = [Stop(row[k], "scheduled") EXCEPT !.at = x]
          BY <3>1, <4>3 DEF FailedRow
        <5>2. row[k].count < MaxAttempts[k]
          BY <1>0, <4>3
        <5> QED BY <5>1, <5>2
      <4> QED BY <4>1, <4>2, <4>3
    <3>4. row'[k].count = row[k].count /\ row'[k].status = st
      BY <1>0, <3>3 DEF Stop, Row
    <3> QED BY <3>2, <3>3, <3>4, StopMoves
  <2> QED BY <1>a, <2>1
<1>8. CASE UNCHANGED row
  BY <1>8, <1>a
<1> QED BY <1>1, <1>2, <1>3, <1>4, <1>5, <1>6, <1>7, <1>8
        DEF Next, vars, BackoffOverflow, Drain, Crash, Tick

\* Leases, tokens, crashes and recovery never show a caller anything but one bounded,
\* linear life per job.
THEOREM RefinesLifecycle == Spec => ImplementsLifecycle
<1>1. Init => Lifecycle!Init
  BY DEF Init, Lifecycle!Init, Phase, AbsentRow
<1>2. TypeOK /\ AttemptsAgree /\ [Next]_vars =>
        [Lifecycle!Next]_<<[j \in Jobs |-> Phase(row[j].status)], [j \in Jobs |-> row[j].count]>>
  BY NextMoves, MovesIsStep DEF Lifecycle!Next
<1> QED BY <1>1, <1>2, TypeCorrect, TablesAgree, PTL
        DEF Spec, ImplementsLifecycle, Lifecycle!Spec
=============================================================================
