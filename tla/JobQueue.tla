------------------------------ MODULE JobQueue ------------------------------
(***************************************************************************)
(* The durable job queue (autonomy/jobs) and the worker loop that drives   *)
(* it (workers/jobs).                                                      *)
(*                                                                         *)
(* The queue is one SQLite table of jobs and one append-only table of      *)
(* attempts; every method runs in one BEGIN IMMEDIATE transaction and is   *)
(* one action here.  Workers are separate processes sharing the file, each *)
(* running several slots (JobWorker's concurrency) under ONE worker id, so *)
(* the fencing token, not the worker id, tells two leases apart.           *)
(***************************************************************************)
EXTENDS Integers, FiniteSets

CONSTANTS
  Jobs,         \* job identities; a job is its idempotency key
  NoJob,        \* the job of a slot without a lease
  Workers,      \* worker processes, each with one worker id
  NoWorker,     \* worker_id NULL
  Slots,        \* concurrent runOnce() calls, over all workers
  WorkerOf,     \* the worker a slot belongs to
  MaxAttempts,  \* max_attempts of each job
  LeaseMs,      \* leaseMs of every claim and heartbeat
  BackoffMs,    \* backoff_ms
  Jitter,       \* jitter: 0 or 1 (a retry waits up to (1 + Jitter) * delay)
  Delays,       \* how far ahead of now a job may be scheduled
  Drainable,    \* workers that may be asked to stop
  MaxSafe,      \* Number.MAX_SAFE_INTEGER
  MaxBeats      \* bound on the heartbeats of one lease

ASSUME JobQueueAssumption ==
  /\ NoJob \notin Jobs
  /\ NoWorker \notin Workers
  /\ WorkerOf \in [Slots -> Workers]
  /\ MaxAttempts \in [Jobs -> Nat \ {0}]
  /\ LeaseMs \in Nat \ {0}
  /\ BackoffMs \in Nat
  /\ Jitter \in {0, 1}
  /\ Delays \subseteq Nat
  /\ Drainable \subseteq Workers
  /\ MaxSafe \in Nat
  /\ MaxBeats \in Nat

VARIABLES
  now,       \* the clock every process reads
  row,       \* row[j]: the row of j in jobs
  attempt,   \* attempt[j][n]: the row of j's n-th attempt in job_attempts
  lease,     \* lease[s]: the Lease object slot s is working under
  draining   \* workers whose queue object is draining

vars == <<now, row, attempt, lease, draining>>

Terminal == {"succeeded", "cancelled", "dead-letter"}
Status   == {"absent", "scheduled", "queued", "running"} \cup Terminal
Outcome  == {"none", "open", "succeeded", "failed", "cancelled"}

Row     == [status : Status, at : 0..MaxSafe, created : 0..MaxSafe, count : Nat,
            worker : Workers \cup {NoWorker}, token : Nat, expires : 0..MaxSafe,
            cancel : BOOLEAN, ref : Nat]
Attempt == [worker : Workers \cup {NoWorker}, token : Nat, outcome : Outcome]
Lease   == [job : Jobs \cup {NoJob}, token : Nat, aborted : BOOLEAN, beats : 0..MaxBeats]

AbsentRow == [status |-> "absent", at |-> 0, created |-> 0, count |-> 0,
              worker |-> NoWorker, token |-> 0, expires |-> 0,
              cancel |-> FALSE, ref |-> 0]
NoAttempt == [worker |-> NoWorker, token |-> 0, outcome |-> "none"]
NoLease   == [job |-> NoJob, token |-> 0, aborted |-> FALSE, beats |-> 0]

\* Number.isSafeInteger(t) && t >= 0
IsSafe(t) == t \in 0..MaxSafe

Numbers(j) == 1..MaxAttempts[j]
Idle(s)    == lease[s].job = NoJob

-----------------------------------------------------------------------------
(* What the SQL statements compute.                                        *)

\* UPDATE job_attempts ... WHERE job_id=? AND fencing_token=? AND finished_at IS NULL
IsOpen(j, n, t) == attempt[j][n].token = t /\ attempt[j][n].outcome = "open"

\* changes === 1: exactly one attempt of token t is still unfinished
OneOpen(j, t) == \E n \in Numbers(j) : /\ IsOpen(j, n, t)
                                       /\ \A m \in Numbers(j) : IsOpen(j, m, t) => m = n

Finish(j, t, o) ==
  [n \in Numbers(j) |-> IF IsOpen(j, n, t) THEN [attempt[j][n] EXCEPT !.outcome = o]
                                           ELSE attempt[j][n]]

\* The row after it stops running in status st
Stop(r, st) == [r EXCEPT !.status = st, !.worker = NoWorker, !.expires = 0]

ExpiredUncancelled(j) == /\ row[j].status = "running"
                         /\ row[j].expires <= now
                         /\ ~row[j].cancel

\* claim's recovery loop: every running row whose lease has run out
Expired(j) == row[j].status = "running" /\ row[j].expires <= now

RecoverOneMore(j) ==
  IF row[j].cancel THEN "cancelled"
  ELSE IF row[j].count > MaxAttempts[j] THEN "dead-letter" ELSE "queued"

RecoverStatus(j) ==
  IF row[j].cancel THEN "cancelled"
  ELSE IF row[j].count >= MaxAttempts[j] THEN "dead-letter" ELSE "queued"

Recovered(j) == IF Expired(j) THEN Stop(row[j], RecoverStatus(j)) ELSE row[j]

\* Fault: the sweep forgets the attempts table
RecoveredRowOnly(j) == attempt[j]

RecoveredAttempt(j) ==
  IF Expired(j)
  THEN Finish(j, row[j].token, IF row[j].cancel THEN "cancelled" ELSE "failed")
  ELSE attempt[j]

\* The rows claim may pick once the expired ones are recovered
Claimable(j) ==
  LET r == Recovered(j)
  IN  /\ ~r.cancel
      /\ r.status \in {"queued", "scheduled"}
      /\ r.at <= now
      /\ r.count < MaxAttempts[j]

\* fencing_token=fencing_token+1
NextToken(r) == r.token + 1

\* ORDER BY scheduled_at, created_at LIMIT 1
First(j) ==
  /\ Claimable(j)
  /\ \A k \in Jobs : Claimable(k) =>
       \/ row[j].at < row[k].at
       \/ row[j].at = row[k].at /\ row[j].created <= row[k].created

\* The predicate complete, fail and heartbeat share: this lease still owns the job
Owns(s) ==
  LET r == row[lease[s].job]
  IN  /\ r.status = "running"
      /\ r.worker = WorkerOf[s]
      /\ r.token = lease[s].token
      /\ r.expires > now

-----------------------------------------------------------------------------
(* JobQueue's methods.                                                     *)

Init ==
  /\ now = 0
  /\ row = [j \in Jobs |-> AbsentRow]
  /\ attempt = [j \in Jobs |-> [n \in Numbers(j) |-> NoAttempt]]
  /\ lease = [s \in Slots |-> NoLease]
  /\ draining = {}

\* enqueue: a second call with the key of an existing job changes nothing
\* (ON CONFLICT DO NOTHING), so only the first insertion is a step.
Enqueue(j, d) ==
  /\ row[j].status = "absent"
  /\ IsSafe(now + d)
  /\ row' = [row EXCEPT ![j] = [AbsentRow EXCEPT
       !.status = IF d > 0 THEN "scheduled" ELSE "queued",
       !.at = now + d, !.created = now]]
  /\ UNCHANGED <<now, attempt, lease, draining>>

Cancellable(j) == row[j].status \in {"scheduled", "queued", "running"}

\* cancel: a waiting job is cancelled at once, a running one is flagged
Cancel(j) ==
  /\ Cancellable(j)
  /\ row' = [row EXCEPT ![j] =
       IF @.status = "running" THEN [@ EXCEPT !.cancel = TRUE]
       ELSE [@ EXCEPT !.status = "cancelled", !.cancel = TRUE]]
  /\ UNCHANGED <<now, attempt, lease, draining>>

\* The guards claim shares between its two outcomes.  A recovery that finds
\* no unfinished attempt throws and rolls everything back.
CanClaim(s) ==
  /\ Idle(s)
  /\ WorkerOf[s] \notin draining
  /\ IsSafe(now + LeaseMs)
  /\ \A j \in Jobs : Expired(j) => OneOpen(j, row[j].token)

\* claim finds a job: recovery, the fenced UPDATE and the new attempt row
Claim(s, j) ==
  LET r == Recovered(j)
      n == r.count + 1
  IN  /\ CanClaim(s)
      /\ First(j)
      /\ RecoveredAttempt(j)[n].outcome = "none"   \* UNIQUE(job_id, number)
      /\ row' = [k \in Jobs |-> IF k # j THEN Recovered(k) ELSE
           [r EXCEPT !.status = "running", !.worker = WorkerOf[s], !.token = NextToken(r),
                     !.expires = now + LeaseMs, !.count = n]]
      /\ attempt' = [k \in Jobs |-> IF k # j THEN RecoveredAttempt(k) ELSE
           [RecoveredAttempt(j) EXCEPT ![n] =
              [worker |-> WorkerOf[s], token |-> NextToken(r), outcome |-> "open"]]]
      /\ lease' = [lease EXCEPT ![s] = [NoLease EXCEPT !.job = j, !.token = NextToken(r)]]
      /\ UNCHANGED <<now, draining>>

\* claim finds nothing to run, but has recovered the expired leases
ClaimNothing(s) ==
  /\ CanClaim(s)
  /\ \A j \in Jobs : ~Claimable(j)
  /\ \E j \in Jobs : Expired(j)
  /\ row' = [j \in Jobs |-> Recovered(j)]
  /\ attempt' = [j \in Jobs |-> RecoveredAttempt(j)]
  /\ UNCHANGED <<now, lease, draining>>

\* Fault: complete ignores a requested cancellation
CompletedAnyway(c) == "succeeded"

CompletedStatus(c) == IF c THEN "cancelled" ELSE "succeeded"

\* complete: a cancelled job ends cancelled even though its handler finished
Complete(s) ==
  LET j == lease[s].job
      t == lease[s].token
      c == row[j].cancel
  IN  \/ /\ Owns(s)
         /\ OneOpen(j, t)
         /\ row' = [row EXCEPT ![j] =
              [Stop(@, CompletedStatus(c)) EXCEPT
                 !.ref = IF c THEN 0 ELSE t]]
         /\ attempt' = [attempt EXCEPT ![j] =Finish(j, t, CompletedStatus(c))]
      \/ /\ ~Owns(s)
         /\ UNCHANGED <<row, attempt>>

\* The delay before a retry: exponential in the attempt, widened by jitter
RetryDelay(r, x) == BackoffMs * 2 ^ (r.count - 1) + x

\* The statuses fail may leave a job in, with the time it is scheduled at
FailedRow(r, j) ==
  IF r.cancel THEN {[Stop(r, "cancelled") EXCEPT !.at = now]}
  ELSE IF r.count >= MaxAttempts[j] THEN {[Stop(r, "dead-letter") EXCEPT !.at = now]}
  ELSE {[Stop(r, "scheduled") EXCEPT !.at = now + RetryDelay(r, x)] :
          x \in 0..(Jitter * RetryDelay(r, 0))}

\* fail: reschedule, dead-letter the last attempt, or end a cancelled job
Fail(s) ==
  LET j == lease[s].job
      t == lease[s].token
      r == row[j]
  IN  \/ /\ Owns(s)
         /\ OneOpen(j, t)
         /\ \E f \in FailedRow(r, j) : /\ IsSafe(f.at)
                                       /\ row' = [row EXCEPT ![j] = f]
         /\ attempt' = [attempt EXCEPT ![j] =
              Finish(j, t, IF r.cancel THEN "cancelled" ELSE "failed")]
      \/ /\ ~Owns(s)
         /\ UNCHANGED <<row, attempt>>

-----------------------------------------------------------------------------
(* JobWorker: what a slot does with its lease.                             *)

\* The interval callback: notice cancellation or a lost lease, or extend it.
\* A heartbeat is refused once cancellation was requested.
Beat(s) ==
  LET j == lease[s].job
  IN  /\ ~Idle(s)
      /\ lease[s].beats < MaxBeats
      /\ IsSafe(now + LeaseMs)
      /\ \/ /\ Owns(s) /\ ~row[j].cancel
            /\ row' = [row EXCEPT ![j].expires = now + LeaseMs]
            /\ lease' = [lease EXCEPT ![s].beats = @ + 1]
         \/ /\ ~(Owns(s) /\ ~row[j].cancel)
            /\ lease' = [lease EXCEPT ![s].beats = @ + 1, ![s].aborted = TRUE]
            /\ UNCHANGED row
      /\ UNCHANGED <<now, attempt, draining>>

\* The handler resolves: complete, unless the run was aborted meanwhile
HandlerReturns(s) ==
  /\ ~Idle(s)
  /\ \/ ~lease[s].aborted /\ Complete(s)
     \/ lease[s].aborted /\ UNCHANGED <<row, attempt>>
  /\ lease' = [lease EXCEPT ![s] = NoLease]
  /\ UNCHANGED <<now, draining>>

\* The handler rejects, is unknown, or its payload no longer parses: fail
HandlerThrows(s) ==
  /\ ~Idle(s)
  /\ Fail(s)
  /\ lease' = [lease EXCEPT ![s] = NoLease]
  /\ UNCHANGED <<now, draining>>

\* fail throws "Retry backoff overflow": the transaction rolls back and the
\* rejected runOnce() ends the process, leaving its leases to run out
BackoffOverflow(s) ==
  LET j == lease[s].job
  IN  /\ ~Idle(s)
      /\ Owns(s)
      /\ \E f \in FailedRow(row[j], j) : ~IsSafe(f.at)
      /\ lease' = [u \in Slots |-> IF WorkerOf[u] = WorkerOf[s] THEN NoLease ELSE lease[u]]
      /\ draining' = draining \ {WorkerOf[s]}
      /\ UNCHANGED <<now, row, attempt>>

\* stop / beginDrain: no further claims; the running handlers finish
Drain(w) ==
  /\ w \in Drainable \ draining
  /\ draining' = draining \cup {w}
  /\ UNCHANGED <<now, row, attempt, lease>>

\* The process dies and restarts: its leases survive only in the table
Crash(w) ==
  /\ \E s \in Slots : WorkerOf[s] = w /\ ~Idle(s)
  /\ lease' = [s \in Slots |-> IF WorkerOf[s] = w THEN NoLease ELSE lease[s]]
  /\ draining' = draining \ {w}
  /\ UNCHANGED <<now, row, attempt>>

\* Time passes while some lease or schedule still waits for it
Tick ==
  /\ \E j \in Jobs : \/ row[j].status = "running" /\ row[j].expires > now
                     \/ row[j].status \in {"scheduled", "queued"} /\ row[j].at > now
  /\ IsSafe(now + 1)
  /\ now' = now + 1
  /\ UNCHANGED <<row, attempt, lease, draining>>

Next ==
  \/ \E j \in Jobs, d \in Delays : Enqueue(j, d)
  \/ \E j \in Jobs : Cancel(j)
  \/ \E s \in Slots, j \in Jobs : Claim(s, j)
  \/ \E s \in Slots : ClaimNothing(s)
  \/ \E s \in Slots : Beat(s)
  \/ \E s \in Slots : HandlerReturns(s)
  \/ \E s \in Slots : HandlerThrows(s)
  \/ \E s \in Slots : BackoffOverflow(s)
  \/ \E w \in Workers : Drain(w)
  \/ \E w \in Workers : Crash(w)
  \/ Tick

Spec == Init /\ [][Next]_vars

\* Time passes, every worker that is not draining keeps polling (run's loop),
\* and no handler runs for ever.
Fairness ==
  /\ WF_vars(Tick)
  /\ \A s \in Slots : /\ WF_vars((\E j \in Jobs : Claim(s, j)) \/ ClaimNothing(s))
                      /\ WF_vars(HandlerReturns(s) \/ HandlerThrows(s) \/ BackoffOverflow(s))

FairSpec == Spec /\ Fairness

-----------------------------------------------------------------------------
(* Properties.                                                             *)

\* Every row, attempt and lease is well-formed.
TypeOK ==
  /\ now \in 0..MaxSafe
  /\ row \in [Jobs -> Row]
  /\ DOMAIN attempt = Jobs
  /\ \A j \in Jobs : attempt[j] \in [Numbers(j) -> Attempt]
  /\ lease \in [Slots -> Lease]
  /\ draining \in SUBSET Workers

\* The two tables agree: the attempts of a job are numbered 1..attempt_count,
\* each carries its own number as fencing token, and the only unfinished one
\* is the current attempt of a running job.  So the consistency errors claim
\* and complete throw ("Expired attempt missing or already finalized",
\* "Attempt finalization failed") are unreachable, and the retry budget holds.
Consistent(r, a, max) ==
  /\ r.count <= max
  /\ r.token = r.count
  /\ r.status = "absent" => r.count = 0
  /\ \A n \in 1..max :
       /\ a[n].outcome = "none" <=> n > r.count
       /\ a[n].outcome # "none" => a[n].token = n
       /\ a[n].outcome = "open" <=> r.status = "running" /\ n = r.count

AttemptsAgree == \A j \in Jobs : Consistent(row[j], attempt[j], MaxAttempts[j])

\* A job succeeds with the result of exactly one attempt, and of that attempt.
ResultOfOneAttempt ==
  \A j \in Jobs :
    /\ row[j].status = "succeeded" =>
         /\ row[j].ref \in Numbers(j)
         /\ attempt[j][row[j].ref].outcome = "succeeded"
    /\ \A n \in Numbers(j) : attempt[j][n].outcome = "succeeded"
         => row[j].status = "succeeded" /\ row[j].ref = n

\* The queue implements JobLifecycle: leases, tokens, crashes and recovery
\* never show a caller anything but one bounded, linear life per job.
Phase(st) == IF st \in {"scheduled", "queued"} THEN "waiting" ELSE st

Lifecycle == INSTANCE JobLifecycle WITH
               phase <- [j \in Jobs |-> Phase(row[j].status)],
               tries <- [j \in Jobs |-> row[j].count]

ImplementsLifecycle == Lifecycle!Spec

\* "Retries are bounded, poison work is dead-lettered" (README): every job
\* that is enqueued eventually reaches a terminal status, whatever crashes.
EveryJobSettles ==
  \A j \in Jobs : (row[j].status # "absent") ~> (row[j].status \in Terminal)
=============================================================================
