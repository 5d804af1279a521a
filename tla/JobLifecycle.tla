---------------------------- MODULE JobLifecycle ----------------------------
(***************************************************************************)
(* What the job queue promises its callers, without leases, tokens, clocks *)
(* or workers: a job waits, is tried at most MaxAttempts times, and ends   *)
(* in exactly one terminal status.  One step may move several jobs, since  *)
(* one claim recovers every expired lease.                                 *)
(***************************************************************************)
EXTENDS Naturals

CONSTANTS Jobs, MaxAttempts

VARIABLES
  phase,   \* phase[j]: the status of j, "waiting" for scheduled and queued
  tries    \* tries[j]: how often j was started

Become(j, p, n) == phase'[j] = p /\ tries'[j] = n

Submit(j)  == phase[j] = "absent"  /\ Become(j, "waiting", 0)
Start(j)   == /\ phase[j] = "waiting"
              /\ tries[j] < MaxAttempts[j]
              /\ Become(j, "running", tries[j] + 1)
\* A failed or lost attempt with budget left: back to waiting, or at once restarted
Retry(j)   == /\ phase[j] = "running"
              /\ tries[j] < MaxAttempts[j]
              /\ \/ Become(j, "waiting", tries[j])
                 \/ Become(j, "running", tries[j] + 1)
Succeed(j) == phase[j] = "running" /\ Become(j, "succeeded", tries[j])
Bury(j)    == /\ phase[j] = "running"
              /\ tries[j] = MaxAttempts[j]
              /\ Become(j, "dead-letter", tries[j])
Abandon(j) == /\ phase[j] \in {"waiting", "running"}
              /\ Become(j, "cancelled", tries[j])

Step(j) == \/ Submit(j) \/ Start(j) \/ Retry(j) \/ Succeed(j) \/ Bury(j) \/ Abandon(j)
           \/ Become(j, phase[j], tries[j])

Init == /\ phase = [j \in Jobs |-> "absent"]
        /\ tries = [j \in Jobs |-> 0]

Next == \A j \in Jobs : Step(j)

Spec == Init /\ [][Next]_<<phase, tries>>
=============================================================================
