----------------------------- MODULE Delegation -----------------------------
(***************************************************************************)
(* DelegationManager (autonomy/delegation): children run for parent        *)
(* sessions under limits of depth, children per parent and concurrency.    *)
(*                                                                         *)
(* #run awaits four times: the race of runtime and abort, the verifier,    *)
(* announce and archive.  A child's `phase` says which await it is in;     *)
(* cancellation, the deadline and other children interleave there.         *)
(***************************************************************************)
EXTENDS Integers, Sequences, FiniteSets, Filters

CONSTANTS
  Root,            \* the session delegations start from
  Children,        \* ids a spawn may be given
  MaxDepth, MaxChildren, Concurrency,
  Verifies         \* whether verifyResult is configured

\* The limits are numbers; the root is nobody's child
ASSUME DelegationAssumption ==
  /\ {MaxDepth, MaxChildren, Concurrency} \subseteq Nat
  /\ IsFiniteSet(Children) /\ Root \notin Children
  /\ Verifies \in BOOLEAN

VARIABLES
  child,           \* #entries
  queue,           \* #queue
  counts,          \* #counts
  active,          \* #active
  draining         \* #drain is waiting in the microtask queue

delVars == <<child, queue, counts, active, draining>>

Sessions == {Root} \cup Children
Terminal == {"completed", "failed", "cancelled"}

Absent == [status |-> "absent", parent |-> Root, depth |-> 0, phase |-> "none",
           aborted |-> FALSE, late |-> FALSE, counted |-> FALSE, announce |-> FALSE]

DelInit ==
  /\ child = [c \in Children |-> Absent]
  /\ queue = <<>>
  /\ counts = [s \in Sessions |-> 0]
  /\ active = 0
  /\ draining = FALSE

DepthOf(p) == IF p = Root THEN 0 ELSE child[p].depth

\* spawn: refused beyond the depth, beyond the parent's children, or without a
\* read-only capability (a refusal that changes nothing); else queued, #drain to come
Spawn(p, c) ==
  /\ child[c].status = "absent"
  /\ p # Root => child[p].status \notin {"absent", "queued"}
  /\ DepthOf(p) + 1 <= MaxDepth
  /\ counts[p] < MaxChildren
  /\ child' = [child EXCEPT ![c] =
       [Absent EXCEPT !.status = "queued", !.parent = p, !.depth = DepthOf(p) + 1, !.counted = TRUE]]
  /\ counts' = [counts EXCEPT ![p] = @ + 1]
  /\ queue' = Append(queue, c)
  /\ draining' = TRUE
  /\ UNCHANGED active

\* #finish up to its first await: settled, final status, the parent's count given
\* back.  Applied to the table of children and counts.
Settled(tab, c, status, announce) ==
  [tab EXCEPT ![c].status = status, ![c].counted = FALSE, ![c].announce = announce,
              ![c].phase = IF @ = "none" THEN "settled" ELSE "finishing"]

\* Fault: the count is given back to the root
Misreturned(cs, c) == [cs EXCEPT ![Root] = IF @ > 0 THEN @ - 1 ELSE 0]

\* #counts.set(parent, max(0, count - 1))
Returned(cs, c) == [cs EXCEPT ![child[c].parent] = IF @ > 0 THEN @ - 1 ELSE 0]

Finish(c, status, announce) ==
  /\ child' = Settled(child, c, status, announce)
  /\ counts' = IF child[c].counted THEN Returned(counts, c) ELSE counts

LaneFree == active < Concurrency

\* #drain: a lane for each queued child while there are lanes; #run up to its race
Drain ==
  /\ draining
  /\ IF LaneFree /\ queue # <<>>
     THEN /\ child' = [child EXCEPT ![Head(queue)].status = "running",
                                    ![Head(queue)].phase = "running"]
          /\ active' = active + 1
          /\ queue' = Tail(queue)
          /\ UNCHANGED <<counts, draining>>
     ELSE /\ draining' = FALSE
          /\ UNCHANGED <<child, queue, counts, active>>

\* The runtime answers before any abort: the race is won
Answer(c) ==
  /\ ~draining
  /\ child[c].phase = "running" /\ ~child[c].aborted
  /\ child' = [child EXCEPT ![c].phase = "answered"]
  /\ UNCHANGED <<queue, counts, active, draining>>

\* Fault: the signal is not looked at again after the race
NeverAborted(c) == FALSE

Aborted(c) == child[c].aborted

\* After the race: an abort in between cancels; an invalid result fails; one over
\* budget fails; a verifier is asked; else the child completes and announces
Judge(c, verdict) ==
  /\ ~draining
  /\ child[c].phase = "answered"
  /\ IF Aborted(c)
     THEN Finish(c, "cancelled", FALSE)
     ELSE CASE verdict = "ok" /\ Verifies ->
                 /\ child' = [child EXCEPT ![c].phase = "verifying"]
                 /\ UNCHANGED counts
            [] verdict = "ok" /\ ~Verifies -> Finish(c, "completed", TRUE)
            [] OTHER -> Finish(c, "failed", FALSE)
  /\ UNCHANGED <<queue, active, draining>>

\* The verifier agrees, or refuses, rejects or times out
Verify(c, ok) ==
  /\ ~draining
  /\ child[c].phase = "verifying"
  /\ Finish(c, IF ok THEN "completed" ELSE "failed", ok)
  /\ UNCHANGED <<queue, active, draining>>

\* The race is lost: the abort rejects it, or the runtime (or its factory) does
Reject(c) ==
  /\ ~draining
  /\ child[c].phase = "running"
  /\ Finish(c, IF child[c].aborted THEN "cancelled" ELSE "failed", FALSE)
  /\ UNCHANGED <<queue, active, draining>>

LaneReturned == active - 1

\* announce and archive are over, failed or not: the result resolves, the lane is
\* given back and the queue drained
Release(c) ==
  /\ ~draining
  /\ child[c].phase = "finishing"
  /\ child' = [child EXCEPT ![c].phase = "settled"]
  /\ active' = LaneReturned
  /\ draining' = TRUE
  /\ UNCHANGED <<queue, counts>>

\* #cancel of every child in `which`, in one turn of the event loop: abort; a
\* queued one leaves the queue and is finished at once; `late` notes an abort that
\* finds the answer already judged
CancelAll(which) ==
  LET live == {c \in which : child[c].status \notin Terminal \cup {"absent"}}
      queued == {c \in live : child[c].status = "queued"}
      given(p) == Cardinality({c \in queued : child[c].parent = p /\ child[c].counted})
  IN  /\ child' = [c \in Children |->
           IF c \in queued
           THEN [child[c] EXCEPT !.aborted = TRUE, !.status = "cancelled",
                                 !.counted = FALSE, !.phase = "settled"]
           ELSE IF c \in live
                THEN [child[c] EXCEPT !.aborted = TRUE,
                        !.late = IF child[c].aborted THEN @ ELSE child[c].phase = "verifying"]
                ELSE child[c]]
      /\ counts' = [s \in Sessions |-> counts[s] - given(s)]
      /\ queue' = Without(queue, queued)
      /\ UNCHANGED <<active, draining>>

\* handle.cancel, or the deadline of a running child
Cancel(c) ==
  /\ ~draining
  /\ child[c].status \in {"queued", "running"} /\ ~child[c].aborted
  /\ CancelAll({c})

\* visit: the live children of session p, their live children and so on
Below(p) ==
  LET live == {c \in Children : child[c].status \in {"queued", "running"}}
      Closed(S) == \A c \in live : child[c].parent \in S \cup {p} => c \in S
  IN  {c \in live : \A S \in SUBSET live : Closed(S) => c \in S}

\* cancelParent
CancelParent(p) ==
  /\ ~draining
  /\ Below(p) # {}
  /\ CancelAll(Below(p))

DelNext ==
  \/ \E p \in Sessions, c \in Children : Spawn(p, c)
  \/ Drain
  \/ \E c \in Children : \/ Answer(c) \/ Reject(c) \/ Release(c) \/ Cancel(c)
                         \/ \E v \in {"ok", "invalid", "over budget"} : Judge(c, v)
                         \/ \E ok \in BOOLEAN : Verify(c, ok)
  \/ \E p \in Sessions : CancelParent(p)

DelSpec == DelInit /\ [][DelNext]_delVars

-----------------------------------------------------------------------------

\* Lanes and counts are given back exactly once: whatever races between
\* completion, cancellation and the deadline, the lanes in use are those of the
\* children inside #run and never more than there are, and a parent's count is
\* the number of its unsettled children.
SlotsReturned ==
  /\ active = Cardinality({c \in Children : child[c].phase \in {"running", "answered", "verifying", "finishing"}})
  /\ active <= Concurrency
  /\ \A s \in Sessions : counts[s] =
       Cardinality({c \in Children : child[c].parent = s /\ child[c].status \in {"queued", "running"}})

\* A child cancelled before its answer was accepted for judgement is never
\* announced as completed; only a cancellation during verification comes too late.
CancelledNotAnnounced ==
  \A c \in Children : child[c].aborted /\ ~child[c].late => ~child[c].announce
=============================================================================
