----------------------------- MODULE Approvals -----------------------------
(***************************************************************************)
(* The approval engine (execution/approvals): requests that bind one exact *)
(* transaction, decided by a quorum of operators other than the proposer,  *)
(* consumed at most once before they expire.                               *)
(*                                                                         *)
(* decide, revoke and consume run in one BEGIN IMMEDIATE transaction each  *)
(* and are one action.  request() and get() are not transactional: request *)
(* inserts the row and its audit event in two statements, and get() reads  *)
(* the row before the transaction that expires it.  Several processes (the *)
(* API server, the CLI) hold an engine over the same file.                 *)
(***************************************************************************)
EXTENDS Integers, FiniteSets, Sequences

CONSTANTS
  Requests,    \* request ids
  Operators,   \* every identity that may propose or be configured as approver
  Processes,   \* engine instances over the same database
  Nonces,      \* decision nonces
  Deadline,     \* bound on the clock
  NoRequest    \* an engine that is not in the middle of a call

\* The operators can be counted; the clock's bound is a number
ASSUME ApprovalsAssumption == IsFiniteSet(Operators) /\ Deadline \in Nat

VARIABLES
  now,         \* Date.now()
  request,     \* approval_requests
  decisions,   \* approval_decisions: append-only
  events,      \* approval_events of each request: append-only
  approvers,   \* approvers[p]: operators p's configuration gives the role and scope
  peek,        \* peek[p]: the row get() of p has read and is about to expire
  creating     \* creating[p]: the request p has inserted without its event yet

engineVars == <<now, request, decisions, events, approvers, peek, creating>>

Final    == {"denied", "expired", "revoked", "consumed"}
Live     == {"pending", "approved"}
Statuses == Live \cup Final

Request  == [status : {"absent"} \cup Statuses, revision : Nat, proposer : Operators,
             quorum : Nat, expires : Nat]

NoPeek == [request |-> NoRequest, revision |-> 0]

Log(r, e, n) == [events EXCEPT ![r] = Append(@, [event |-> e, revision |-> n])]

Due(r) == request[r].expires <= now

\* The operators whose approval of r is on record
Approving(r) == {o \in Operators :
  \E d \in decisions : d.request = r /\ d.operator = o /\ d.decision = "approve"}

\* revision=revision+1
NextRevision(r) == request[r].revision + 1

-----------------------------------------------------------------------------

EngineInit ==
  /\ now = 0
  /\ request \in [Requests -> {[status |-> "absent", revision |-> 0, proposer |-> o,
                                quorum |-> 0, expires |-> 0] : o \in Operators}]
  /\ decisions = {}
  /\ events = [r \in Requests |-> <<>>]
  /\ approvers \in [Processes -> SUBSET Operators]
  /\ peek = [p \in Processes |-> NoPeek]
  /\ creating = [p \in Processes |-> NoRequest]

\* request's eligible operators for proposer o
Eligible(p, o) == approvers[p] \ {o}

\* request: the row; a quorum nobody could reach and a past expiry are refused
RequestRow(p, r, q, t) ==
  LET o == request[r].proposer
  IN  /\ creating[p] = NoRequest
      /\ request[r].status = "absent"
      /\ q \in 1..Cardinality(Eligible(p, o))
      /\ t > now
      /\ request' = [request EXCEPT ![r] =
           [@ EXCEPT !.status = "pending", !.quorum = q, !.expires = t]]
      /\ creating' = [creating EXCEPT ![p] = r]
      /\ UNCHANGED <<now, decisions, events, approvers, peek>>

\* request: its audit event, in a statement of its own, then get(), which
\* begins by reading the row
RequestEvent(p) ==
  LET r == creating[p]
  IN  /\ r # NoRequest
      /\ events' = Log(r, "created", 0)
      /\ creating' = [creating EXCEPT ![p] = NoRequest]
      /\ UNCHANGED <<now, request, decisions, approvers, peek>>

\* get: read a row that is past its deadline, outside any transaction
GetRead(p, r) ==
  /\ creating[p] = NoRequest
  /\ peek[p] = NoPeek
  /\ request[r].status \in Live
  /\ Due(r)
  /\ peek' = [peek EXCEPT ![p] = [request |-> r, revision |-> request[r].revision]]
  /\ UNCHANGED <<now, request, decisions, events, approvers, creating>>

ExpireSilently(r, rev) ==
  /\ request' = [request EXCEPT ![r].status = "expired", ![r].revision = rev + 1]
  /\ UNCHANGED events

\* expire: WHERE id=? AND revision=? AND status IN ('pending','approved')
Expire(r, rev) ==
  \/ /\ request[r].revision = rev /\ request[r].status \in Live
     /\ request' = [request EXCEPT ![r].status = "expired", ![r].revision = rev + 1]
     /\ events' = Log(r, "expired", rev + 1)
  \/ /\ ~(request[r].revision = rev /\ request[r].status \in Live)
     /\ UNCHANGED <<request, events>>

\* get: the transaction that expires the row it has read
GetExpire(p) ==
  /\ peek[p] # NoPeek
  /\ Expire(peek[p].request, peek[p].revision)
  /\ peek' = [peek EXCEPT ![p] = NoPeek]
  /\ UNCHANGED <<now, decisions, approvers, creating>>

\* Fault: the proposer may decide
MayDecideOwn(p, o, r) ==
  /\ o \in approvers[p]
  /\ ~\E d \in decisions : d.request = r /\ d.operator = o

\* decide's checks on the operator: role and scope, no self-approval, distinct
MayDecide(p, o, r) ==
  /\ o # request[r].proposer
  /\ o \in approvers[p]
  /\ ~\E d \in decisions : d.request = r /\ d.operator = o

\* One denial ends the request; the quorum is counted after the insertion
DecidedStatus(r, d) ==
  LET n == Cardinality({x \in decisions' : x.request = r /\ x.decision = "approve"})
  IN  IF d = "deny" THEN "denied"
      ELSE IF n >= request[r].quorum THEN "approved" ELSE "pending"

\* decide with a valid proof for the current revision and challenge (anything
\* else throws and rolls back)
Decide(p, o, r, d, nonce) ==
  LET n == NextRevision(r)
      s == DecidedStatus(r, d)
  IN  /\ request[r].status = "pending"
      /\ ~Due(r)
      /\ MayDecide(p, o, r)
      /\ \A x \in decisions : x.nonce # nonce
      /\ decisions' = decisions \cup
           {[request |-> r, operator |-> o, decision |-> d, nonce |-> nonce]}
      /\ request' = [request EXCEPT ![r].status = s, ![r].revision = n]
      /\ events' = IF s = "pending" THEN events ELSE Log(r, s, n)
      /\ UNCHANGED <<now, approvers, peek, creating>>

\* revoke: any approver, the proposer included, and also past the deadline
Revoke(p, o, r) ==
  LET n == NextRevision(r)
  IN  /\ o \in approvers[p]
      /\ request[r].status \in Live
      /\ request' = [request EXCEPT ![r].status = "revoked", ![r].revision = n]
      /\ events' = Log(r, "revoked", n)
      /\ UNCHANGED <<now, decisions, approvers, peek, creating>>

\* consume of the exact bound transaction.  Past the deadline it expires the
\* request, commits, and throws.
Consume(r) ==
  LET n == NextRevision(r)
  IN  /\ request[r].status # "absent"
      /\ \/ /\ Due(r)
            /\ Expire(r, request[r].revision)
         \/ /\ ~Due(r)
            /\ request[r].status = "approved"
            /\ request' = [request EXCEPT ![r].status = "consumed", ![r].revision = n]
            /\ events' = Log(r, "consumed", n)
      /\ UNCHANGED <<now, decisions, approvers, peek, creating>>

\* A process dies: its half-done request() or get() is lost.  It comes back
\* with the operators its configuration then names.
Restart(p, ops) ==
  /\ peek' = [peek EXCEPT ![p] = NoPeek]
  /\ creating' = [creating EXCEPT ![p] = NoRequest]
  /\ approvers' = [approvers EXCEPT ![p] = ops]
  /\ UNCHANGED <<now, request, decisions, events>>

Tick ==
  /\ now < Deadline
  /\ now' = now + 1
  /\ UNCHANGED <<request, decisions, events, approvers, peek, creating>>

EngineNext ==
  \/ \E p \in Processes, r \in Requests, q \in 1..Cardinality(Operators), t \in 1..Deadline :
       RequestRow(p, r, q, t)
  \/ \E p \in Processes : RequestEvent(p)
  \/ \E p \in Processes, r \in Requests : GetRead(p, r)
  \/ \E p \in Processes : GetExpire(p)
  \/ \E p \in Processes, o \in Operators, r \in Requests, d \in {"approve", "deny"}, n \in Nonces :
       Decide(p, o, r, d, n)
  \/ \E p \in Processes, o \in Operators, r \in Requests : Revoke(p, o, r)
  \/ \E r \in Requests : Consume(r)
  \/ \E p \in Processes, ops \in SUBSET Operators : Restart(p, ops)
  \/ Tick

EngineSpec == EngineInit /\ [][EngineNext]_engineVars

-----------------------------------------------------------------------------
(* Properties.                                                             *)

\* A request is approved, and can have been consumed, only with the recorded
\* approvals of a quorum of distinct operators, none of them its proposer and
\* none against, however often the operator list changed in between.
QuorumApproved ==
  \A r \in Requests : request[r].status \in {"approved", "consumed"} =>
    /\ Cardinality(Approving(r)) >= request[r].quorum
    /\ request[r].quorum >= 1
    /\ request[r].proposer \notin Approving(r)
    /\ \A d \in decisions : d.request = r => d.decision = "approve"

\* The audit trail tells the status: leaving the creation aside, its last event
\* is the status the request is in at the revision it has, and there is none
\* while it is pending.  Nothing ends a request without telling why, not even two
\* processes expiring it at once.
AuditTellsStatus ==
  \A r \in Requests :
    LET told == {k \in 1..Len(events[r]) : events[r][k].event # "created"}
    IN  /\ request[r].status \in {"approved"} \cup Final =>
             \E k \in told : /\ \A j \in told : j <= k
                            /\ events[r][k] = [event |-> request[r].status,
                                               revision |-> request[r].revision]
        /\ request[r].status \in {"absent", "pending"} => told = {}
=============================================================================
