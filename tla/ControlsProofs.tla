--------------------------- MODULE ControlsProofs ---------------------------
(***************************************************************************)
(* Proofs about the approval engine, the reservation ledger and the signer.*)
(*                                                                         *)
(* Approvals: nothing is approved, or consumed, without a quorum, for      *)
(* every number of processes, operators and requests and however often the *)
(* operators a process is configured with change.  decide counts rows of   *)
(* approval_decisions, the property counts people.  They agree because an  *)
(* operator decides a request once (Distinct); that no denial is on record *)
(* follows because the first one ended the request for good (DenialEnds).  *)
(* And the audit trail tells the status, whoever moved it.                 *)
(*                                                                         *)
(* Ledger: what the two front ends let in stays within the cap of an asset *)
(* and within its hourly limit.  The hourly limit is not inductive: commit *)
(* moves a row into the hour that ends now, so the invariant counts the    *)
(* open reservations there already (BookedHolds), which they are since a   *)
(* reservation does not outlive the window (Timely).                       *)
(*                                                                         *)
(* Signer: one signature per authorization, settled rows are right, what   *)
(* was dropped stays out.  What makes this inductive is what a             *)
(* continuation still knows after its awaits: a request past the claim     *)
(* owns the claimed row alone (CallAgrees, ClaimsApart), a listed row only *)
(* moves among the signed states, and a status or height that was read is  *)
(* still true when it is used, since the cluster only moves on (RecAgrees).*)
(***************************************************************************)
EXTENDS Approvals, ReservationLedger, Signer, DataTheorems

Decision == [request : Requests, operator : Operators, decision : {"approve", "deny"},
             nonce : Nonces]

\* The rows are well-formed
Typed ==
  /\ request \in [Requests -> Request]
  /\ decisions \subseteq Decision /\ IsFiniteSet(decisions)

\* What get() is about to expire is a request
Peeked ==
  peek \in [Processes -> {NoPeek} \cup [request : Requests, revision : Nat]]

\* An operator decides a request once, and never its own
Distinct ==
  /\ \A d, e \in decisions : d.request = e.request /\ d.operator = e.operator => d = e
  /\ \A d \in decisions : d.operator # request[d.request].proposer

\* One denial ends a request
DenialEnds == \A d \in decisions : d.decision = "deny" => request[d.request].status = "denied"

\* Every request there is asks for somebody
QuorumAsked == \A r \in Requests : request[r].status # "absent" => request[r].quorum >= 1

Inv == Typed /\ Peeked /\ Distinct /\ DenialEnds /\ QuorumAsked /\ QuorumApproved

\* The recorded approvals of a request in a table of decisions
Approved(r, table) == {d \in table : d.request = r /\ d.decision = "approve"}
People(r, table) == {o \in Operators :
  \E d \in table : d.request = r /\ d.operator = o /\ d.decision = "approve"}

-----------------------------------------------------------------------------

\* Nothing is requested, decided or read at first.
LEMMA InitInv == EngineInit => Inv
<1> SUFFICES ASSUME EngineInit PROVE Inv
  OBVIOUS
<1>1. \A o \in Operators : [status |-> "absent", revision |-> 0, proposer |-> o,
                            quorum |-> 0, expires |-> 0] \in Request
  BY DEF Request
<1> QED BY <1>1, FS_EmptySet
  DEF EngineInit, Inv, Typed, Peeked, Distinct, DenialEnds, QuorumAsked, QuorumApproved

\* Counting rows is counting people, as long as each decides once.
LEMMA RowsArePeople ==
  ASSUME NEW table, table \subseteq Decision, IsFiniteSet(table), NEW r \in Requests,
         \A d, e \in table : d.request = e.request /\ d.operator = e.operator => d = e
  PROVE  /\ IsFiniteSet(People(r, table))
         /\ Cardinality(People(r, table)) = Cardinality(Approved(r, table))
<1> DEFINE S == Approved(r, table)
           T == People(r, table)
           f == [d \in S |-> d.operator]
<1>1. IsFiniteSet(S)
  BY FS_Subset DEF Approved
<1>2. f \in [S -> T] /\ \A d \in S : f[d] = d.operator
  BY DEF Approved, People, Decision
<1>3. \A o \in T : \E d \in S : f[d] = o
  BY DEF Approved, People
<1>4. \A d, e \in S : f[d] = f[e] => d = e
  BY DEF Approved
<1> HIDE DEF f, S, T
<1>5. f \in Bijection(S, T)
  BY <1>2, <1>3, <1>4 DEF Bijection, Injection, Surjection, IsInjective
<1>6. ExistsBijection(S, T)
  BY <1>5 DEF ExistsBijection
<1>7. IsFiniteSet(T) /\ Cardinality(T) = Cardinality(S)
  BY <1>1, <1>6, FS_Bijection
<1> QED BY <1>7 DEF S, T

\* A row that ends, or one that is approved and consumed, keeps the invariant; the
\* decisions stay as they are.
LEMMA RowMoves ==
  ASSUME Inv, NEW r \in Requests, NEW s \in Final, NEW n \in Nat,
         request[r].status \in Live,
         s = "consumed" => request[r].status = "approved",
         request' = [request EXCEPT ![r].status = s, ![r].revision = n],
         UNCHANGED decisions, Peeked'
  PROVE  Inv'
<1> USE DEF Inv
<1>1. /\ request' \in [Requests -> Request]
      /\ \A q \in Requests \ {r} : request'[q] = request[q]
      /\ request'[r].status = s
      /\ \A q \in Requests : /\ request'[q].proposer = request[q].proposer
                            /\ request'[q].quorum = request[q].quorum
  BY DEF Typed, Request, Final, Live, Statuses
<1>2. Typed' /\ Distinct'
  BY <1>1 DEF Typed, Distinct, Decision
<1>3. \A d \in decisions : d.request = r => d.decision = "approve"
  BY DEF Typed, DenialEnds, Decision, Live
<1>4. DenialEnds'
  BY <1>1, <1>3 DEF Typed, DenialEnds, Decision
<1>5. QuorumAsked'
  BY <1>1 DEF QuorumAsked, Live
<1>6. \A q \in Requests : Approving(q)' = Approving(q)
  BY DEF Approving
<1>7. QuorumApproved'
  BY <1>1, <1>6 DEF QuorumApproved, Final
<1> QED BY <1>2, <1>4, <1>5, <1>7

\* decide: the count after the insertion is the number of people who approve.
LEMMA DecideStep ==
  ASSUME Inv, NEW p \in Processes, NEW o \in Operators, NEW r \in Requests,
         NEW d \in {"approve", "deny"}, NEW nonce \in Nonces, Decide(p, o, r, d, nonce)
  PROVE  Inv'
<1> USE DEF Inv
<1> DEFINE x == [request |-> r, operator |-> o, decision |-> d, nonce |-> nonce]
<1>1. /\ request[r].status = "pending" /\ o # request[r].proposer
      /\ \A e \in decisions : e.request = r => e.operator # o
      /\ decisions' = decisions \cup {x} /\ x \in Decision
      /\ UNCHANGED peek
  BY DEF Decide, MayDecide, Decision
<1>2. IsFiniteSet(decisions')
  BY <1>1, FS_AddElement DEF Typed
<1>3. /\ DecidedStatus(r, d) \in {"denied", "approved", "pending"}
      /\ d = "deny" => DecidedStatus(r, d) = "denied"
      /\ d = "approve" => DecidedStatus(r, d) # "denied"
      /\ DecidedStatus(r, d) = "approved" =>
           Cardinality(Approved(r, decisions')) >= request[r].quorum
  BY DEF DecidedStatus, Approved
<1>4. request' = [request EXCEPT ![r].status = DecidedStatus(r, d), ![r].revision = NextRevision(r)]
  BY DEF Decide
<1>5. NextRevision(r) \in Nat
  BY DEF NextRevision, Typed, Request
<1>6. /\ request' \in [Requests -> Request]
      /\ \A q \in Requests \ {r} : request'[q] = request[q]
      /\ request'[r].status = DecidedStatus(r, d)
      /\ \A q \in Requests : /\ request'[q].proposer = request[q].proposer
                            /\ request'[q].quorum = request[q].quorum
  BY <1>3, <1>4, <1>5 DEF Typed, Request, Statuses, Live, Final
<1>7. Typed' /\ Peeked'
  BY <1>1, <1>2, <1>6 DEF Typed, Peeked
<1>8. Distinct'
  BY <1>1, <1>6 DEF Typed, Distinct, Decision
<1>9. DenialEnds'
  BY <1>1, <1>3, <1>6 DEF Typed, DenialEnds, Decision
<1>10. QuorumAsked'
  BY <1>1, <1>6 DEF QuorumAsked
<1>11. QuorumApproved'
  <2> SUFFICES ASSUME NEW q \in Requests, request'[q].status \in {"approved", "consumed"}
               PROVE  /\ Cardinality(Approving(q)') >= request'[q].quorum
                      /\ request'[q].quorum >= 1
                      /\ request'[q].proposer \notin Approving(q)'
                      /\ \A e \in decisions' : e.request = q => e.decision = "approve"
    BY DEF QuorumApproved
  <2>1. request'[q].quorum >= 1
    BY <1>10 DEF QuorumAsked
  <2>2. request'[q].proposer \notin Approving(q)'
    BY <1>8 DEF Distinct, Approving
  <2>3. \A e \in decisions' : e.request = q => e.decision = "approve"
    BY <1>7, <1>9 DEF Typed, DenialEnds, Decision
  <2>4. Cardinality(Approving(q)') >= request'[q].quorum
    <3>1. CASE q = r
      <4>1. Approving(q)' = People(r, decisions')
        BY <3>1 DEF Approving, People
      <4>2. Cardinality(People(r, decisions')) = Cardinality(Approved(r, decisions'))
        BY <1>2, <1>7, <1>8, RowsArePeople DEF Typed, Distinct
      <4>3. Cardinality(Approved(r, decisions')) >= request[r].quorum
        BY <1>3, <1>6, <3>1
      <4> QED BY <1>6, <3>1, <4>1, <4>2, <4>3
    <3>2. CASE q # r
      <4>1. Approving(q)' = Approving(q)
        BY <1>1, <3>2 DEF Approving
      <4> QED BY <1>6, <3>2, <4>1 DEF QuorumApproved
    <3> QED BY <3>1, <3>2
  <2> QED BY <2>1, <2>2, <2>3, <2>4
<1> QED BY <1>7, <1>8, <1>9, <1>10, <1>11

\* expire: the row it was asked for, if it is still live at that revision.
LEMMA ExpireStep ==
  ASSUME Inv, NEW r \in Requests, NEW rev \in Nat, Expire(r, rev), UNCHANGED decisions,
         Peeked'
  PROVE  Inv'
<1>1. CASE UNCHANGED request
  <2>1. \A q \in Requests : Approving(q)' = Approving(q)
    BY DEF Approving
  <2> QED BY <1>1, <2>1 DEF Inv, Typed, Distinct, DenialEnds, QuorumAsked, QuorumApproved
<1>2. CASE /\ request[r].status \in Live
           /\ request' = [request EXCEPT ![r].status = "expired", ![r].revision = rev + 1]
  <2>1. rev + 1 \in Nat /\ "expired" \in Final
    BY DEF Final
  <2> QED BY <1>2, <2>1, RowMoves
<1> QED BY <1>1, <1>2 DEF Expire

\* The invariant is inductive.
LEMMA InvStep == Inv /\ [EngineNext]_engineVars => Inv'
<1> SUFFICES ASSUME Inv, [EngineNext]_engineVars PROVE Inv'
  OBVIOUS
<1>0. ASSUME UNCHANGED <<request, decisions>>, Peeked' PROVE Inv'
  <2>1. \A q \in Requests : Approving(q)' = Approving(q)
    BY <1>0 DEF Approving
  <2> QED BY <1>0, <2>1 DEF Inv, Typed, Distinct, DenialEnds, QuorumAsked, QuorumApproved
<1>1. ASSUME NEW p \in Processes, NEW r \in Requests, NEW q \in 1..Cardinality(Operators),
             NEW t \in 1..Deadline, RequestRow(p, r, q, t)
      PROVE  Inv'
  <2>1. request' = [request EXCEPT ![r] =
          [request[r] EXCEPT !.status = "pending", !.quorum = q, !.expires = t]]
    BY <1>1 DEF RequestRow
  <2>2. request[r].status = "absent" /\ UNCHANGED <<decisions, peek>>
    BY <1>1 DEF RequestRow
  <2>3. [request[r] EXCEPT !.status = "pending", !.quorum = q, !.expires = t] \in Request
    <3>1. q \in Nat /\ t \in Nat
      BY ApprovalsAssumption, FS_CardinalityType
    <3> QED BY <3>1 DEF Inv, Typed, Request, Statuses, Live
  <2>4. /\ request' \in [Requests -> Request]
        /\ \A u \in Requests \ {r} : request'[u] = request[u]
        /\ request'[r].status = "pending" /\ request'[r].quorum = q
        /\ request'[r].proposer = request[r].proposer
    BY <2>1, <2>3 DEF Inv, Typed, Request
  <2>5. Typed' /\ Peeked' /\ Distinct'
    BY <2>2, <2>4 DEF Inv, Typed, Peeked, Distinct, Decision
  <2>6. DenialEnds' /\ QuorumAsked'
    <3>1. q >= 1
      BY ApprovalsAssumption, FS_CardinalityType
    <3> QED BY <2>2, <2>4, <3>1 DEF Inv, Typed, DenialEnds, QuorumAsked, Decision
  <2>7. \A u \in Requests : Approving(u)' = Approving(u)
    BY <2>2 DEF Approving
  <2>8. QuorumApproved'
    BY <2>2, <2>4, <2>7 DEF Inv, QuorumApproved
  <2> QED BY <2>5, <2>6, <2>8 DEF Inv
<1>2. ASSUME NEW p \in Processes, RequestEvent(p) PROVE Inv'
  BY <1>0, <1>2 DEF RequestEvent, Inv, Peeked
<1>3. ASSUME NEW p \in Processes, NEW r \in Requests, GetRead(p, r) PROVE Inv'
  <2>1. [request |-> r, revision |-> request[r].revision] \in [request : Requests, revision : Nat]
    BY DEF Inv, Typed, Request
  <2> QED BY <1>0, <1>3, <2>1 DEF GetRead, Inv, Peeked
<1>4. ASSUME NEW p \in Processes, GetExpire(p) PROVE Inv'
  <2>1. peek[p].request \in Requests /\ peek[p].revision \in Nat
    BY <1>4 DEF GetExpire, Inv, Peeked
  <2>2. Peeked'
    BY <1>4 DEF GetExpire, Inv, Peeked
  <2> QED BY <1>4, <2>1, <2>2, ExpireStep DEF GetExpire
<1>5. ASSUME NEW p \in Processes, NEW o \in Operators, NEW r \in Requests,
             NEW d \in {"approve", "deny"}, NEW n \in Nonces, Decide(p, o, r, d, n)
      PROVE  Inv'
  BY <1>5, DecideStep
<1>6. ASSUME NEW p \in Processes, NEW o \in Operators, NEW r \in Requests, Revoke(p, o, r)
      PROVE  Inv'
  <2>1. NextRevision(r) \in Nat /\ "revoked" \in Final /\ Peeked'
    BY <1>6 DEF Revoke, NextRevision, Final, Inv, Typed, Peeked, Request
  <2> QED BY <1>6, <2>1, RowMoves DEF Revoke
<1>7. ASSUME NEW r \in Requests, Consume(r) PROVE Inv'
  <2>1. /\ NextRevision(r) \in Nat /\ request[r].revision \in Nat
        /\ "consumed" \in Final /\ "approved" \in Live /\ Peeked'
    BY <1>7 DEF Consume, NextRevision, Final, Live, Inv, Typed, Peeked, Request
  <2>2. CASE Expire(r, request[r].revision)
    BY <1>7, <2>1, <2>2, ExpireStep DEF Consume
  <2>3. CASE /\ request[r].status = "approved"
             /\ request' = [request EXCEPT ![r].status = "consumed", ![r].revision = NextRevision(r)]
    BY <1>7, <2>1, <2>3, RowMoves DEF Consume
  <2> QED BY <1>7, <2>2, <2>3 DEF Consume
<1>8. ASSUME NEW p \in Processes, NEW ops \in SUBSET Operators, Restart(p, ops) PROVE Inv'
  BY <1>0, <1>8 DEF Restart, Inv, Peeked
<1>9. CASE Tick \/ UNCHANGED engineVars
  BY <1>0, <1>9 DEF Tick, engineVars, Inv, Peeked
<1> QED BY <1>1, <1>2, <1>3, <1>4, <1>5, <1>6, <1>7, <1>8, <1>9 DEF EngineNext

\* ApprovalEngine: a request is approved or consumed only with the recorded approvals of
\* a quorum of distinct operators, none of them its proposer and none against.
THEOREM QuorumAlways == EngineSpec => []QuorumApproved
<1>1. Inv => QuorumApproved
  BY DEF Inv
<1> QED BY <1>1, InitInv, InvStep, PTL DEF EngineSpec

\* The audit trail, and the requests whose event is still to be written
Event == [event : {"created"} \cup Statuses, revision : Nat]
Logged == /\ events \in [Requests -> Seq(Event)]
          /\ creating \in [Processes -> Requests \cup {NoRequest}]

AuditInv == Inv /\ Logged /\ AuditTellsStatus

\* An event appended to a trail comes last, and the others keep their places.
LEMMA Appended ==
  ASSUME Logged, NEW r \in Requests, NEW e \in {"created"} \cup Statuses, NEW n \in Nat,
         events' = Log(r, e, n)
  PROVE  /\ events' \in [Requests -> Seq(Event)]
         /\ \A q \in Requests \ {r} : events'[q] = events[q]
         /\ Len(events[r]) \in Nat /\ Len(events'[r]) = Len(events[r]) + 1
         /\ events'[r][Len(events[r]) + 1] = [event |-> e, revision |-> n]
         /\ \A k \in 1..Len(events[r]) : events'[r][k] = events[r][k]
<1>1. [event |-> e, revision |-> n] \in Event
  BY DEF Event
<1>2. events[r] \in Seq(Event) /\ events'[r] = Append(events[r], [event |-> e, revision |-> n])
  BY DEF Logged, Log
<1>3. events' \in [Requests -> Seq(Event)] /\ \A q \in Requests \ {r} : events'[q] = events[q]
  BY <1>1 DEF Logged, Log
<1> QED BY <1>1, <1>2, <1>3

\* A request that moves to a status and logs it is told.
LEMMA MoveTold ==
  ASSUME AuditInv, NEW r \in Requests, NEW s \in {"approved"} \cup Final, NEW n \in Nat,
         events' = Log(r, s, n), request' = [request EXCEPT ![r].status = s, ![r].revision = n]
  PROVE  AuditTellsStatus'
<1>1. /\ \A q \in Requests \ {r} : events'[q] = events[q]
      /\ Len(events[r]) \in Nat /\ Len(events'[r]) = Len(events[r]) + 1
      /\ events'[r][Len(events[r]) + 1] = [event |-> s, revision |-> n]
  BY Appended DEF AuditInv, Final, Statuses, Live
<1>2. /\ \A q \in Requests \ {r} : request'[q] = request[q]
      /\ request'[r].status = s /\ request'[r].revision = n
  BY DEF AuditInv, Inv, Typed, Request
<1>3. s \notin {"created", "absent", "pending"}
  BY DEF Final
<1> SUFFICES ASSUME NEW q \in Requests
             PROVE  LET told == {k \in 1..Len(events'[q]) : events'[q][k].event # "created"}
                    IN  /\ request'[q].status \in {"approved"} \cup Final =>
                             \E k \in told : /\ \A j \in told : j <= k
                                            /\ events'[q][k] = [event |-> request'[q].status,
                                                                revision |-> request'[q].revision]
                        /\ request'[q].status \in {"absent", "pending"} => told = {}
  BY DEF AuditTellsStatus
<1> DEFINE told == {k \in 1..Len(events'[q]) : events'[q][k].event # "created"}
<1>4. CASE q = r
  <2>1. Len(events'[q]) \in told /\ \A j \in told : j <= Len(events'[q])
    BY <1>1, <1>3, <1>4
  <2>2. events'[q][Len(events'[q])] = [event |-> request'[q].status,
                                       revision |-> request'[q].revision]
    BY <1>1, <1>2, <1>4
  <2> QED BY <1>2, <1>3, <1>4, <2>1, <2>2
<1>5. CASE q # r
  <2>1. events'[q] = events[q] /\ request'[q] = request[q]
    BY <1>1, <1>2, <1>5
  <2> QED BY <2>1 DEF AuditInv, AuditTellsStatus
<1> QED BY <1>4, <1>5

\* A pending request may be decided once more without an event, and an absent
\* one created.
LEMMA StillPending ==
  ASSUME AuditInv, NEW r \in Requests, request[r].status \in {"absent", "pending"},
         UNCHANGED events, request'[r].status = "pending",
         \A q \in Requests \ {r} : request'[q] = request[q]
  PROVE  AuditTellsStatus'
<1>1. "pending" \notin {"approved"} \cup Final
  BY DEF Final
<1>2. ASSUME NEW q \in Requests, q # r PROVE request'[q] = request[q]
  BY <1>2
<1>3. \A k \in 1..Len(events[r]) : events[r][k].event = "created"
  BY DEF AuditInv, AuditTellsStatus
<1> QED BY <1>1, <1>2, <1>3 DEF AuditInv, AuditTellsStatus

\* The late event of a creation changes nothing that is told.
LEMMA CreationTold ==
  ASSUME AuditInv, NEW r \in Requests, events' = Log(r, "created", 0), UNCHANGED request
  PROVE  AuditTellsStatus'
<1>1. /\ \A q \in Requests \ {r} : events'[q] = events[q]
      /\ Len(events[r]) \in Nat /\ Len(events'[r]) = Len(events[r]) + 1
      /\ events'[r][Len(events[r]) + 1] = [event |-> "created", revision |-> 0]
      /\ \A k \in 1..Len(events[r]) : events'[r][k] = events[r][k]
  BY Appended DEF AuditInv, Event
<1>2. \A q \in Requests : {k \in 1..Len(events'[q]) : events'[q][k].event # "created"}
                         = {k \in 1..Len(events[q]) : events[q][k].event # "created"}
  <2> SUFFICES ASSUME NEW q \in Requests
               PROVE  {k \in 1..Len(events'[q]) : events'[q][k].event # "created"}
                      = {k \in 1..Len(events[q]) : events[q][k].event # "created"}
    OBVIOUS
  <2>1. CASE q = r
    <3>1. events'[r][Len(events[r]) + 1].event = "created"
      BY <1>1
    <3> QED BY <1>1, <2>1, <3>1
  <2>2. CASE q # r
    BY <1>1, <2>2
  <2> QED BY <2>1, <2>2
<1>3. \A q \in Requests : \A k \in 1..Len(events[q]) : events'[q][k] = events[q][k]
  BY <1>1
<1> QED BY <1>2, <1>3 DEF AuditInv, AuditTellsStatus

\* expire, by whichever process gets there first.
LEMMA ExpireTold ==
  ASSUME AuditInv, NEW r \in Requests, NEW rev \in Nat, Expire(r, rev)
  PROVE  AuditTellsStatus' /\ events' \in [Requests -> Seq(Event)]
<1>1. CASE UNCHANGED <<request, events>>
  BY <1>1 DEF AuditInv, Logged, AuditTellsStatus
<1>2. CASE /\ request' = [request EXCEPT ![r].status = "expired", ![r].revision = rev + 1]
           /\ events' = Log(r, "expired", rev + 1)
  <2>1. "expired" \in {"approved"} \cup Final /\ "expired" \in Statuses /\ rev + 1 \in Nat
    BY DEF Final, Statuses
  <2> QED BY <1>2, <2>1, MoveTold, Appended DEF AuditInv
<1> QED BY <1>1, <1>2 DEF Expire

\* Every step of the engine keeps the trail true to the status.
LEMMA AuditStep == AuditInv /\ [EngineNext]_engineVars => AuditInv'
<1> SUFFICES ASSUME AuditInv, [EngineNext]_engineVars PROVE Logged' /\ AuditTellsStatus'
  BY InvStep DEF AuditInv
<1>0. Inv /\ Logged /\ \A r \in Requests : NextRevision(r) \in Nat /\ request[r].revision \in Nat
  BY DEF AuditInv, NextRevision, Inv, Typed, Request
<1>1. ASSUME NEW p \in Processes, NEW r \in Requests, NEW q \in 1..Cardinality(Operators),
             NEW t \in 1..Deadline, RequestRow(p, r, q, t)
      PROVE  Logged' /\ AuditTellsStatus'
  <2>1. /\ request' = [request EXCEPT ![r] =
               [request[r] EXCEPT !.status = "pending", !.quorum = q, !.expires = t]]
        /\ request[r].status = "absent" /\ UNCHANGED events
        /\ creating' = [creating EXCEPT ![p] = r]
    BY <1>1 DEF RequestRow
  <2>2. request'[r].status = "pending" /\ \A u \in Requests \ {r} : request'[u] = request[u]
    BY <1>0, <2>1 DEF Inv, Typed, Request
  <2>3. Logged'
    BY <1>0, <2>1 DEF Logged
  <2> QED BY <2>1, <2>2, <2>3, StillPending
<1>2. ASSUME NEW p \in Processes, RequestEvent(p) PROVE Logged' /\ AuditTellsStatus'
  <2>1. /\ creating[p] \in Requests /\ events' = Log(creating[p], "created", 0)
        /\ creating' = [creating EXCEPT ![p] = NoRequest] /\ UNCHANGED request
    BY <1>0, <1>2 DEF RequestEvent, Logged
  <2>2. Logged'
    BY <1>0, <2>1, Appended DEF Logged
  <2> QED BY <2>1, <2>2, CreationTold
<1>3. ASSUME NEW p \in Processes, GetExpire(p) PROVE Logged' /\ AuditTellsStatus'
  <2>1. peek[p].request \in Requests /\ peek[p].revision \in Nat
    BY <1>0, <1>3 DEF GetExpire, Inv, Peeked
  <2> QED BY <1>0, <1>3, <2>1, ExpireTold DEF GetExpire, Logged
<1>4. ASSUME NEW p \in Processes, NEW o \in Operators, NEW r \in Requests,
             NEW d \in {"approve", "deny"}, NEW n \in Nonces, Decide(p, o, r, d, n)
      PROVE  Logged' /\ AuditTellsStatus'
  <2> DEFINE s == DecidedStatus(r, d)
  <2>1. /\ request' = [request EXCEPT ![r].status = s, ![r].revision = NextRevision(r)]
        /\ events' = (IF s = "pending" THEN events ELSE Log(r, s, NextRevision(r)))
        /\ request[r].status = "pending" /\ UNCHANGED creating
    BY <1>4 DEF Decide
  <2>2. s \in {"pending", "approved", "denied"}
    BY DEF DecidedStatus
  <2> HIDE DEF s
  <2>3. CASE s = "pending"
    <3>1. request'[r].status = "pending" /\ \A u \in Requests \ {r} : request'[u] = request[u]
      BY <1>0, <2>1, <2>3 DEF Inv, Typed, Request
    <3> QED BY <1>0, <2>1, <2>3, <3>1, StillPending DEF Logged
  <2>4. CASE s # "pending"
    <3>1. s \in {"approved"} \cup Final /\ s \in Statuses
      BY <2>2, <2>4 DEF Final, Live, Statuses
    <3> QED BY <1>0, <2>1, <2>4, <3>1, MoveTold, Appended DEF Logged
  <2> QED BY <2>3, <2>4
<1>5. ASSUME NEW p \in Processes, NEW o \in Operators, NEW r \in Requests, Revoke(p, o, r)
      PROVE  Logged' /\ AuditTellsStatus'
  <2>1. "revoked" \in {"approved"} \cup Final /\ "revoked" \in Statuses
    BY DEF Final, Statuses
  <2> QED BY <1>0, <1>5, <2>1, MoveTold, Appended DEF Revoke, Logged
<1>6. ASSUME NEW r \in Requests, Consume(r) PROVE Logged' /\ AuditTellsStatus'
  <2>1. CASE Expire(r, request[r].revision)
    BY <1>0, <1>6, <2>1, ExpireTold DEF Consume, Logged
  <2>2. CASE /\ request' = [request EXCEPT ![r].status = "consumed", ![r].revision = NextRevision(r)]
             /\ events' = Log(r, "consumed", NextRevision(r))
    <3>1. "consumed" \in {"approved"} \cup Final /\ "consumed" \in Statuses
      BY DEF Final, Statuses
    <3> QED BY <1>0, <1>6, <2>2, <3>1, MoveTold, Appended DEF Consume, Logged
  <2> QED BY <1>6, <2>1, <2>2 DEF Consume
<1>7. ASSUME UNCHANGED <<request, events>>, creating' \in [Processes -> Requests \cup {NoRequest}]
      PROVE  Logged' /\ AuditTellsStatus'
  BY <1>7 DEF AuditInv, Logged, AuditTellsStatus
<1>8. CASE \/ \E p \in Processes, r \in Requests : GetRead(p, r)
           \/ \E p \in Processes, ops \in SUBSET Operators : Restart(p, ops)
           \/ Tick \/ UNCHANGED engineVars
  BY <1>0, <1>7, <1>8 DEF GetRead, Restart, Tick, engineVars, Logged
<1> QED BY <1>1, <1>2, <1>3, <1>4, <1>5, <1>6, <1>8 DEF EngineNext

\* ApprovalEngine: the audit trail ends with the status a request is in, at its revision,
\* whichever process decided, revoked, consumed or expired it.
THEOREM AuditAlways == EngineSpec => []AuditTellsStatus
<1>1. EngineInit => AuditInv
  BY InitInv DEF EngineInit, AuditInv, Logged, AuditTellsStatus, Final
<1>2. AuditInv => AuditTellsStatus
  BY DEF AuditInv
<1> QED BY <1>1, <1>2, AuditStep, PTL DEF EngineSpec

-----------------------------------------------------------------------------
(* The reservation ledger.                                                 *)

\* A row of the table, and a reconcile between its halves
Row == [state : {"absent", "reserved", "committed"}, asset : Assets \cup {NoAsset},
        amount : Nat, at : Nat, expires : Nat, denom : Denoms \cup {NoDenom},
        imported : BOOLEAN, skewed : BOOLEAN]
SnapshotRead == [busy : BOOLEAN, ids : SUBSET Ids, asset : Assets \cup {NoAsset}, amount : Nat,
              at : Nat, discrepancy : BOOLEAN]

LedgerTyped ==
  /\ reservations \in [Ids -> Row]
  /\ reconcile \in SnapshotRead
  /\ time \in Nat
  /\ client \in {"adapter", "control"}

\* No row of a caller in step is of the future, and a reservation's time to
\* live counts from its reservation
Timely ==
  \A i \in Ids :
    /\ ~reservations[i].imported /\ ~reservations[i].skewed => reservations[i].at <= time
    /\ reservations[i].state = "reserved" => /\ ~reservations[i].imported
                                             /\ reservations[i].expires = reservations[i].at + Ttl

\* What counts in the hour that ends now, or would if it were committed now
Booked(a) == {i \in InStep(a) : reservations[i].state = "reserved" \/ reservations[i].at > time - Window}

BookedHolds == client = "control" => \A a \in Assets : Total(Booked(a)) <= AssetHourly

LedgerInv == LedgerTyped /\ Timely /\ CapHolds /\ BookedHolds /\ HourlyHolds

\* What the rows of a table add up to
AmountOf(table) == [i \in Ids |-> table[i].amount]

\* Rows can be summed.
LEMMA RowsSum ==
  ASSUME NEW table \in [Ids -> Row], NEW S \in SUBSET Ids
  PROVE  IsFiniteSet(S) /\ (\A i \in S : AmountOf(table)[i] \in Nat)
         /\ SumFunctionOnSet(AmountOf(table), S) \in Nat
<1>1. IsFiniteSet(S)
  BY LedgerAssumption, FS_Subset
<1>2. \A i \in S : AmountOf(table)[i] \in Nat
  BY DEF AmountOf, Row
<1>3. S \in SUBSET S
  OBVIOUS
<1>4. SumFunctionOnSet(AmountOf(table), S) \in Nat
  BY <1>1, <1>2, <1>3, SumSubset
<1> QED BY <1>1, <1>2, <1>4

\* A row an own row has become: the same, or the one a commit makes of it
Becomes(old, new) ==
  /\ new.asset = old.asset /\ new.amount = old.amount /\ ~old.imported
  /\ new.skewed = old.skewed
  /\ \/ new.state = old.state /\ new.at = old.at
     \/ old.state = "reserved" /\ new.state = "committed" /\ new.at = time

\* A step after which every own row was an own row before, unchanged or just
\* committed, keeps all sums within their limits.
LEMMA NoneAdded ==
  ASSUME LedgerInv, reservations' \in [Ids -> Row], UNCHANGED <<time, client>>,
         \A i \in Ids : reservations'[i].asset \in Assets /\ ~reservations'[i].imported =>
                           Becomes(reservations[i], reservations'[i])
  PROVE  CapHolds' /\ BookedHolds' /\ HourlyHolds'
<1> DEFINE f == AmountOf(reservations)
           e == AmountOf(reservations')
<1>1. reservations \in [Ids -> Row] /\ time \in Nat /\ Window \in Nat
  BY LedgerAssumption DEF LedgerInv, LedgerTyped
<1>2. \A a \in Assets : \A i \in Own(a)' :
        /\ i \in Own(a) /\ e[i] = f[i]
        /\ i \in InStep(a)' => i \in InStep(a)
        /\ \/ /\ reservations'[i].state = reservations[i].state
              /\ reservations'[i].at = reservations[i].at
           \/ reservations[i].state = "reserved" /\ reservations'[i].at = time
              /\ reservations'[i].state = "committed"
  BY DEF Own, InStep, Becomes, AmountOf
<1>3. \A a \in Assets : Own(a) \in SUBSET Ids /\ Own(a)' \in SUBSET Own(a)
  BY <1>2 DEF Own
<1>3a. \A a \in Assets : InStep(a) \in SUBSET Own(a) /\ InStep(a)' \in SUBSET Own(a)'
  BY DEF InStep
<1>4. \A S \in SUBSET Ids : Total(S) = SumFunctionOnSet(f, S)
  BY DEF Total, AmountOf
<1> HIDE DEF e, f
<1>5. ASSUME NEW a \in Assets, NEW O \in SUBSET Own(a), NEW N \in SUBSET O, N \subseteq Own(a)'
      PROVE  /\ SumFunctionOnSet(e, N) \in Nat /\ Total(O) \in Nat
             /\ SumFunctionOnSet(e, N) <= Total(O)
  <2>1. IsFiniteSet(O) /\ (\A i \in O : f[i] \in Nat) /\ SumFunctionOnSet(f, O) \in Nat
    BY <1>1, <1>3, RowsSum DEF f
  <2>2. \A i \in N : e[i] = f[i]
    BY <1>2, <1>5
  <2>3. SumFunctionOnSet(e, N) \in Nat /\ SumFunctionOnSet(e, N) <= SumFunctionOnSet(f, O)
    BY <2>1, <2>2, SumOfSome
  <2> QED BY <1>3, <1>4, <2>1, <2>3
<1>6. CapHolds'
  <2> SUFFICES ASSUME client = "adapter", NEW a \in Assets PROVE Total(Own(a))' <= PerAsset
    BY DEF CapHolds
  <2>1. Total(Own(a)) <= PerAsset /\ PerAsset \in Nat
    BY LedgerAssumption DEF LedgerInv, CapHolds
  <2>2. /\ SumFunctionOnSet(e, Own(a)') \in Nat /\ Total(Own(a)) \in Nat
        /\ SumFunctionOnSet(e, Own(a)') <= Total(Own(a))
    BY <1>3, <1>5
  <2>3. SumFunctionOnSet(e, Own(a)') <= PerAsset
    BY <2>1, <2>2
  <2> QED BY <2>3 DEF Total, e, AmountOf
<1>7. \A a \in Assets : /\ Booked(a)' \in SUBSET Booked(a)
                        /\ Booked(a) \in SUBSET Own(a) /\ Booked(a)' \in SUBSET Own(a)'
  BY <1>2, <1>3a DEF Booked
<1>8. client = "control" => \A a \in Assets : Total(Booked(a)) <= AssetHourly
  BY DEF LedgerInv, BookedHolds
<1>9. AssetHourly \in Nat
  BY LedgerAssumption
<1>10. BookedHolds'
  <2> SUFFICES ASSUME client = "control", NEW a \in Assets PROVE Total(Booked(a))' <= AssetHourly
    BY DEF BookedHolds
  <2>1. /\ SumFunctionOnSet(e, Booked(a)') \in Nat /\ Total(Booked(a)) \in Nat
        /\ SumFunctionOnSet(e, Booked(a)') <= Total(Booked(a))
    BY <1>5, <1>7
  <2>2. SumFunctionOnSet(e, Booked(a)') <= AssetHourly
    BY <1>8, <1>9, <2>1
  <2> QED BY <2>2 DEF Total, e, AmountOf
<1>11. HourlyHolds'
  <2> SUFFICES ASSUME client = "control", NEW a \in Assets, NEW t \in 0..MaxTime
               PROVE  Total({i \in InStep(a) : /\ reservations[i].at > t - Window
                                               /\ reservations[i].at <= t})' <= AssetHourly
    BY DEF HourlyHolds
  <2> DEFINE N == {i \in InStep(a)' : reservations'[i].at > t - Window /\ reservations'[i].at <= t}
             O == {i \in InStep(a) : reservations[i].at > t - Window /\ reservations[i].at <= t}
  <2>0. t \in Nat /\ \A i \in Own(a) : reservations[i].at \in Nat
    BY <1>1, LedgerAssumption DEF Own, Row
  <2>1. CASE t < time
    <3>1. N \in SUBSET O /\ O \in SUBSET Own(a) /\ N \subseteq Own(a)'
      BY <1>1, <1>2, <1>3a, <2>0, <2>1
    <3>2. SumFunctionOnSet(e, N) \in Nat /\ Total(O) \in Nat /\ SumFunctionOnSet(e, N) <= Total(O)
      BY <1>5, <3>1
    <3>3. Total(O) <= AssetHourly
      BY DEF LedgerInv, HourlyHolds
    <3>4. SumFunctionOnSet(e, N) <= AssetHourly
      BY <1>9, <3>2, <3>3
    <3> QED BY <3>4 DEF Total, e, AmountOf
  <2>2. CASE t >= time
    <3>1. N \in SUBSET Booked(a) /\ Booked(a) \in SUBSET Own(a) /\ N \subseteq Own(a)'
      BY <1>1, <1>2, <1>3a, <1>7, <2>0, <2>2 DEF Booked
    <3>2. SumFunctionOnSet(e, N) \in Nat /\ Total(Booked(a)) \in Nat /\ SumFunctionOnSet(e, N) <= Total(Booked(a))
      BY <1>5, <3>1
    <3>3. SumFunctionOnSet(e, N) <= AssetHourly
      BY <1>8, <1>9, <3>2
    <3> QED BY <3>3 DEF Total, e, AmountOf
  <2> QED BY <1>1, <2>0, <2>1, <2>2
<1> QED BY <1>6, <1>10, <1>11

\* The table without its expired rows is a table, every row of which is empty
\* or as it was, and then not expired.
LEMMA UnexpiredRows ==
  ASSUME LedgerTyped, Timely, NEW w \in Nat
  PROVE  /\ Absent \in Row /\ Absent.state = "absent" /\ Absent.asset = NoAsset
         /\ Unexpired(w) \in [Ids -> Row]
         /\ \A i \in Ids : \/ KeptRow(i, w) = Absent
                          \/ /\ KeptRow(i, w) = reservations[i]
                             /\ reservations[i].state = "reserved" =>
                                  reservations[i].at > w - Window
<1>1. Absent \in Row /\ Absent.state = "absent" /\ Absent.asset = NoAsset
  BY DEF Absent, Row
<1>2. \A i \in Ids : reservations[i] \in Row /\ KeptRow(i, w) \in {Absent, reservations[i]}
  BY DEF LedgerTyped, KeptRow
<1>3. Unexpired(w) \in [Ids -> Row]
  BY <1>1, <1>2 DEF Unexpired
<1>4. ASSUME NEW i \in Ids, KeptRow(i, w) # Absent, reservations[i].state = "reserved"
      PROVE  reservations[i].at > w - Window
  <2>1. ~(reservations[i].expires <= w)
    BY <1>4 DEF KeptRow, Expired
  <2>2. /\ reservations[i].expires = reservations[i].at + Ttl /\ reservations[i].at \in Nat
        /\ Ttl \in Nat /\ Window \in Nat /\ Ttl <= Window
    BY <1>2, <1>4, LedgerAssumption DEF Timely, LedgerTyped, Row
  <2> QED BY <2>1, <2>2
<1> QED BY <1>1, <1>2, <1>3, <1>4

\* A reservation that fits: the rows it was compared with are those it now
\* stands beside, if its caller's clock is in step.
LEMMA ReservationFits ==
  ASSUME LedgerInv, NEW i \in Ids, NEW a \in Assets, NEW n \in Amounts,
         NEW d \in Denoms \cup {NoDenom}, NEW w \in Nat,
         client = "adapter" => FitsAsset(a, n, w),
         client = "control" => Usage(a, w) + n <= AssetHourly,
         reservations' = [Unexpired(w) EXCEPT ![i] = Reserved(a, n, d, w)],
         UNCHANGED <<time, client>>
  PROVE  CapHolds' /\ BookedHolds' /\ HourlyHolds'
<1> DEFINE f == AmountOf(Unexpired(w))
           e == AmountOf(reservations')
           U == {j \in Exposed(a, w) : KeptRow(j, w).at > w - Window /\ KeptRow(j, w).at <= w}
<1>0. LedgerTyped /\ Timely
  BY DEF LedgerInv
<1>1. /\ Unexpired(w) \in [Ids -> Row] /\ Absent.asset = NoAsset
      /\ \A j \in Ids : \/ KeptRow(j, w) = Absent
                       \/ /\ KeptRow(j, w) = reservations[j]
                          /\ reservations[j].state = "reserved" =>
                               reservations[j].at > w - Window
  BY <1>0, UnexpiredRows
<1>2. n \in Nat /\ time \in Nat /\ Window \in Nat /\ Ttl \in Nat /\ NoAsset \notin Assets
  BY <1>0, LedgerAssumption DEF LedgerTyped
<1>2a. \A j \in Ids : Unexpired(w)[j] = KeptRow(j, w)
  BY DEF Unexpired
<1>3. /\ reservations'[i].asset = a /\ reservations'[i].at = w /\ e[i] = n
      /\ ~reservations'[i].imported /\ reservations'[i].skewed = Skewed(a, w)
      /\ \A j \in Ids \ {i} : reservations'[j] = KeptRow(j, w) /\ e[j] = f[j]
  BY <1>1, <1>2a DEF Reserved, AmountOf
<1>4. \A j \in Ids \ {i} : reservations'[j].asset \in Assets =>
        /\ reservations'[j] = reservations[j] /\ KeptRow(j, w) = reservations[j]
        /\ reservations[j].state = "reserved" => reservations[j].at > w - Window
        /\ reservations[j].at \in Nat
  BY <1>0, <1>1, <1>2, <1>3 DEF LedgerTyped, Row
<1>5. Exposed(a, w) \in SUBSET Ids /\ U \in SUBSET Exposed(a, w) /\ U \in SUBSET Ids
  BY DEF Exposed
<1>6. /\ Sum(Exposed(a, w), w) = SumFunctionOnSet(f, Exposed(a, w))
      /\ Usage(a, w) = SumFunctionOnSet(f, U)
  <2>1. f = [j \in Ids |-> KeptRow(j, w).amount]
    BY <1>2a DEF AmountOf
  <2> QED BY <2>1 DEF Sum, Usage
<1>7. \A j \in Own(a)' \ {i} : /\ j \in Exposed(a, w)
                               /\ ~Skewed(a, w) => reservations'[j].at <= w
  BY <1>3, <1>4 DEF Own, Exposed, Skewed
<1>7a. Skewed(a, w) \/ w <= time
  BY <1>2 DEF Skewed
<1>7b. ~Skewed(a, w) => Booked(a)' \ {i} \in SUBSET U
  BY <1>2, <1>3, <1>4, <1>7, <1>7a DEF Own, InStep, Booked, Exposed
<1>8. ~Skewed(a, w) => \A t \in Nat : t >= w =>
        {j \in InStep(a)' : reservations'[j].at > t - Window /\ reservations'[j].at <= t} \ {i}
          \in SUBSET U
  BY <1>2, <1>3, <1>4, <1>7 DEF Own, InStep, Exposed
<1> HIDE DEF U, e, f
<1>9. ASSUME NEW O \in SUBSET Ids, NEW N, N \ {i} \in SUBSET O
      PROVE  /\ SumFunctionOnSet(e, N) \in Nat /\ SumFunctionOnSet(f, O) \in Nat
             /\ SumFunctionOnSet(e, N) <= SumFunctionOnSet(f, O) + n
  <2>1. IsFiniteSet(O) /\ (\A j \in O : f[j] \in Nat) /\ SumFunctionOnSet(f, O) \in Nat
    BY <1>1, RowsSum DEF f
  <2>2. e[i] \in Nat /\ e[i] = n /\ \A j \in N \ {i} : e[j] = f[j]
    BY <1>2, <1>3, <1>9
  <2>3. SumFunctionOnSet(e, N) \in Nat /\ SumFunctionOnSet(e, N) <= SumFunctionOnSet(f, O) + e[i]
    BY <1>9, <2>1, <2>2, SumOfOneMore
  <2> QED BY <2>1, <2>2, <2>3
<1>10. \A b \in Assets : \A j \in Own(b)' : \/ b = a /\ j = i
                                            \/ /\ j # i /\ j \in Own(b)
                                               /\ reservations'[j] = reservations[j]
  BY <1>3, <1>4 DEF Own
<1>10a. \A b \in Assets : \A j \in InStep(b)' :
          \/ b = a /\ j = i /\ ~Skewed(a, w)
          \/ j \in InStep(b) /\ reservations'[j] = reservations[j]
  BY <1>3, <1>10 DEF InStep
<1> DEFINE g == AmountOf(reservations)
<1>11. ASSUME NEW O \in SUBSET Ids, NEW N \in SUBSET O,
              \A j \in N : reservations'[j] = reservations[j]
       PROVE  /\ SumFunctionOnSet(e, N) \in Nat /\ SumFunctionOnSet(g, O) \in Nat
              /\ SumFunctionOnSet(e, N) <= SumFunctionOnSet(g, O)
  <2>1. reservations \in [Ids -> Row]
    BY <1>0 DEF LedgerTyped
  <2>2. IsFiniteSet(O) /\ (\A j \in O : g[j] \in Nat) /\ SumFunctionOnSet(g, O) \in Nat
    BY <2>1, RowsSum
  <2>3. \A j \in N : e[j] = g[j]
    BY <1>11 DEF e, AmountOf
  <2> HIDE DEF g
  <2> QED BY <2>2, <2>3, SumOfSome
<1>12. \A S : Total(S) = SumFunctionOnSet(g, S)
  BY DEF Total, AmountOf
<1> HIDE DEF g
<1>13. PerAsset \in Nat /\ AssetHourly \in Nat
  BY LedgerAssumption
<1>14. CapHolds'
  <2> SUFFICES ASSUME client = "adapter", NEW b \in Assets
               PROVE  SumFunctionOnSet(e, Own(b)') <= PerAsset
    BY DEF CapHolds, Total, e, AmountOf
  <2>1. CASE b = a
    <3>1. SumFunctionOnSet(f, Exposed(a, w)) + n <= PerAsset
      BY <1>6 DEF FitsAsset
    <3>2. Own(a)' \ {i} \in SUBSET Exposed(a, w)
      BY <1>7
    <3> QED BY <1>2, <1>5, <1>9, <1>13, <2>1, <3>1, <3>2
  <2>2. CASE b # a
    <3>1. /\ Own(b)' \in SUBSET Own(b) /\ Own(b) \in SUBSET Ids
          /\ \A j \in Own(b)' : reservations'[j] = reservations[j]
      BY <1>10, <2>2 DEF Own
    <3>2. SumFunctionOnSet(g, Own(b)) <= PerAsset
      BY <1>12 DEF LedgerInv, CapHolds
    <3> QED BY <1>11, <1>13, <3>1, <3>2
  <2> QED BY <2>1, <2>2
<1>15. BookedHolds'
  <2> SUFFICES ASSUME client = "control", NEW b \in Assets
               PROVE  SumFunctionOnSet(e, Booked(b)') <= AssetHourly
    BY DEF BookedHolds, Total, e, AmountOf
  <2>1. CASE b = a /\ ~Skewed(a, w)
    <3>1. SumFunctionOnSet(f, U) + n <= AssetHourly
      BY <1>6
    <3> QED BY <1>2, <1>5, <1>7b, <1>9, <1>13, <2>1, <3>1
  <2>2. CASE b # a \/ Skewed(a, w)
    <3>1. /\ Booked(b)' \in SUBSET Booked(b) /\ Booked(b) \in SUBSET Ids
          /\ \A j \in Booked(b)' : reservations'[j] = reservations[j]
      BY <1>10a, <2>2 DEF Booked, InStep, Own
    <3>2. SumFunctionOnSet(g, Booked(b)) <= AssetHourly
      BY <1>12 DEF LedgerInv, BookedHolds
    <3> QED BY <1>11, <1>13, <3>1, <3>2
  <2> QED BY <2>1, <2>2
<1>16. HourlyHolds'
  <2> SUFFICES ASSUME client = "control", NEW b \in Assets, NEW t \in 0..MaxTime
               PROVE  SumFunctionOnSet(e, {j \in InStep(b)' : /\ reservations'[j].at > t - Window
                                                              /\ reservations'[j].at <= t}) <= AssetHourly
    BY DEF HourlyHolds, Total, e, AmountOf
  <2> DEFINE N == {j \in InStep(b)' : reservations'[j].at > t - Window /\ reservations'[j].at <= t}
             O == {j \in InStep(b) : reservations[j].at > t - Window /\ reservations[j].at <= t}
  <2>0. t \in Nat
    BY LedgerAssumption
  <2>1. CASE b = a /\ t >= w /\ ~Skewed(a, w)
    <3>1. SumFunctionOnSet(f, U) + n <= AssetHourly
      BY <1>6
    <3>2. N \ {i} \in SUBSET U
      BY <1>8, <2>0, <2>1
    <3> HIDE DEF N
    <3>3. SumFunctionOnSet(e, N) <= AssetHourly
      BY <1>2, <1>5, <1>9, <1>13, <3>1, <3>2
    <3> QED BY <3>3 DEF N
  <2>2. CASE b # a \/ t < w \/ Skewed(a, w)
    <3>1. \A j \in N : reservations'[j] = reservations[j] /\ j \in InStep(b)
      BY <1>2, <1>3, <1>10a, <2>0, <2>2
    <3>2. N \in SUBSET O /\ O \in SUBSET Ids
      BY <3>1 DEF Own, InStep
    <3>3. SumFunctionOnSet(g, O) <= AssetHourly
      BY <1>12 DEF LedgerInv, HourlyHolds
    <3> HIDE DEF N, O
    <3>4. SumFunctionOnSet(e, N) <= AssetHourly
      BY <1>11, <1>13, <3>1, <3>2, <3>3
    <3> QED BY <3>4 DEF N
  <2> QED BY <1>2, <2>0, <2>1, <2>2
<1> QED BY <1>14, <1>15, <1>16

\* Nothing is reserved at first.
LEMMA InitLedger == LedgerInit => LedgerInv
<1> SUFFICES ASSUME LedgerInit PROVE LedgerInv
  OBVIOUS
<1>1. LedgerTyped /\ Timely
  BY DEF LedgerInit, LedgerTyped, Timely, Row, SnapshotRead, Absent, NoRec
<1>2. \A a \in Assets : Own(a) = {}
  BY LedgerAssumption DEF LedgerInit, Own, Absent
<1>3. \A a \in Assets : \A S \in SUBSET Own(a) : Total(S) = 0
  <2> SUFFICES ASSUME NEW a \in Assets, NEW S \in SUBSET Own(a) PROVE Total(S) = 0
    OBVIOUS
  <2>1. S = {}
    BY <1>2
  <2> QED BY <2>1, SumEmpty, Zenon DEF Total
<1>4. PerAsset >= 0 /\ AssetHourly >= 0
  BY LedgerAssumption
<1>5. CapHolds /\ BookedHolds /\ HourlyHolds
  BY <1>3, <1>4 DEF CapHolds, BookedHolds, HourlyHolds, Booked, InStep
<1> QED BY <1>1, <1>5 DEF LedgerInv

\* Time passes: what the hour that ends now counts was counted before.
LEMMA TickLedger ==
  ASSUME LedgerInv, LedgerTick PROVE LedgerInv'
<1>1. /\ time' = time + 1 /\ UNCHANGED <<reservations, reconcile, client>>
      /\ time \in Nat /\ reservations \in [Ids -> Row] /\ Window \in Nat /\ AssetHourly \in Nat
  BY LedgerAssumption DEF LedgerTick, LedgerInv, LedgerTyped
<1>2. LedgerTyped'
  BY <1>1 DEF LedgerInv, LedgerTyped
<1>3. Timely'
  BY <1>1 DEF LedgerInv, Timely, Row
<1>4. CapHolds' /\ HourlyHolds'
  BY <1>1 DEF LedgerInv, CapHolds, HourlyHolds, Own, InStep, Total
<1>5. BookedHolds'
  <2> SUFFICES ASSUME client = "control", NEW a \in Assets PROVE Total(Booked(a)') <= AssetHourly
    BY <1>1 DEF BookedHolds, Total
  <2>1. Booked(a)' \in SUBSET Booked(a) /\ Booked(a) \in SUBSET Ids
    BY <1>1 DEF Booked, Own, InStep, Row
  <2>2. IsFiniteSet(Booked(a)) /\ \A i \in Booked(a) : AmountOf(reservations)[i] \in Nat
    BY <1>1, <2>1, RowsSum
  <2>3. /\ Total(Booked(a)) <= AssetHourly
        /\ \A S : Total(S) = SumFunctionOnSet(AmountOf(reservations), S)
    BY DEF LedgerInv, BookedHolds, Total, AmountOf
  <2>4. /\ SumFunctionOnSet(AmountOf(reservations), Booked(a)') \in Nat
        /\ SumFunctionOnSet(AmountOf(reservations), Booked(a)) \in Nat
        /\ SumFunctionOnSet(AmountOf(reservations), Booked(a)')
             <= SumFunctionOnSet(AmountOf(reservations), Booked(a))
    BY <2>1, <2>2, SumSubset
  <2> QED BY <1>1, <2>3, <2>4
<1> QED BY <1>2, <1>3, <1>4, <1>5 DEF LedgerInv

\* A table whose rows are as they were, or empty, is within all limits.
LEMMA NothingReserved ==
  ASSUME LedgerInv, reservations' \in [Ids -> Row], UNCHANGED <<time, client>>,
         \A i \in Ids : reservations'[i] \in {Absent, reservations[i]}
  PROVE  Timely' /\ CapHolds' /\ BookedHolds' /\ HourlyHolds'
<1>1. Absent.asset = NoAsset /\ NoAsset \notin Assets
  BY LedgerAssumption DEF Absent
<1>2. \A i \in Ids : reservations'[i].asset \in Assets /\ ~reservations'[i].imported =>
        Becomes(reservations[i], reservations'[i])
  BY <1>1 DEF Becomes
<1>3. Timely'
  BY DEF LedgerInv, LedgerTyped, Timely, Absent
<1> QED BY <1>2, <1>3, NoneAdded

\* A reservation, allowed or not, keeps the invariant.
LEMMA ReservingLedger ==
  ASSUME LedgerInv, NEW i \in Ids, NEW a \in Assets, NEW n \in Amounts,
         NEW d \in Denoms \cup {NoDenom}, NEW w \in Nat,
         client = "adapter" => FitsAsset(a, n, w),
         client = "control" => Usage(a, w) + n <= AssetHourly,
         reservations' = [Unexpired(w) EXCEPT ![i] = Reserved(a, n, d, w)],
         UNCHANGED <<reconcile, time, client>>
  PROVE  LedgerInv'
<1>0. LedgerTyped /\ Timely
  BY DEF LedgerInv
<1>1. /\ Unexpired(w) \in [Ids -> Row]
      /\ \A j \in Ids : Unexpired(w)[j] \in {Absent, reservations[j]}
  BY <1>0, UnexpiredRows DEF Unexpired
<1>2. Reserved(a, n, d, w) \in Row
  BY <1>0, LedgerAssumption DEF Reserved, Row, LedgerTyped, Skewed
<1>3. LedgerTyped'
  BY <1>0, <1>1, <1>2 DEF LedgerTyped
<1>4. Timely'
  <2>1. ~Skewed(a, w) => w <= time
    BY <1>0 DEF Skewed, LedgerTyped
  <2> QED BY <1>0, <1>1, <2>1 DEF Timely, LedgerTyped, Absent, Reserved
<1>5. CapHolds' /\ BookedHolds' /\ HourlyHolds'
  BY ReservationFits
<1> QED BY <1>3, <1>4, <1>5 DEF LedgerInv

\* A step that keeps time, client and all but empty rows keeps the invariant.
LEMMA ForgettingLedger ==
  ASSUME LedgerInv, NEW w \in Nat, reservations' \in {Unexpired(w), reservations},
         reconcile' \in SnapshotRead, UNCHANGED <<time, client>>
  PROVE  LedgerInv'
<1>0. LedgerTyped /\ Timely
  BY DEF LedgerInv
<1>1. /\ Unexpired(w) \in [Ids -> Row]
      /\ \A j \in Ids : Unexpired(w)[j] \in {Absent, reservations[j]}
  BY <1>0, UnexpiredRows DEF Unexpired
<1>2. LedgerTyped' /\ reservations' \in [Ids -> Row]
  BY <1>0, <1>1 DEF LedgerTyped
<1>3. \A i \in Ids : reservations'[i] \in {Absent, reservations[i]}
  BY <1>1
<1> QED BY <1>2, <1>3, NothingReserved DEF LedgerInv

\* Every step of the ledger and of its two front ends keeps the invariant.
LEMMA NextLedger == LedgerInv /\ [LedgerNext]_ledgerVars => LedgerInv'
<1> SUFFICES ASSUME LedgerInv, [LedgerNext]_ledgerVars PROVE LedgerInv'
  OBVIOUS
<1>0. LedgerTyped /\ Timely /\ reconcile \in SnapshotRead /\ reservations \in [Ids -> Row]
  BY DEF LedgerInv, LedgerTyped
<1>1. ASSUME NEW i \in Ids, NEW a \in Assets, NEW n \in Amounts, NEW w \in Nat,
             NEW d \in Denoms \cup {NoDenom}, ReserveWithin(i, a, n, d, w)
      PROVE  LedgerInv'
  <2>1. client = "adapter" /\ UNCHANGED <<reconcile, time, client>>
    BY <1>1 DEF ReserveWithin
  <2>2. CASE reservations' \in {Unexpired(w), reservations}
    BY <1>0, <2>1, <2>2, ForgettingLedger
  <2>3. CASE reservations' \notin {Unexpired(w), reservations}
    <3>1. FitsAsset(a, n, w) /\ reservations' = [Unexpired(w) EXCEPT ![i] = Reserved(a, n, d, w)]
      BY <1>1, <2>3 DEF ReserveWithin
    <3> QED BY <2>1, <3>1, ReservingLedger
  <2> QED BY <2>2, <2>3
<1>2. ASSUME NEW i \in Ids, NEW a \in Assets, NEW n \in Amounts, NEW w \in Nat,
             ControlReserve(i, a, n, w)
      PROVE  LedgerInv'
  <2>1. client = "control" /\ UNCHANGED <<reconcile, time, client>>
    BY <1>2 DEF ControlReserve
  <2>2. CASE Fits(i, a, n, w)
    <3>1. /\ Usage(a, w) + n <= AssetHourly
          /\ reservations' = [Unexpired(w) EXCEPT ![i] = Reserved(a, n, NoDenom, w)]
      BY <1>2, <2>2 DEF ControlReserve, Fits
    <3> QED BY <2>1, <3>1, ReservingLedger
  <2>3. CASE ~Fits(i, a, n, w)
    BY <1>0, <1>2, <2>1, <2>3, ForgettingLedger DEF ControlReserve
  <2> QED BY <2>2, <2>3
<1>3. ASSUME NEW i \in Ids, Release(i) PROVE LedgerInv'
  <2>1. /\ reservations' = [reservations EXCEPT ![i] = Absent]
        /\ UNCHANGED <<reconcile, time, client>>
    BY <1>3 DEF Release
  <2>2. Absent \in Row
    BY DEF Absent, Row
  <2>3. reservations' \in [Ids -> Row]
    BY <1>0, <2>1, <2>2
  <2>4. \A j \in Ids : reservations'[j] \in {Absent, reservations[j]}
    BY <1>0, <2>1
  <2>5. LedgerTyped'
    BY <1>0, <2>1, <2>3 DEF LedgerTyped
  <2> QED BY <2>1, <2>3, <2>4, <2>5, NothingReserved DEF LedgerInv
<1>4. ASSUME NEW i \in Ids, Commit(i) PROVE LedgerInv'
  <2>1. /\ reservations[i].state = "reserved" /\ UNCHANGED <<reconcile, time, client>>
        /\ reservations' = [reservations EXCEPT ![i].state = "committed", ![i].at = time,
                                                ![i].expires = time]
    BY <1>4 DEF Commit
  <2> DEFINE r == reservations[i]
             r1 == [r EXCEPT !.state = "committed"]
             r2 == [r1 EXCEPT !.at = time]
             done == [r2 EXCEPT !.expires = time]
  <2>2. r \in Row /\ time \in Nat
    BY <1>0 DEF LedgerTyped
  <2>3. /\ r1 \in Row /\ r1.state = "committed" /\ r1.asset = r.asset
        /\ r1.amount = r.amount /\ r1.imported = r.imported /\ r1.skewed = r.skewed
    BY <2>2 DEF Row
  <2> HIDE DEF r1
  <2>4. /\ r2 \in Row /\ r2.state = "committed" /\ r2.at = time /\ r2.asset = r.asset
        /\ r2.amount = r.amount /\ r2.imported = r.imported /\ r2.skewed = r.skewed
    BY <2>2, <2>3 DEF Row
  <2> HIDE DEF r2
  <2>5. /\ done \in Row /\ done.state = "committed" /\ done.at = time
        /\ done.asset = r.asset /\ done.amount = r.amount /\ done.imported = r.imported
        /\ done.skewed = r.skewed
    BY <2>2, <2>4 DEF Row
  <2>6. reservations' = [reservations EXCEPT ![i] = done]
    BY <1>0, <2>1, Zenon DEF r1, r2
  <2> HIDE DEF done
  <2>7. LedgerTyped' /\ reservations' \in [Ids -> Row]
    BY <1>0, <2>1, <2>5, <2>6 DEF LedgerTyped
  <2>8. \A j \in Ids : reservations'[j].asset \in Assets /\ ~reservations'[j].imported =>
          Becomes(reservations[j], reservations'[j])
    BY <1>0, <2>1, <2>5, <2>6 DEF Becomes
  <2>9. Timely'
    BY <1>0, <2>1, <2>2, <2>5, <2>6 DEF Timely
  <2>10. CapHolds' /\ BookedHolds' /\ HourlyHolds'
    BY <2>1, <2>7, <2>8, NoneAdded
  <2> QED BY <2>7, <2>9, <2>10 DEF LedgerInv
<1>5. ASSUME NEW S \in SUBSET Ids, NEW a \in Assets, NEW n \in SnapshotAmounts,
             NEW t \in SnapshotTimes, ReconcileRead(S, a, n, t)
      PROVE  LedgerInv'
  <2>1. Differ(S, a, n) \in BOOLEAN
    BY DEF Differ
  <2>2. reconcile' \in SnapshotRead
    BY <1>5, <2>1, LedgerAssumption DEF ReconcileRead, SnapshotRead
  <2>3. time \in Nat
    BY <1>0 DEF LedgerTyped
  <2> QED BY <1>5, <2>2, <2>3, ForgettingLedger DEF ReconcileRead
<1>6. CASE ReconcileWrite
  <2> DEFINE import == [state |-> "committed", asset |-> reconcile.asset,
                        amount |-> reconcile.amount, at |-> reconcile.at,
                        expires |-> reconcile.at, denom |-> NoDenom, imported |-> TRUE,
                        skewed |-> FALSE]
  <2>1. import \in Row
    BY <1>0 DEF Row, SnapshotRead
  <2>2. /\ reservations' = [i \in Ids |-> IF i \in reconcile.ids /\ reservations[i].state = "absent"
                                          THEN import ELSE reservations[i]]
        /\ reconcile' = NoRec /\ UNCHANGED <<time, client>>
    BY <1>6 DEF ReconcileWrite
  <2>3. import.state = "committed" /\ import.imported
    OBVIOUS
  <2> HIDE DEF import
  <2>4. reservations' \in [Ids -> Row] /\ \A i \in Ids : reservations'[i] \in {import, reservations[i]}
    BY <1>0, <2>1, <2>2
  <2>5. LedgerTyped'
    BY <1>0, <2>2, <2>4 DEF LedgerTyped, SnapshotRead, NoRec
  <2>6. Timely'
    BY <1>0, <2>2, <2>3, <2>4 DEF Timely
  <2>7. \A i \in Ids : reservations'[i].asset \in Assets /\ ~reservations'[i].imported =>
          Becomes(reservations[i], reservations'[i])
    BY <2>3, <2>4 DEF Becomes
  <2>8. CapHolds' /\ BookedHolds' /\ HourlyHolds'
    BY <2>2, <2>4, <2>7, NoneAdded
  <2> QED BY <2>5, <2>6, <2>8 DEF LedgerInv
<1>7. CASE LedgerTick
  BY <1>7, TickLedger
<1>8. CASE UNCHANGED ledgerVars
  BY <1>0, <1>8, ForgettingLedger DEF ledgerVars
<1>9. Callers \subseteq Nat
  BY LedgerAssumption DEF Callers
<1> QED BY <1>1, <1>2, <1>3, <1>4, <1>5, <1>6, <1>7, <1>8, <1>9 DEF LedgerNext

\* Whatever is reserved, committed, released or left to expire, in whatever
\* order and with reconciles between: reserveWithin never lets an asset's rows
\* add up to more than its cap.
THEOREM LedgerCapHolds == LedgerSpec => []CapHolds
<1>1. LedgerInv => CapHolds
  BY DEF LedgerInv
<1> QED BY <1>1, InitLedger, NextLedger, PTL DEF LedgerSpec

\* In no hour is more reserved or committed for an asset than TradingControl's
\* hourly limit allows, although a commit moves a row to a later hour: the
\* reservations still open count in the hour that ends now (BookedHolds).  Left out
\* are the requests whose caller's clock was ahead of the ledger's or behind a row.
THEOREM LedgerHourlyHolds == LedgerSpec => []HourlyHolds
<1>1. LedgerInv => HourlyHolds
  BY DEF LedgerInv
<1> QED BY <1>1, InitLedger, NextLedger, PTL DEF LedgerSpec

-----------------------------------------------------------------------------
(* The signer.                                                             *)

\* The states of a row whose bytes exist
Signed == {"signed", "broadcast", "reconciliation", "confirmed", "reverted", "dropped"}

\* What a sign request relies on after its awaits
CallAgrees(c) ==
  LET s == row[call[c].auth].state
  IN  /\ call[c].at # "idle" => call[c].auth \in Auths
      /\ call[c].at = "verify" /\ call[c].prior => s \in Signed
      /\ call[c].at \in {"height", "fence"} => s = "claimed"
      /\ call[c].at \in {"send", "record"} => s \in Signed

\* No two requests hold the same claim
ClaimsApart ==
  \A c, d \in Calls :
    /\ call[c].at \in {"height", "fence"}
    /\ call[d].at \in {"height", "fence"}
    /\ call[c].auth = call[d].auth
    => c = d

\* What a reconciliation relies on after its awaits
RecAgrees(k) ==
  LET m == MessageOf[rec[k].auth]
  IN  /\ rec[k].at # "idle" => rec[k].auth \in Auths /\ rec[k].from \in Unsettled
      /\ rec[k].at = "apply" /\ rec[k].status \in {"confirmed", "error"} =>
           chain[m] = rec[k].status
      /\ rec[k].at = "drop" => rec[k].height <= height

\* A dropped row's transaction can no longer land
DroppedIsDead ==
  \A a \in Auths : row[a].state = "dropped" => height > LastValid[MessageOf[a]]

Agrees ==
  /\ \A c \in Calls : CallAgrees(c)
  /\ ClaimsApart
  /\ \A k \in Reconcilers : RecAgrees(k)
  /\ DroppedIsDead

SignerInv == TypeOK /\ Agrees /\ SignedAtMostOnce /\ SettledAgrees

-----------------------------------------------------------------------------

\* An empty replay store and an idle daemon satisfy the invariant.
LEMMA SignerInitInv == SignerInit => SignerInv
<1> SUFFICES ASSUME SignerInit PROVE SignerInv
  OBVIOUS
<1>1. Idle \in Call /\ IdleRec \in Rec
  BY DEF Idle, Call, IdleRec, Rec, States, Chain
<1>2. TypeOK
  BY <1>1 DEF SignerInit, TypeOK, States, Chain
<1>3. Agrees
  BY DEF SignerInit, Agrees, CallAgrees, ClaimsApart, RecAgrees, DroppedIsDead, Idle, IdleRec
<1>4. SignedAtMostOnce /\ SettledAgrees
  BY DEF SignerInit, SignedAtMostOnce, SettledAgrees
<1> QED BY <1>2, <1>3, <1>4 DEF SignerInv

\* A row that keeps its state among the signed ones, or moves within them, disturbs
\* no request and no count.
LEMMA StoreMoves ==
  ASSUME SignerInv, NEW a \in Auths, NEW from \in Signed, NEW to \in Signed, Move(a, from, to)
  PROVE  /\ row' \in [Auths -> [state : States, recovered : BOOLEAN]]
         /\ \A b \in Auths : row'[b].state \in Signed <=> row[b].state \in Signed
         /\ \A b \in Auths : row[b].state \notin Signed => row'[b].state = row[b].state
         /\ \A b \in Auths : row'[b].state # row[b].state => b = a /\ row'[b].state = to
<1>1. row \in [Auths -> [state : States, recovered : BOOLEAN]]
  BY DEF SignerInv, TypeOK
<1> QED BY <1>1 DEF Move, Signed, States

\* Requests: lookup, claim, height, fence, send and record.
LEMMA SignStep ==
  ASSUME SignerInv, NEW c \in Calls, Sign(c)
  PROVE  SignerInv'
<1> USE DEF SignerInv
<1>0. Idle \in Call /\ call[c] \in Call
  BY DEF Idle, Call, TypeOK
<1>1. ASSUME NEW a \in Auths, NEW b \in BOOLEAN, SignLookup(c, a, b) PROVE SignerInv'
  <2>1. call' = [call EXCEPT ![c] = [Idle EXCEPT !.at = "verify", !.auth = a,
                   !.prior = HasPrior(a), !.broadcast = b]]
    BY <1>1 DEF SignLookup
  <2>2. HasPrior(a) \in BOOLEAN /\ (HasPrior(a) => row[a].state \in Signed)
    BY DEF HasPrior, Signed
  <2>3. [Idle EXCEPT !.at = "verify", !.auth = a, !.prior = HasPrior(a), !.broadcast = b] \in Call
    BY <2>2, Zenon, <1>0 DEF Call
  <2> QED
    BY <1>1, <2>1, <2>2, <2>3
    DEF SignLookup, store, cluster, TypeOK, Agrees, CallAgrees, ClaimsApart, RecAgrees,
        DroppedIsDead, SignedAtMostOnce, SettledAgrees, Idle
<1>2. ASSUME SignVerified(c) PROVE SignerInv'
  <2> DEFINE a == call[c].auth
  <2>0. call[c].at = "verify" /\ a \in Auths
    BY <1>2 DEF SignVerified, Agrees, CallAgrees
  <2>1. CASE call[c].prior /\ call' = [call EXCEPT ![c] = Answered(c)] /\ UNCHANGED store
    <3>1. Answered(c) \in Call /\ Answered(c).at \in {"idle", "send"}
          /\ (Answered(c).at = "send" => Answered(c).auth = a)
      BY <1>0 DEF Answered, Call, Idle
    <3> QED
      BY <1>2, <2>0, <2>1, <3>1
      DEF SignVerified, store, cluster, TypeOK, Agrees, CallAgrees, ClaimsApart, RecAgrees,
          DroppedIsDead, SignedAtMostOnce, SettledAgrees
  <2>2. CASE /\ Claimable(a)
             /\ row' = [row EXCEPT ![a].state = "claimed"]
             /\ call' = [call EXCEPT ![c].at = "height"]
             /\ UNCHANGED signings
    <3>1. [call[c] EXCEPT !.at = "height"] \in Call
      BY <1>0 DEF Call
    <3>2. /\ row' \in [Auths -> [state : States, recovered : BOOLEAN]]
          /\ row[a].state = "absent" /\ row'[a].state = "claimed"
          /\ \A b \in Auths \ {a} : row'[b] = row[b]
      BY <2>0, <2>2 DEF TypeOK, Claimable, States
    <3>3. TypeOK'
      BY <1>2, <2>2, <3>1, <3>2 DEF SignVerified, cluster, TypeOK
    <3>4. Agrees'
      BY <1>2, <2>0, <2>2, <3>1, <3>2
      DEF SignVerified, cluster, TypeOK, Agrees, CallAgrees, ClaimsApart, RecAgrees,
          DroppedIsDead, Signed
    <3> QED
      BY <1>2, <2>0, <2>2, <3>2, <3>3, <3>4
      DEF SignVerified, cluster, TypeOK, SignedAtMostOnce, SettledAgrees
  <2>3. CASE call' = [call EXCEPT ![c] = Idle] /\ UNCHANGED store
    BY <1>0, <1>2, <2>3
    DEF SignVerified, store, cluster, TypeOK, Agrees, CallAgrees, ClaimsApart, RecAgrees,
        DroppedIsDead, SignedAtMostOnce, SettledAgrees, Idle
  <2> QED BY <1>2, <2>1, <2>2, <2>3 DEF SignVerified
<1>3. ASSUME SignHeight(c) PROVE SignerInv'
  <2>1. [call[c] EXCEPT !.at = "fence", !.height = height] \in Call
    BY <1>0 DEF Call, TypeOK
  <2>2. PICK x \in Call : /\ call' = [call EXCEPT ![c] = x]
                          /\ x.at \in {"idle", "fence"}
                          /\ x.at = "fence" => x.auth = call[c].auth
    <3>1. CASE call' = [call EXCEPT ![c] = Idle]
      BY <1>0, <3>1 DEF Idle
    <3>2. CASE call' = [call EXCEPT ![c].at = "fence", ![c].height = height]
      BY <1>0, <2>1, <3>2 DEF TypeOK, Call
    <3> QED BY <1>3, <3>1, <3>2 DEF SignHeight
  <2>3. call[c].at = "height" /\ UNCHANGED <<row, signings, rec, fresh, height, chain>>
    BY <1>3 DEF SignHeight, store, cluster
  <2>4. TypeOK'
    BY <2>2, <2>3 DEF TypeOK
  <2>5. Agrees'
    <3>1. \A d \in Calls : CallAgrees(d)'
      BY <2>2, <2>3 DEF TypeOK, Agrees, CallAgrees
    <3>2. ClaimsApart'
      BY <2>2, <2>3 DEF TypeOK, Agrees, ClaimsApart
    <3> QED BY <2>3, <3>1, <3>2 DEF Agrees, RecAgrees, DroppedIsDead
  <2> QED BY <2>3, <2>4, <2>5 DEF SignedAtMostOnce, SettledAgrees
<1>4. ASSUME SignFence(c) PROVE SignerInv'
  <2> DEFINE a == call[c].auth
  <2>0. a \in Auths /\ row[a].state = "claimed" /\ signings[a] = 0
    BY <1>4 DEF SignFence, Agrees, CallAgrees, SignedAtMostOnce
  <2>1. PICK to \in {"expired", "signed", "failed"}, x \in {Idle, Answered(c)} :
          /\ Move(a, "claimed", to)
          /\ call' = [call EXCEPT ![c] = x]
          /\ to = "signed" => signings' = [signings EXCEPT ![a] = @ + 1]
          /\ to # "signed" => UNCHANGED signings /\ x = Idle
    BY <1>4, <2>0 DEF SignFence
  <2>2. x \in Call /\ x.at \in {"idle", "send"} /\ (x.at = "send" => x.auth = a /\ to = "signed")
    BY <1>0, <2>1 DEF Answered, Call, Idle
  <2>3. /\ row' \in [Auths -> [state : States, recovered : BOOLEAN]]
        /\ row'[a].state = to
        /\ \A b \in Auths \ {a} : row'[b] = row[b]
    BY <2>0, <2>1 DEF TypeOK, Move, States
  <2>4. /\ signings' \in [Auths -> Nat]
        /\ signings'[a] = IF to = "signed" THEN 1 ELSE 0
        /\ \A b \in Auths \ {a} : signings'[b] = signings[b]
    BY <2>0, <2>1 DEF TypeOK
  <2>5. TypeOK'
    BY <1>4, <2>1, <2>2, <2>3, <2>4 DEF SignFence, cluster, TypeOK
  <2>6. Agrees'
    <3>0. call[c].at = "fence" /\ UNCHANGED <<rec, fresh, height, chain>>
      BY <1>4 DEF SignFence, cluster
    <3>1. \A d \in Calls : CallAgrees(d)'
      BY <2>0, <2>1, <2>2, <2>3, <3>0 DEF TypeOK, Agrees, CallAgrees, ClaimsApart, Signed
    <3>2. ClaimsApart'
      BY <2>1, <2>2 DEF TypeOK, Agrees, ClaimsApart
    <3>3. \A k \in Reconcilers : RecAgrees(k)'
      BY <3>0 DEF Agrees, RecAgrees
    <3>4. DroppedIsDead'
      BY <2>3, <3>0 DEF Agrees, DroppedIsDead
    <3> QED BY <3>1, <3>2, <3>3, <3>4 DEF Agrees
  <2> QED
    BY <1>4, <2>0, <2>3, <2>4, <2>5, <2>6
    DEF SignFence, cluster, TypeOK, SignedAtMostOnce, SettledAgrees
<1>5. ASSUME SendTransaction(c) PROVE SignerInv'
  <2>0. call[c].auth \in Auths
    BY <1>5 DEF SendTransaction, Agrees, CallAgrees
  <2>1. \A y \in {"match", "mismatch"} : [call[c] EXCEPT !.at = "record", !.answer = y] \in Call
    BY <1>0 DEF Call
  <2>2. /\ chain' \in [Messages -> Chain]
        /\ \A m \in Messages : chain[m] # "none" => chain'[m] = chain[m]
    BY SignerAssumption, <1>5, <2>0 DEF SendTransaction, Accept, TypeOK, Chain
  <2>3. TypeOK'
    BY <1>0, <1>5, <2>1, <2>2 DEF SendTransaction, store, TypeOK
  <2>4. Agrees'
    <3>0. /\ UNCHANGED <<row, signings, rec, fresh, height>>
          /\ \A d \in Calls \ {c} : call'[d] = call[d]
          /\ call'[c].at \in {"idle", "record"}
          /\ call'[c].at = "record" => call'[c].auth = call[c].auth /\ call[c].at = "send"
      BY <1>0, <1>5 DEF SendTransaction, store, TypeOK, Idle, Call
    <3>1. \A d \in Calls : CallAgrees(d)'
      BY <3>0 DEF Agrees, CallAgrees
    <3>2. ClaimsApart'
      BY <3>0 DEF Agrees, ClaimsApart
    <3>3. \A k \in Reconcilers : RecAgrees(k)'
      BY SignerAssumption, <2>2, <3>0 DEF Agrees, RecAgrees
    <3>4. DroppedIsDead'
      BY <3>0 DEF Agrees, DroppedIsDead
    <3> QED BY <3>1, <3>2, <3>3, <3>4 DEF Agrees
  <2> QED
    BY SignerAssumption, <1>5, <2>2, <2>3, <2>4
    DEF SendTransaction, store, TypeOK, SignedAtMostOnce, SettledAgrees
<1>6. ASSUME RecordBroadcast(c) PROVE SignerInv'
  <2>0. PICK to \in {"broadcast", "reconciliation"} : Move(call[c].auth, "signed", to)
    BY <1>6 DEF RecordBroadcast
  <2>1. call[c].auth \in Auths /\ "signed" \in Signed /\ to \in Signed
    BY <1>6 DEF RecordBroadcast, Agrees, CallAgrees, Signed
  <2>2. /\ row' \in [Auths -> [state : States, recovered : BOOLEAN]]
        /\ \A b \in Auths : row'[b].state \in Signed <=> row[b].state \in Signed
        /\ \A b \in Auths : row[b].state \notin Signed => row'[b].state = row[b].state
        /\ \A b \in Auths : row'[b].state # row[b].state => row'[b].state = to
    BY <2>0, <2>1, StoreMoves
  <2>3. TypeOK'
    BY <1>0, <1>6, <2>2 DEF RecordBroadcast, cluster, TypeOK
  <2>4. Agrees'
    BY <1>0, <1>6, <2>2, <2>3
    DEF RecordBroadcast, cluster, TypeOK, Agrees, CallAgrees, ClaimsApart, RecAgrees,
        DroppedIsDead, Idle, Signed
  <2>5. SignedAtMostOnce'
    BY <1>6, <2>2, <2>3 DEF RecordBroadcast, TypeOK, SignedAtMostOnce, Signed, States
  <2>6. SettledAgrees'
    BY <1>6, <2>2 DEF RecordBroadcast, cluster, SettledAgrees
  <2> QED BY <2>3, <2>4, <2>5, <2>6
<1> QED BY <1>1, <1>2, <1>3, <1>4, <1>5, <1>6 DEF Sign

\* Reconciliation: list, status, settlement, height and drop.
LEMMA ReconcileStep ==
  ASSUME SignerInv, NEW k \in Reconcilers, Reconcile(k)
  PROVE  SignerInv'
<1> USE DEF SignerInv
<1>0. IdleRec \in Rec /\ rec[k] \in Rec /\ IdleRec.at = "idle"
  BY DEF IdleRec, Rec, TypeOK, States, Chain
\* What remains to be shown of a step that leaves the rows alone
<1>a. ASSUME NEW r \in Rec, rec' = [rec EXCEPT ![k] = r],
             UNCHANGED <<store, call, fresh, cluster>>,
             r.at # "idle" => r.auth \in Auths /\ r.from \in Unsettled,
             r.at = "apply" /\ r.status \in {"confirmed", "error"} =>
               chain[MessageOf[r.auth]] = r.status,
             r.at = "drop" => r.height <= height
      PROVE  SignerInv'
  <2>1. TypeOK'
    BY <1>a DEF store, cluster, TypeOK
  <2>2. Agrees'
    BY <1>a
    DEF store, cluster, TypeOK, Agrees, CallAgrees, ClaimsApart, RecAgrees, DroppedIsDead
  <2> QED
    BY <1>a, <2>1, <2>2 DEF store, cluster, SignedAtMostOnce, SettledAgrees
\* What remains to be shown of a step that moves the listed row and ends
<1>b. ASSUME NEW a \in Auths, NEW from \in Unsettled, NEW to \in Signed, Move(a, from, to),
             rec' = [rec EXCEPT ![k] = IdleRec], UNCHANGED <<signings, call, fresh, cluster>>,
             to = "confirmed" => chain[MessageOf[a]] = "confirmed",
             to = "reverted" => chain[MessageOf[a]] = "error",
             to = "dropped" => height > LastValid[MessageOf[a]]
      PROVE  SignerInv'
  <2>1. from \in Signed
    BY DEF Unsettled, Signed
  <2>2. /\ row' \in [Auths -> [state : States, recovered : BOOLEAN]]
        /\ \A b \in Auths : row'[b].state \in Signed <=> row[b].state \in Signed
        /\ \A b \in Auths : row[b].state \notin Signed => row'[b].state = row[b].state
        /\ \A b \in Auths : row'[b].state # row[b].state => b = a /\ row'[b].state = to
    BY <1>b, <2>1, StoreMoves
  <2>3. TypeOK'
    BY <1>0, <1>b, <2>2 DEF cluster, TypeOK
  <2>4. Agrees'
    <3>1. \A c \in Calls : CallAgrees(c)'
      BY <1>b, <2>2 DEF Agrees, CallAgrees, Signed
    <3>2. ClaimsApart'
      BY <1>b DEF Agrees, ClaimsApart
    <3>3. \A j \in Reconcilers : RecAgrees(j)'
      BY <1>0, <1>b DEF cluster, TypeOK, Agrees, RecAgrees
    <3>4. DroppedIsDead'
      BY <1>b, <2>2 DEF cluster, Agrees, DroppedIsDead
    <3> QED BY <3>1, <3>2, <3>3, <3>4 DEF Agrees
  <2>5. SignedAtMostOnce'
    BY <1>b, <2>2, <2>3 DEF TypeOK, SignedAtMostOnce, Signed, States
  <2>6. SettledAgrees'
    BY <1>b, <2>2 DEF cluster, SettledAgrees
  <2> QED BY <2>3, <2>4, <2>5, <2>6
<1>1. ASSUME NEW a \in Auths, RecList(k, a) PROVE SignerInv'
  <2> DEFINE r == [IdleRec EXCEPT !.at = "status", !.auth = a, !.from = row[a].state]
  <2>1. r \in Rec /\ r.at = "status" /\ r.auth = a /\ r.from \in Unsettled
    BY <1>0, <1>1 DEF RecList, Rec, Unsettled, States
  <2> QED BY <1>1, <1>a, <2>1 DEF RecList
<1>2. ASSUME RecStatus(k) PROVE SignerInv'
  <2> DEFINE s == chain[MessageOf[rec[k].auth]]
             r == [rec[k] EXCEPT !.at = "apply", !.status = s]
  <2>1. rec[k].at = "status" /\ rec[k].auth \in Auths /\ rec[k].from \in Unsettled
    BY <1>2 DEF RecStatus, Agrees, RecAgrees
  <2>2. s \in Chain
    BY SignerAssumption, <2>1 DEF TypeOK
  <2>3. r \in Rec /\ r.at = "apply" /\ r.auth = rec[k].auth /\ r.from = rec[k].from /\ r.status = s
    BY <1>0, <2>2 DEF Rec
  <2>4. rec' = [rec EXCEPT ![k] = r] /\ UNCHANGED <<store, call, fresh, cluster>>
    BY <1>2 DEF RecStatus, TypeOK
  <2> QED BY <1>a, <2>1, <2>3, <2>4
<1>3. ASSUME RecApply(k) PROVE SignerInv'
  <2>0. rec[k].at = "apply" /\ rec[k].auth \in Auths /\ rec[k].from \in Unsettled
    BY <1>3 DEF RecApply, Agrees, RecAgrees
  <2>1. CASE rec[k].status \in Landed
    <3>1. /\ SettledAs(k) \in Signed
          /\ SettledAs(k) = "confirmed" => chain[MessageOf[rec[k].auth]] = "confirmed"
          /\ SettledAs(k) = "reverted" => chain[MessageOf[rec[k].auth]] = "error"
          /\ SettledAs(k) # "dropped"
      BY <2>0 DEF SettledAs, Signed, Agrees, RecAgrees
    <3> QED BY <1>3, <1>b, <2>0, <2>1, <3>1 DEF RecApply
  <2>2. CASE rec[k].status \notin Landed
    <3> DEFINE r == [rec[k] EXCEPT !.at = "height"]
    <3>1. r \in Rec /\ r.at = "height" /\ r.auth = rec[k].auth /\ r.from = rec[k].from
      BY <1>0 DEF Rec
    <3>2. rec' = [rec EXCEPT ![k] = r] /\ UNCHANGED <<store, call, fresh, cluster>>
      BY <1>3, <2>2 DEF RecApply, TypeOK, store
    <3> QED BY <1>a, <2>0, <3>1, <3>2
  <2> QED BY <2>1, <2>2
<1>4. ASSUME RecHeight(k) PROVE SignerInv'
  <2> DEFINE r == [rec[k] EXCEPT !.at = "drop", !.height = height]
  <2>0. rec[k].at = "height" /\ rec[k].auth \in Auths /\ rec[k].from \in Unsettled
    BY <1>4 DEF RecHeight, Agrees, RecAgrees
  <2>1. /\ r \in Rec /\ r.at = "drop" /\ r.auth = rec[k].auth /\ r.from = rec[k].from
        /\ r.height <= height
    <3>1. height \in Nat
      BY DEF TypeOK
    <3>2. r \in Rec /\ r.at = "drop" /\ r.auth = rec[k].auth /\ r.from = rec[k].from
          /\ r.height = height
      BY <1>0, <3>1 DEF Rec
    <3> QED BY <3>1, <3>2
  <2>2. rec' = [rec EXCEPT ![k] = r] /\ UNCHANGED <<store, call, fresh, cluster>>
    BY <1>4 DEF RecHeight, TypeOK
  <2> QED BY <1>a, <2>0, <2>1, <2>2
<1>5. ASSUME RecDrop(k) PROVE SignerInv'
  <2>0. rec[k].auth \in Auths /\ rec[k].from \in Unsettled /\ rec[k].height <= height
    BY <1>5 DEF RecDrop, Agrees, RecAgrees
  <2>1. CASE Dead(k)
    <3>1. height > LastValid[MessageOf[rec[k].auth]]
      BY SignerAssumption, <1>0, <2>0, <2>1 DEF Dead, TypeOK, Rec
    <3>2. "dropped" \in Signed
      BY DEF Signed
    <3> QED BY <1>5, <1>b, <2>0, <2>1, <3>1, <3>2 DEF RecDrop
  <2>2. CASE ~Dead(k)
    BY <1>0, <1>5, <1>a, <2>2 DEF RecDrop, store
  <2> QED BY <2>1, <2>2
<1>6. ASSUME RecFails(k) PROVE SignerInv'
  BY <1>0, <1>6, <1>a DEF RecFails
<1> QED BY <1>1, <1>2, <1>3, <1>4, <1>5, <1>6 DEF Reconcile

\* The host, the daemon's death, time and the cluster.
LEMMA OtherStep ==
  ASSUME SignerInv,
         \/ \E a \in Auths : ResultRaw(a) \/ HostSend(a) \/ EnvelopeExpires(a)
         \/ \E m \in Messages : Land(m) \/ Confirm(m)
         \/ Crash
         \/ Block
  PROVE  SignerInv'
<1> USE DEF SignerInv
<1>1. ASSUME NEW a \in Auths, ResultRaw(a) PROVE SignerInv'
  <2>1. /\ row' \in [Auths -> [state : States, recovered : BOOLEAN]]
        /\ \A b \in Auths : row'[b].state = row[b].state
    BY <1>1 DEF ResultRaw, TypeOK
  <2>2. TypeOK'
    BY <1>1, <2>1 DEF ResultRaw, cluster, TypeOK
  <2>3. Agrees'
    BY <1>1, <2>1
    DEF ResultRaw, cluster, Agrees, CallAgrees, ClaimsApart, RecAgrees, DroppedIsDead
  <2> QED
    BY <1>1, <2>1, <2>2, <2>3 DEF ResultRaw, cluster, SignedAtMostOnce, SettledAgrees
\* The cluster moves on: what was confirmed or failed stays so
<1>a. ASSUME UNCHANGED <<store, call, rec, fresh, height>>, chain' \in [Messages -> Chain],
             \A m \in Messages : chain[m] \in {"confirmed", "error"} => chain'[m] = chain[m]
      PROVE  SignerInv'
  <2>1. TypeOK'
    BY <1>a DEF store, TypeOK
  <2>2. Agrees'
    BY SignerAssumption, <1>a
    DEF store, Agrees, CallAgrees, ClaimsApart, RecAgrees, DroppedIsDead
  <2> QED
    BY SignerAssumption, <1>a, <2>1, <2>2 DEF store, SignedAtMostOnce, SettledAgrees
<1>2. ASSUME NEW a \in Auths, HostSend(a) PROVE SignerInv'
  BY SignerAssumption, <1>2, <1>a DEF HostSend, Accept, TypeOK, Chain
<1>3. ASSUME NEW m \in Messages, Land(m) \/ Confirm(m) PROVE SignerInv'
  BY <1>3, <1>a DEF Land, Confirm, TypeOK, Chain, Landed
<1>4. ASSUME NEW a \in Auths, EnvelopeExpires(a) PROVE SignerInv'
  BY <1>4
  DEF EnvelopeExpires, store, cluster, TypeOK, Agrees, CallAgrees, ClaimsApart, RecAgrees,
      DroppedIsDead, SignedAtMostOnce, SettledAgrees
<1>5. ASSUME Crash PROVE SignerInv'
  <2>1. Idle \in Call /\ IdleRec \in Rec /\ Idle.at = "idle" /\ IdleRec.at = "idle"
    BY DEF Idle, Call, IdleRec, Rec, States, Chain
  <2>2. TypeOK'
    BY <1>5, <2>1 DEF Crash, store, cluster, TypeOK
  <2> QED
    BY <1>5, <2>1, <2>2
    DEF Crash, store, cluster, Agrees, CallAgrees, ClaimsApart, RecAgrees, DroppedIsDead,
        SignedAtMostOnce, SettledAgrees
<1>6. ASSUME Block PROVE SignerInv'
  <2>1. height \in Nat /\ height' = height + 1 /\ TypeOK'
    BY <1>6 DEF Block, store, TypeOK
  <2>2. \A a \in Auths : LastValid[MessageOf[a]] \in Nat
    BY SignerAssumption
  <2>3. DroppedIsDead'
    BY <1>6, <2>1, <2>2 DEF Block, store, Agrees, DroppedIsDead
  <2>4. \A k \in Reconcilers : rec[k].height \in Nat
    BY DEF TypeOK, Rec
  <2>5. \A k \in Reconcilers : RecAgrees(k)'
    BY <1>6, <2>1, <2>4 DEF Block, Agrees, RecAgrees
  <2> QED
    BY <1>6, <2>1, <2>3, <2>5
    DEF Block, store, Agrees, CallAgrees, ClaimsApart, SignedAtMostOnce, SettledAgrees
<1> QED BY <1>1, <1>2, <1>3, <1>4, <1>5, <1>6

\* The invariant is inductive.
LEMMA SignerInvStep == SignerInv /\ [SignerNext]_signerVars => SignerInv'
<1> SUFFICES ASSUME SignerInv, [SignerNext]_signerVars PROVE SignerInv'
  OBVIOUS
<1>1. CASE UNCHANGED signerVars
  BY <1>1
  DEF signerVars, SignerInv, TypeOK, Agrees, CallAgrees, ClaimsApart, RecAgrees, DroppedIsDead,
      SignedAtMostOnce, SettledAgrees
<1>2. CASE SignerNext
  BY <1>2, SignStep, ReconcileStep, OtherStep DEF SignerNext
<1> QED BY <1>1, <1>2

\* The invariant holds in every reachable state.
LEMMA InvAlways == SignerSpec => []SignerInv
<1>1. SignerInit => SignerInv
  BY SignerInitInv
<1>2. SignerInv /\ [SignerNext]_signerVars => SignerInv'
  BY SignerInvStep
<1> QED BY <1>1, <1>2, PTL DEF SignerSpec

-----------------------------------------------------------------------------

\* SignerService signs for an authorization at most once, whatever requests, deaths
\* and reconcilers interleave, and an expired or failed one was never signed.
THEOREM SignsOnce == SignerSpec => []SignedAtMostOnce
<1>1. SignerInv => SignedAtMostOnce
  BY DEF SignerInv
<1> QED BY <1>1, InvAlways, PTL

\* reconcileTransactions settles a row as confirmed or reverted only if the cluster did.
THEOREM SettlesAsLanded == SignerSpec => []SettledAgrees
<1>1. SignerInv => SettledAgrees
  BY DEF SignerInv
<1> QED BY <1>1, InvAlways, PTL

\* A row that reconcileTransactions dropped before its transaction landed is right
\* for ever.
THEOREM DropsForEver == SignerSpec => DroppedStaysOut
<1> DEFINE Stays == \A a \in Auths : LET m == MessageOf[a] IN
             row[a].state = "dropped" /\ chain[m] \notin Landed => chain'[m] \notin Landed
<1>1. SignerInv /\ [SignerNext]_signerVars => [Stays]_signerVars
  <2> SUFFICES ASSUME SignerInv, SignerNext, NEW a \in Auths, row[a].state = "dropped",
                      chain[MessageOf[a]] \notin Landed
               PROVE  chain'[MessageOf[a]] \notin Landed
    OBVIOUS
  <2>1. MessageOf[a] \in Messages /\ LastValid[MessageOf[a]] \in Nat /\ height \in Nat
        /\ height > LastValid[MessageOf[a]] /\ chain \in [Messages -> Chain]
    BY SignerAssumption DEF SignerInv, TypeOK, Agrees, DroppedIsDead
  <2>2. CASE UNCHANGED chain
    BY <2>2
  <2>3. ASSUME NEW m \in Messages, Accept(m) PROVE chain'[MessageOf[a]] \notin Landed
    BY <2>1, <2>3 DEF Accept, Landed
  <2>4. ASSUME NEW m \in Messages, Land(m) \/ Confirm(m)
        PROVE  chain'[MessageOf[a]] \notin Landed
    BY <2>1, <2>4 DEF Land, Confirm, Landed
  <2>5. ASSUME NEW c \in Calls, Sign(c) PROVE chain'[MessageOf[a]] \notin Landed
    <3>1. CASE SendTransaction(c)
      <4>1. call[c].auth \in Auths
        BY <3>1 DEF SendTransaction, SignerInv, Agrees, CallAgrees
      <4> QED BY SignerAssumption, <2>2, <2>3, <3>1, <4>1 DEF SendTransaction
    <3> QED
      BY <2>2, <2>5, <3>1
      DEF Sign, SignLookup, SignVerified, SignHeight, SignFence, RecordBroadcast, cluster
  <2>6. ASSUME NEW k \in Reconcilers, Reconcile(k) PROVE chain'[MessageOf[a]] \notin Landed
    BY <2>2, <2>6
    DEF Reconcile, RecList, RecStatus, RecApply, RecHeight, RecDrop, RecFails, cluster
  <2>7. ASSUME NEW b \in Auths, ResultRaw(b) \/ HostSend(b) \/ EnvelopeExpires(b)
        PROVE  chain'[MessageOf[a]] \notin Landed
    BY SignerAssumption, <2>2, <2>3, <2>7 DEF ResultRaw, HostSend, EnvelopeExpires, cluster
  <2>8. CASE Crash \/ Block
    BY <2>2, <2>8 DEF Crash, Block, cluster
  <2> QED BY <2>4, <2>5, <2>6, <2>7, <2>8 DEF SignerNext
<1> QED BY <1>1, InvAlways, PTL DEF SignerSpec, DroppedStaysOut
=============================================================================
