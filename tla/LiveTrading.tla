---------------------------- MODULE LiveTrading ----------------------------
(***************************************************************************)
(* The live-trading orchestrator: the durable execution row from execute   *)
(* through approval, signing, broadcast and reconciliation, as the API     *)
(* process, the CLI and the reconciliation timer drive it.                 *)
(*                                                                         *)
(* Every await of the code ends a step; the row a call read before it is   *)
(* carried in the call's record and compared by the compare-and-set of     *)
(* ExecutionStore.transition after it.  The approval engine, the signer    *)
(* and the cluster are reduced to what the orchestrator sees of them (see  *)
(* Approvals and Signer).  A block height is sampled by the RPC node at    *)
(* any time between the request and the answer: a call records whether the *)
(* blockhash was alive when it asked, and may still be told so later.      *)
(***************************************************************************)
EXTENDS Integers, FiniteSets

CONSTANTS
  Keys,        \* idempotency keys; an execution is named by its key
  Quotes,      \* pinned quotes, one exact transaction each
  Calls,       \* operations in flight
  Hosts,       \* processes sharing the data directory: API server, CLI
  HostOf,      \* the process an operation runs in
  Limit,       \* rows recoverAndReconcile takes of its list
  MaxAuths,    \* bound on the authorizations issued for one execution
  FinalAt,     \* policy.finalityCommitment: "confirmed" or "finalized"
  NoKey, NoQuote

ASSUME LiveTradingAssumption ==
  /\ HostOf \in [Calls -> Hosts]
  /\ {MaxAuths, Limit} \subseteq Nat
  /\ FinalAt \in {"confirmed", "finalized"}
  /\ NoKey \notin Keys
  /\ NoQuote \notin Quotes

VARIABLES
  ex,         \* executions: one row per idempotency key
  approval,   \* approval[k]: the approval request of an execution
  resv,       \* resv[q]: the capital reservation of a quote
  known,      \* known[h]: keys whose risk and simulation hashes h remembers
  timer,      \* processes whose start() got as far as the reconciliation timer
  call,       \* call[c]: the continuation of an operation
  issued,     \* issued[k]: authorizations minted for k
  daemon,     \* daemon[k][n]: the signer's row for the n-th authorization
  chain,      \* chain[q]: what the cluster knows of the transaction
  dead,       \* quotes whose lastValidBlockHeight has passed
  stale,      \* quotes past expiresAt
  forgotten   \* landed transactions out of the cluster's recent status cache

vars == <<ex, approval, resv, known, timer, call, issued, daemon, chain, dead, stale, forgotten>>
rows == <<ex, approval, resv>>
memory == <<known, timer>>
signer == <<issued, daemon>>
cluster == <<chain, dead, stale, forgotten>>

TradeState == {"awaiting-approval", "approved", "dry-run", "signing", "submitting",
  "reconciliation-required", "broadcast", "confirmed", "finalized", "failed",
  "denied", "expired", "dropped"}
Landed == {"processed", "confirmed", "finalized", "error"}
Auths  == 1..MaxAuths

\* Fault: rows in doubt are not listed
RecoverableSure == {"signing", "submitting", "broadcast", "confirmed"}

\* Rows recoverAndReconcile lists
Recoverable == {"signing", "submitting", "reconciliation-required", "broadcast",
                "confirmed"}

Execution == [state : TradeState \cup {"absent"}, quote : Quotes \cup {NoQuote},
              approvalId : BOOLEAN,      \* the approval request is linked
              auth : 0..MaxAuths,        \* authorizationId
              signature : BOOLEAN,       \* the signature is stored
              same : BOOLEAN,            \* execute saw the quote's own evidence
              before : SUBSET Keys]      \* the rows with a lower rowid
Call == [at : {"idle", "simulate", "risk", "create", "height", "consume", "issue", "sign",
               "broadcast", "answer", "record", "row", "result", "recovered",
               "expire", "burn", "status", "tip", "drop"},
         key : Keys \cup {NoKey}, quote : Quotes \cup {NoQuote},
         saw : TradeState \cup {"absent"},  \* the state that was read
         auth : 0..MaxAuths, recovering : BOOLEAN, same : BOOLEAN,
         alive : BOOLEAN]                   \* when the height was asked for

Absent == [state |-> "absent", quote |-> NoQuote, approvalId |-> FALSE, auth |-> 0,
           signature |-> FALSE, same |-> FALSE, before |-> {}]
Idle   == [at |-> "idle", key |-> NoKey, quote |-> NoQuote, saw |-> "absent",
           auth |-> 0, recovering |-> FALSE, same |-> FALSE, alive |-> FALSE]

Init ==
  /\ ex = [k \in Keys |-> Absent]
  /\ approval = [k \in Keys |-> "none"]
  /\ resv = [q \in Quotes |-> "none"]
  /\ known = [h \in Hosts |-> {}]
  /\ timer \in SUBSET Hosts
  /\ call = [c \in Calls |-> Idle]
  /\ issued = [k \in Keys |-> 0]
  /\ daemon = [k \in Keys |-> [n \in Auths |-> "absent"]]
  /\ chain = [q \in Quotes |-> "none"]
  /\ dead = {}
  /\ stale = {}
  /\ forgotten = {}

-----------------------------------------------------------------------------
(* Helpers.                                                                *)

QuoteOf(c) == ex[call[c].key].quote
Go(c, place) == call' = [call EXCEPT ![c].at = place]
Ask(c, place) == call' = [call EXCEPT ![c].at = place, ![c].alive = QuoteOf(c) \notin dead]
Return(c) == call' = [call EXCEPT ![c] = Idle]

\* The call is at a place of the code
At(c, place) == call[c].at = place

\* transition(id, from, {state}): a lost race throws and changes nothing
Move(k, from, to) == IF ex[k].state = from THEN [ex EXCEPT ![k].state = to] ELSE ex

\* submit's catch: an execution left in submitting must be reconciled
Caught(k) == Move(k, "submitting", "reconciliation-required")

\* ReservationLedger.release and commit touch only a reserved row
Released(q) == IF resv[q] = "reserved" THEN [resv EXCEPT ![q] = "none"] ELSE resv
Committed(q) == IF resv[q] = "reserved" THEN [resv EXCEPT ![q] = "committed"] ELSE resv

-----------------------------------------------------------------------------
(* execute.                                                                *)

\* The idempotency key is new, the quote exists and has not expired
ExecuteStart(c, k, q) ==
  /\ At(c, "idle")
  /\ ex[k].state = "absent"
  /\ q \notin stale
  /\ call' = [call EXCEPT ![c] = [Idle EXCEPT !.at = "simulate", !.key = k, !.quote = q]]
  /\ UNCHANGED <<rows, memory, signer, cluster>>

\* The rows there are
Inserted == {k \in Keys : ex[k].state # "absent"}

\* dryRun: the row is final at once; the key is UNIQUE, so a duplicate throws
ExecuteDry(c) ==
  LET k == call[c].key
  IN  /\ At(c, "simulate")
      /\ ex' = IF ex[k].state = "absent"
               THEN [ex EXCEPT ![k] = [Absent EXCEPT !.state = "dry-run", !.quote = call[c].quote,
                                                     !.before = Inserted]]
               ELSE ex
      /\ Return(c)
      /\ UNCHANGED <<approval, resv, memory, signer, cluster>>

\* The reservation id is a hash of the quote and its message: a PRIMARY KEY
Free(q) == resv[q] = "none"

\* The simulation succeeds; its evidence may differ from the quote's
ExecuteSimulated(c) ==
  /\ At(c, "simulate")
  /\ \E same \in BOOLEAN :
       call' = [call EXCEPT ![c].at = "risk", ![c].same = same,
                            ![c].alive = call[c].quote \notin dead]
  /\ UNCHANGED <<rows, memory, signer, cluster>>

\* The blockhash is alive, risk allows the trade and its hashes are kept in
\* this process; then the capital is reserved
ExecuteReserve(c) ==
  LET k == call[c].key  q == call[c].quote
  IN  /\ At(c, "risk")
      /\ call[c].alive
      /\ Free(q)
      /\ resv' = [resv EXCEPT ![q] = "reserved"]
      /\ known' = [known EXCEPT ![HostOf[c]] = @ \cup {k}]
      /\ Go(c, "create")
      /\ UNCHANGED <<ex, approval, timer, signer, cluster>>

\* How far the three statements of the tail of execute came
Created(c) ==
  [Absent EXCEPT !.state = "awaiting-approval", !.quote = call[c].quote,
                 !.same = call[c].same, !.before = Inserted]

\* create, approvalEngine.request, and the link between them
ExecuteCreate(c) ==
  LET k == call[c].key
  IN  /\ At(c, "create")
      /\ ex' = IF ex[k].state = "absent"
               THEN [ex EXCEPT ![k] = [Created(c) EXCEPT !.approvalId = TRUE]] ELSE ex
      /\ approval' = IF ex[k].state = "absent"
                     THEN [approval EXCEPT ![k] = "pending"] ELSE approval
      /\ Return(c)
      /\ UNCHANGED <<resv, memory, signer, cluster>>

\* A process dies: its operations and its remembered hashes are gone.  The next one
\* has a timer if the checks and the first recovery of start() do not throw.
Gone(h) ==
  /\ call' = [c \in Calls |-> IF HostOf[c] = h THEN Idle ELSE call[c]]
  /\ known' = [known EXCEPT ![h] = {}]
  /\ timer' \in {timer \cup {h}, timer \ {h}}

\* The process dies between those statements
ExecuteDies(c) ==
  LET k == call[c].key
  IN  /\ At(c, "create")
      /\ ex[k].state = "absent"
      /\ ex' = [ex EXCEPT ![k] = Created(c)]
      /\ \E a \in {"none", "pending"} : approval' = [approval EXCEPT ![k] = a]
      /\ Gone(HostOf[c])
      /\ UNCHANGED <<resv, signer, cluster>>

-----------------------------------------------------------------------------
(* approve and deny: a quorum of one, see Approvals.                       *)

Decidable(k) ==
  /\ ex[k].state = "awaiting-approval"
  /\ ex[k].approvalId
  /\ approval[k] = "pending"
  /\ ex[k].quote \notin stale

\* decide, then refreshApproval copies the decision into the row; a process
\* that dies between the two leaves the row awaiting
Decide(k) ==
  /\ Decidable(k)
  /\ \E d \in {"approved", "denied"} :
       /\ approval' = [approval EXCEPT ![k] = d]
       /\ ex' = [ex EXCEPT ![k].state = d] \/ ex' = ex
  /\ UNCHANGED <<resv, memory, call, signer, cluster>>

-----------------------------------------------------------------------------
(* submit.                                                                 *)

Submittable(k) == ex[k].state \in {"approved", "signing"} /\ ex[k].quote \notin stale

\* The call that starts to submit k
Submitting(k) == [Idle EXCEPT !.at = "height", !.key = k, !.saw = ex[k].state,
                              !.alive = ex[k].quote \notin dead]

Submit(c, k) ==
  /\ At(c, "idle")
  /\ Submittable(k)
  /\ call' = [call EXCEPT ![c] = Submitting(k)]
  /\ UNCHANGED <<rows, memory, signer, cluster>>

\* blockHeight: past the last valid height the execution is burned; before it
\* the reservation must still exist
SubmitHeight(c) ==
  /\ At(c, "height")
  /\ \/ QuoteOf(c) \in dead /\ Go(c, "expire")
     \/ call[c].alive /\ resv[QuoteOf(c)] # "none" /\ Go(c, "consume")
     \/ call[c].alive /\ resv[QuoteOf(c)] = "none" /\ Return(c)
  /\ UNCHANGED <<rows, memory, signer, cluster>>

\* consume: an approved request in time, bound to the evidence of the quote
Approvable(k) ==
  /\ ex[k].approvalId
  /\ \/ approval[k] = "consumed"
     \/ approval[k] = "approved" /\ ex[k].quote \notin stale /\ ex[k].same

\* The checks of AuthorizationIssuer.issue that need no await
Issuable(c) ==
  LET k == call[c].key
  IN  k \in known[HostOf[c]] /\ ex[k].same /\ resv[QuoteOf(c)] # "none"

\* Fault: the approval is neither checked nor consumed before signing
SubmitUnchecked(c) ==
  /\ At(c, "consume")
  /\ ex' = Move(call[c].key, "approved", "signing")
  /\ Ask(c, "issue")
  /\ UNCHANGED <<approval, resv, memory, signer, cluster>>

\* Consume the approval, enter signing, and begin issue.  A lost race for the row
\* throws; a check of issue throws inside the try block.
SubmitConsume(c) ==
  LET k == call[c].key
      enters == call[c].saw = "approved"
  IN  /\ At(c, "consume")
      /\ \/ /\ Approvable(k)
            /\ approval' = [approval EXCEPT ![k] = "consumed"]
            /\ \/ /\ enters => ex[k].state = "approved"
                  /\ Issuable(c)
                  /\ ex' = IF enters THEN Move(k, "approved", "signing") ELSE ex
                  /\ Ask(c, "issue")
               \/ /\ enters => ex[k].state = "approved"
                  /\ ~Issuable(c)
                  /\ ex' = IF enters THEN Move(k, "approved", "signing") ELSE Caught(k)
                  /\ Return(c)
               \/ enters /\ ex[k].state # "approved" /\ Return(c) /\ UNCHANGED ex
         \/ ~Approvable(k) /\ Return(c) /\ UNCHANGED <<ex, approval>>
      /\ UNCHANGED <<resv, memory, signer, cluster>>

\* The process dies between the approval database and the execution database
SubmitDies(c) ==
  /\ At(c, "consume")
  /\ Approvable(call[c].key)
  /\ approval' = [approval EXCEPT ![call[c].key] = "consumed"]
  /\ Gone(HostOf[c])
  /\ UNCHANGED <<ex, resv, signer, cluster>>

\* issue mints an id once the blockhash check is answered; the id is stored in
\* the row and the envelope goes to the signer
Issue(c) ==
  LET k == call[c].key  n == issued[k] + 1
  IN  /\ At(c, "issue")
      /\ call[c].alive
      /\ issued[k] < MaxAuths
      /\ issued' = [issued EXCEPT ![k] = n]
      /\ \/ /\ ex[k].state = "signing"
            /\ ex' = [ex EXCEPT ![k].auth = n]
            /\ daemon' = [daemon EXCEPT ![k][n] = "requested"]
            /\ call' = [call EXCEPT ![c].at = "sign", ![c].auth = n]
         \/ /\ ex[k].state # "signing"
            /\ ex' = Caught(k)
            /\ Return(c)
            /\ UNCHANGED daemon
      /\ UNCHANGED <<approval, resv, memory, cluster>>

\* A failure inside submit's try block: the RPC node, the signer's socket or
\* its five second timeout
SubmitFails(c) ==
  /\ call[c].at \in {"issue", "sign"}
  /\ ex' = Caught(call[c].key)
  /\ Return(c)
  /\ UNCHANGED <<approval, resv, memory, signer, cluster>>

\* Fault: the signature is stored only after the broadcast
StoredLater(k) == [ex EXCEPT ![k].state = "submitting"]

\* The row a signed transaction is stored in
Stored(k) == [ex EXCEPT ![k].state = "submitting", ![k].signature = TRUE]

\* The signed transaction arrives and is persisted before it is broadcast
SignAnswer(c) ==
  LET k == call[c].key
  IN  /\ At(c, "sign")
      /\ daemon[k][call[c].auth] \in {"signed", "taken"}
      /\ ex' = IF ex[k].state = "signing" THEN Stored(k) ELSE Caught(k)
      /\ IF ex[k].state = "signing" THEN Go(c, "broadcast") ELSE Return(c)
      /\ UNCHANGED <<approval, resv, memory, signer, cluster>>

\* The cluster may or may not get the transaction
Broadcast(c) ==
  LET q == QuoteOf(c)
  IN  /\ At(c, "broadcast")
      /\ \/ /\ chain[q] = "none" /\ q \notin dead
            /\ chain' = [chain EXCEPT ![q] = "sent"]
         \/ UNCHANGED chain
      /\ Go(c, "answer")
      /\ UNCHANGED <<rows, memory, signer, dead, stale, forgotten>>

\* The answer is the right signature: the reservation is committed
BroadcastAnswer(c) ==
  /\ At(c, "answer")
  /\ resv' = Committed(QuoteOf(c))
  /\ Go(c, "record")
  /\ UNCHANGED <<ex, approval, memory, signer, cluster>>

\* No answer or another signature.  submit always records the doubt;
\* recoverSigning does so only for another signature
BroadcastFails(c) ==
  /\ At(c, "answer")
  /\ \/ ex' = Caught(call[c].key)
     \/ call[c].recovering /\ UNCHANGED ex
  /\ Return(c)
  /\ UNCHANGED <<approval, resv, memory, signer, cluster>>

BroadcastRecord(c) ==
  /\ At(c, "record")
  /\ ex' = Move(call[c].key, "submitting", "broadcast")
  /\ Return(c)
  /\ UNCHANGED <<approval, resv, memory, signer, cluster>>

\* expire: release the reservation, then burn the row if it has not moved
Expire(c) ==
  /\ At(c, "expire")
  /\ resv' = Released(QuoteOf(c))
  /\ Go(c, "burn")
  /\ UNCHANGED <<ex, approval, memory, signer, cluster>>

\* Fault: the row is burned whatever happened to it since it was read
ExpireAnyway(c) ==
  /\ At(c, "burn")
  /\ ex' = [ex EXCEPT ![call[c].key].state = "expired"]
  /\ Return(c)
  /\ UNCHANGED <<approval, resv, memory, signer, cluster>>

ExpireBurn(c) ==
  /\ At(c, "burn")
  /\ ex' = Move(call[c].key, call[c].saw, "expired")
  /\ Return(c)
  /\ UNCHANGED <<approval, resv, memory, signer, cluster>>

-----------------------------------------------------------------------------
(* recoverAndReconcile and reconcile.                                      *)

\* list: the rows in the order of their insertion, of which the first are taken
Listed(k) ==
  /\ ex[k].state \in Recoverable
  /\ Cardinality({j \in ex[k].before : ex[j].state \in Recoverable}) < Limit

\* A row of the list, used after the rows before it were awaited; the timer asks for
\* the list, or a request to the API
RecoverList(c, k) ==
  /\ At(c, "idle")
  /\ Listed(k)
  /\ call' = [call EXCEPT ![c] = [Idle EXCEPT !.at = "row", !.key = k,
                !.saw = ex[k].state, !.auth = ex[k].auth, !.recovering = TRUE]]
  /\ UNCHANGED <<rows, memory, signer, cluster>>

\* reconcile reads the row again; without a signature it throws
Reconciling(k) == IF ex[k].signature
                  THEN [Idle EXCEPT !.at = "status", !.key = k, !.saw = ex[k].state]
                  ELSE Idle

\* Without an authorization id submit starts over; with one the signer is
\* asked; a submitting row is handed to reconciliation
RecoverRow(c) ==
  LET k == call[c].key
  IN  /\ At(c, "row")
      /\ \/ /\ call[c].saw = "signing" /\ call[c].auth = 0
            /\ call' = [call EXCEPT ![c] = IF Submittable(k) THEN Submitting(k) ELSE Idle]
            /\ UNCHANGED ex
         \/ call[c].saw = "signing" /\ call[c].auth > 0 /\ Go(c, "result") /\ UNCHANGED ex
         \/ call[c].saw = "submitting" /\ ex' = Caught(k) /\ Return(c)
         \/ /\ call[c].saw \notin {"signing", "submitting"}
            /\ call' = [call EXCEPT ![c] = Reconciling(k)]
            /\ UNCHANGED ex
      /\ UNCHANGED <<approval, resv, memory, signer, cluster>>

\* signer.result with recoverRaw: the bytes are handed out once, and the
\* answer that carries them may be lost; anything else than signed or expired
\* throws
RecoverResult(c) ==
  LET k == call[c].key  n == call[c].auth
  IN  /\ At(c, "result")
      /\ \/ /\ daemon[k][n] = "signed"
            /\ daemon' = [daemon EXCEPT ![k][n] = "taken"]
            /\ Go(c, "recovered") \/ Return(c)
         \/ daemon[k][n] = "expired" /\ Go(c, "expire") /\ UNCHANGED daemon
         \/ daemon[k][n] \notin {"signed", "expired"} /\ Return(c) /\ UNCHANGED daemon
      /\ UNCHANGED <<rows, memory, issued, cluster>>

Recovered(c) ==
  LET k == call[c].key
  IN  /\ At(c, "recovered")
      /\ ex' = IF ex[k].state = "signing" THEN Stored(k) ELSE ex
      /\ IF ex[k].state = "signing" THEN Go(c, "broadcast") ELSE Return(c)
      /\ UNCHANGED <<approval, resv, memory, signer, cluster>>

\* reconcile(id) from the command line takes a row in any state
Reconcile(c, k) ==
  /\ At(c, "idle")
  /\ ex[k].signature
  /\ call' = [call EXCEPT ![c] = Reconciling(k)]
  /\ UNCHANGED <<rows, memory, signer, cluster>>

\* getSignatureStatuses without searchTransactionHistory
Seen(q) == chain[q] \in Landed /\ q \notin forgotten

\* Fault: a processed transaction is final
FinalEagerly(s) == TRUE

Final(s) == s = "finalized" \/ (FinalAt = "confirmed" /\ s = "confirmed")

\* The state an answered status settles the row in
SettledAs(s) == IF s = "error" THEN "failed"
                ELSE IF Final(s) THEN "finalized" ELSE "confirmed"

ReconcileStatus(c) ==
  LET q == QuoteOf(c)
  IN  /\ At(c, "status")
      /\ \/ /\ Seen(q)
            /\ ex' = Move(call[c].key, call[c].saw, SettledAs(chain[q]))
            /\ Return(c)
         \/ ~Seen(q) /\ Ask(c, "tip") /\ UNCHANGED ex
      /\ UNCHANGED <<approval, resv, memory, signer, cluster>>

\* An unseen transaction past its last valid height is dropped, after its
\* reservation is released
ReconcileDead(c) ==
  LET q == QuoteOf(c)
  IN  /\ At(c, "tip")
      /\ q \in dead
      /\ resv' = Released(q)
      /\ Go(c, "drop")
      /\ UNCHANGED <<ex, approval, memory, signer, cluster>>

\* Before that the row waits for another reconciliation
ReconcileLater(c) ==
  /\ At(c, "tip")
  /\ call[c].alive
  /\ ex' = Move(call[c].key, call[c].saw, "reconciliation-required")
  /\ Return(c)
  /\ UNCHANGED <<approval, resv, memory, signer, cluster>>

ReconcileDrop(c) ==
  /\ At(c, "drop")
  /\ ex' = Move(call[c].key, call[c].saw, "dropped")
  /\ Return(c)
  /\ UNCHANGED <<approval, resv, memory, signer, cluster>>

\* A check or an RPC call fails before anything was written
Refused(c) ==
  /\ call[c].at \in {"simulate", "risk", "height", "result", "status", "tip"}
  /\ Return(c)
  /\ UNCHANGED <<rows, memory, signer, cluster>>

Crash(h) ==
  /\ Gone(h)
  /\ UNCHANGED <<rows, signer, cluster>>

-----------------------------------------------------------------------------
(* The environment: time, the signer daemon and the cluster.               *)

QuoteExpires(q) ==
  /\ q \notin stale
  /\ stale' = stale \cup {q}
  /\ UNCHANGED <<rows, memory, call, signer, chain, dead, forgotten>>

\* The reservation's hour is over and a later ledger call deletes the row; a
\* quote lives for 30 seconds, a blockhash for about a minute, and no operation
\* is in flight for that long
ReservationExpires(q) ==
  /\ q \in stale \cap dead
  /\ \A c \in Calls : ~At(c, "idle") => q \notin {call[c].quote, QuoteOf(c)}
  /\ resv[q] = "reserved"
  /\ resv' = Released(q)
  /\ UNCHANGED <<ex, approval, memory, call, signer, cluster>>

BlockhashDies(q) ==
  /\ q \notin dead
  /\ dead' = dead \cup {q}
  /\ UNCHANGED <<rows, memory, call, signer, chain, stale, forgotten>>

\* The signer handles an envelope it was sent: see Signer.  lost stands for a
\* row left claimed or failed.
DaemonFences(k, n) ==
  /\ daemon[k][n] = "requested"
  /\ daemon' = [daemon EXCEPT ![k][n] = IF ex[k].quote \in dead THEN "expired" ELSE "fenced"]
  /\ UNCHANGED <<rows, memory, call, issued, cluster>>

DaemonSigns(k, n) ==
  /\ \/ daemon[k][n] = "fenced" /\ daemon' = [daemon EXCEPT ![k][n] = "signed"]
     \/ /\ daemon[k][n] \in {"requested", "fenced"}
        /\ daemon' = [daemon EXCEPT ![k][n] = "lost"]
  /\ UNCHANGED <<rows, memory, call, issued, cluster>>

\* A sent transaction lands only while its blockhash is alive
Land(q) ==
  /\ chain[q] = "sent"
  /\ q \notin dead
  /\ \E s \in {"processed", "error"} : chain' = [chain EXCEPT ![q] = s]
  /\ UNCHANGED <<rows, memory, call, signer, dead, stale, forgotten>>

Confirm(q) ==
  /\ \/ chain[q] = "processed" /\ chain' = [chain EXCEPT ![q] = "confirmed"]
     \/ chain[q] = "confirmed" /\ chain' = [chain EXCEPT ![q] = "finalized"]
  /\ UNCHANGED <<rows, memory, call, signer, dead, stale, forgotten>>

\* The recent status cache covers about as many slots as a blockhash lives
Forget(q) ==
  /\ chain[q] \in {"finalized", "error"} /\ q \in dead
  /\ q \notin forgotten
  /\ forgotten' = forgotten \cup {q}
  /\ UNCHANGED <<rows, memory, call, signer, chain, dead, stale>>

ExecuteCall(c) == \/ \E k \in Keys, q \in Quotes : ExecuteStart(c, k, q)
                  \/ ExecuteDry(c) \/ ExecuteSimulated(c) \/ ExecuteReserve(c) 
                  \/ ExecuteCreate(c) \/ ExecuteDies(c)
SubmitCall(c) == \/ \E k \in Keys : Submit(c, k)
                 \/ SubmitHeight(c) \/ SubmitConsume(c) \/ SubmitDies(c) \/ Issue(c)
                 \/ SubmitFails(c) \/ SignAnswer(c) \/ Broadcast(c)
                 \/ BroadcastAnswer(c) \/ BroadcastFails(c) \/ BroadcastRecord(c)
                 \/ Expire(c) \/ ExpireBurn(c)
RecoverCall(c) == \/ \E k \in Keys : RecoverList(c, k) \/ Reconcile(c, k)
                  \/ RecoverRow(c) \/ RecoverResult(c) \/ Recovered(c)
                  \/ ReconcileStatus(c) \/ ReconcileDead(c) \/ ReconcileLater(c)
                  \/ ReconcileDrop(c)
Environment == \/ \E q \in Quotes : \/ QuoteExpires(q) \/ ReservationExpires(q)
                                    \/ BlockhashDies(q) \/ Land(q) \/ Confirm(q)
                                    \/ Forget(q)
               \/ \E k \in Keys, n \in Auths : DaemonFences(k, n) \/ DaemonSigns(k, n)

Next ==
  \/ \E c \in Calls : ExecuteCall(c) \/ SubmitCall(c) \/ RecoverCall(c) \/ Refused(c)
  \/ \E k \in Keys : Decide(k)
  \/ \E h \in Hosts : Crash(h)
  \/ Environment

Spec == Init /\ [][Next]_vars

\* An operation in flight does not stall: its awaits answer or time out
InFlight(c) ==
  /\ ~At(c, "idle")
  /\ ExecuteCall(c) \/ SubmitCall(c) \/ RecoverCall(c) \/ Refused(c)

\* The timer of a process comes to a row of the list
Ticks(c, k) == HostOf[c] \in timer /\ RecoverList(c, k)

\* Time passes, the cluster confirms, and a timer takes up each of the rows it lists
\* again and again: every pass goes through all of them, and a row's place in the list
\* changes finitely often.  Crashes and RPC failures interrupt a reconciliation, but not
\* every single time.  Nobody else has to ask for a recovery.
Fairness ==
  /\ \A q \in Quotes : /\ WF_vars(BlockhashDies(q))
                       /\ WF_vars(QuoteExpires(q))
                       /\ WF_vars(Confirm(q))
  /\ \A c \in Calls :
       /\ WF_vars(InFlight(c))
       /\ \A k \in Keys : /\ SF_vars(Ticks(c, k))
                         /\ SF_vars(call[c].key = k /\ RecoverRow(c))
                         /\ SF_vars(call[c].key = k /\ ReconcileStatus(c))
                         /\ SF_vars(call[c].key = k /\ ReconcileDead(c))
                         /\ SF_vars(call[c].key = k /\ ReconcileDrop(c))

FairSpec == Spec /\ Fairness

-----------------------------------------------------------------------------
(* Properties.                                                             *)

Signed(k) == \E n \in Auths : daemon[k][n] \in {"signed", "taken"}

\* Every signature the signer ever produced is for an execution whose approval
\* was given and consumed, whatever submits and recoveries interleave.
SignedOnlyApproved == \A k \in Keys : Signed(k) => approval[k] = "consumed"

\* Whatever reached the cluster is recorded in a row that carries the
\* signature, so that a crash is recovered by looking it up and never by
\* signing again (the comment in submit before broadcasting).
SentIsRecorded ==
  \A q \in Quotes : chain[q] # "none" =>
    \E k \in Keys : ex[k].quote = q /\ ex[k].signature

\* A burned execution never reached the cluster, although other calls may have
\* been signing and broadcasting it when its expiry was decided.
ExpiredNeverSent ==
  \A k \in Keys : ex[k].state = "expired" => ~ex[k].signature

\* finalized and failed are the cluster's own words
StatusAgrees ==
  \A k \in Keys :
    /\ ex[k].state = "finalized" =>
         chain[ex[k].quote] \in IF FinalAt = "confirmed" THEN {"confirmed", "finalized"}
                                ELSE {"finalized"}
    /\ ex[k].state = "failed" => chain[ex[k].quote] = "error"

\* A settled row tells what the cluster says: finalized and failed are its status, and
\* dropped, which says only that no status was seen, is a transaction that "can never
\* land" from then on (the comment of reconcile).  Reconciliations that use a row read
\* before their awaits race with submits that are sending it.
SettledAgrees ==
  /\ StatusAgrees
  /\ \A k \in Keys : ex[k].state = "dropped" => ex[k].quote \in dead

InDoubt == {"submitting", "reconciliation-required", "broadcast", "confirmed"}

\* There is a timer, and fewer rows than it takes are unsettled before this one
Attended(k) ==
  /\ timer # {}
  /\ Cardinality({j \in ex[k].before : ex[j].state \in InDoubt \cup {"signing"}}) < Limit

\* Every execution that was broadcast, or may have been, is eventually settled
\* by the reconciliation timer, across crashes, lost answers and RPC failures,
\* if from some time on there is a timer and the execution is among the rows it takes.
\* Without that nothing settles it: start() leaves the timer out when its checks
\* fail, and rows that stay in signing keep their places in the list.
BroadcastSettles ==
  \A k \in Keys :
    <>[]Attended(k) =>
      (ex[k].state \in InDoubt) ~> (ex[k].state \in {"finalized", "failed", "dropped"})

-----------------------------------------------------------------------------
(* What the comments of the code say and the code does not do.             *)

\* The reservations "count pending exposure": a trade that landed without error
\* still has its reservation.
LandedIsCounted ==
  \A q \in Quotes : chain[q] \in {"processed", "confirmed", "finalized"} =>
    resv[q] # "none"
=============================================================================
