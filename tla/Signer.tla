------------------------------- MODULE Signer -------------------------------
(***************************************************************************)
(* The isolated signer: SignerService, its durable replay store, the       *)
(* broadcast path of the daemon and the reconciliation loop.               *)
(*                                                                         *)
(* Every statement on the replay store is one SQLite statement; the state  *)
(* a call read before an await is carried in its own record and used after *)
(* it.  The Solana cluster (external) is the part the signer can observe:  *)
(* a block height, and per transaction whether it was sent and landed.     *)
(***************************************************************************)
EXTENDS Integers, FiniteSets

CONSTANTS
  Auths,          \* one-time authorization ids
  Messages,       \* transaction messages
  MessageOf,      \* the message an authorization is for
  Calls,          \* concurrent sign requests the daemon is serving
  Reconcilers,    \* reconcileTransactions() runs: the daemon's timer, the CLI
  LastValid,      \* lastValidBlockHeight of a message
  MaxHeight,      \* bound on the block height
  NoAuth          \* an idle call or reconciler

\* Authorizations are for messages, which have a last valid height
ASSUME SignerAssumption == MessageOf \in [Auths -> Messages] /\ LastValid \in [Messages -> Nat]

VARIABLES
  row,        \* signer_replay: state and recovered flag of an authorization
  call,       \* call[c]: the continuation of a sign request
  rec,        \* rec[k]: the continuation of a reconciliation of one row
  fresh,      \* authorizations whose envelope has not passed its expiry
  height,     \* the cluster's confirmed block height
  chain,      \* chain[m]: what the cluster knows of a transaction
  signings    \* signings[a]: how often signMessage ran for a

signerVars == <<row, call, rec, fresh, height, chain, signings>>
store == <<row, signings>>
cluster == <<height, chain>>

States  == {"absent", "claimed", "signed", "broadcast", "reconciliation",
            "confirmed", "reverted", "expired", "dropped", "failed"}
Landed  == {"processed", "confirmed", "error"}
Chain   == {"none", "sent"} \cup Landed

Call == [at : {"idle", "verify", "height", "fence", "send", "record"},
         auth : Auths \cup {NoAuth}, prior : BOOLEAN, broadcast : BOOLEAN,
         height : Nat, answer : {"none", "match", "mismatch"}]
Rec  == [at : {"idle", "status", "apply", "height", "drop"},
         auth : Auths \cup {NoAuth}, from : States, status : Chain, height : Nat]

Idle     == [at |-> "idle", auth |-> NoAuth, prior |-> FALSE, broadcast |-> FALSE,
             height |-> 0, answer |-> "none"]
IdleRec  == [at |-> "idle", auth |-> NoAuth, from |-> "absent", status |-> "none",
             height |-> 0]

-----------------------------------------------------------------------------
(* SqliteReplayStore.                                                      *)

\* transition: a compare-and-set on the state; a lost race changes nothing
Move(a, from, to) ==
  row' = IF row[a].state = from THEN [row EXCEPT ![a].state = to] ELSE row

\* Fault: an authorization whose process died is claimed again
ClaimableAgain(a) == row[a].state \in {"absent", "claimed"}

\* consume: INSERT OR IGNORE
Claimable(a) == row[a].state = "absent"

SignerInit ==
  /\ row = [a \in Auths |-> [state |-> "absent", recovered |-> FALSE]]
  /\ call = [c \in Calls |-> Idle]
  /\ rec = [k \in Reconcilers |-> IdleRec]
  /\ fresh = Auths
  /\ height = 0
  /\ chain = [m \in Messages |-> "none"]
  /\ signings = [a \in Auths |-> 0]

-----------------------------------------------------------------------------
(* A sign request, from signEnvelope to the answer on the socket.          *)

HasPrior(a) == row[a].state = "signed"

\* stored(): a row without data (claimed, failed) has no result; a signed one
\* has; every other state throws.  Then the await of the envelope's signature.
SignLookup(c, a, b) ==
  /\ call[c] = Idle
  /\ row[a].state \in {"absent", "claimed", "failed", "signed"}
  /\ call' = [call EXCEPT ![c] = [Idle EXCEPT !.at = "verify", !.auth = a,
                !.prior = HasPrior(a), !.broadcast = b]]
  /\ UNCHANGED <<store, rec, fresh, cluster>>

\* What a call does once it has the signed transaction: broadcast or answer
Answered(c) == IF call[c].broadcast THEN [call[c] EXCEPT !.at = "send"] ELSE Idle

\* The envelope verifies (it has not expired) and policy passes: return the
\* stored signature, or burn the authorization.  A lost claim throws.
SignVerified(c) ==
  LET a == call[c].auth
  IN  /\ call[c].at = "verify"
      /\ \/ /\ a \in fresh
            /\ call[c].prior
            /\ call' = [call EXCEPT ![c] = Answered(c)]
            /\ UNCHANGED store
         \/ /\ a \in fresh
            /\ ~call[c].prior
            /\ Claimable(a)
            /\ row' = [row EXCEPT ![a].state = "claimed"]
            /\ call' = [call EXCEPT ![c].at = "height"]
            /\ UNCHANGED <<signings>>
         \/ /\ a \notin fresh \/ (~call[c].prior /\ ~Claimable(a))
            /\ call' = [call EXCEPT ![c] = Idle]
            /\ UNCHANGED store
      /\ UNCHANGED <<rec, fresh, cluster>>

\* fenceBlockhash awaits getBlockHeight; if that fails the authorization
\* stays claimed for ever
SignHeight(c) ==
  /\ call[c].at = "height"
  /\ \/ call' = [call EXCEPT ![c].at = "fence", ![c].height = height]
     \/ call' = [call EXCEPT ![c] = Idle]
  /\ UNCHANGED <<store, rec, fresh, cluster>>

\* height <= lastValidBlockHeight
WithinHeight(c) == call[c].height <= LastValid[MessageOf[call[c].auth]]

\* Past the last valid height the authorization expires; otherwise signClaimed
\* signs, persists, and only then answers.
SignFence(c) ==
  LET a == call[c].auth
  IN  /\ call[c].at = "fence"
      /\ \/ /\ ~WithinHeight(c)
            /\ Move(a, "claimed", "expired")
            /\ call' = [call EXCEPT ![c] = Idle]
            /\ UNCHANGED signings
         \/ /\ WithinHeight(c)                 \* Idle: replay_fencing_lost
            /\ Move(a, "claimed", "signed")
            /\ signings' = [signings EXCEPT ![a] = @ + 1]
            /\ call' = [call EXCEPT ![c] =
                          IF row[a].state = "claimed" THEN Answered(c) ELSE Idle]
         \/ /\ WithinHeight(c)                 \* signMessage throws
            /\ Move(a, "claimed", "failed")
            /\ call' = [call EXCEPT ![c] = Idle]
            /\ UNCHANGED signings
      /\ UNCHANGED <<rec, fresh, cluster>>

\* The cluster accepts a transaction while its blockhash is alive (external)
Accept(m) == chain' = IF chain[m] = "none" /\ height <= LastValid[m]
                      THEN [chain EXCEPT ![m] = "sent"] ELSE chain

\* broadcastSigned awaits sendTransaction: the transaction may get through
\* whether or not an answer, right or wrong, comes back
SendTransaction(c) ==
  /\ call[c].at = "send"
  /\ Accept(MessageOf[call[c].auth]) \/ UNCHANGED chain
  /\ \/ \E x \in {"match", "mismatch"} :
          call' = [call EXCEPT ![c].at = "record", ![c].answer = x]
     \/ call' = [call EXCEPT ![c] = Idle]
  /\ UNCHANGED <<store, rec, fresh, height>>

\* The returned signature decides how the row is recorded
RecordBroadcast(c) ==
  /\ call[c].at = "record"
  /\ Move(call[c].auth, "signed",
          IF call[c].answer = "match" THEN "broadcast" ELSE "reconciliation")
  /\ call' = [call EXCEPT ![c] = Idle]
  /\ UNCHANGED <<signings, rec, fresh, cluster>>

\* recoverSigned: WHERE state='signed' AND recovered=0
Recoverable(a) == row[a].state = "signed" /\ ~row[a].recovered

\* result(id, hash, recoverRaw) of a signed row
ResultRaw(a) ==
  /\ Recoverable(a)
  /\ row' = [row EXCEPT ![a].recovered = TRUE]
  /\ UNCHANGED <<signings, call, rec, fresh, cluster>>

\* The host has the bytes of every signature that was stored, and may send
\* them itself (TradingOrchestrator does)
HostSend(a) ==
  /\ row[a].state \notin {"absent", "claimed", "expired", "failed"}
  /\ Accept(MessageOf[a])
  /\ UNCHANGED <<store, call, rec, fresh, height>>

-----------------------------------------------------------------------------
(* reconcileTransactions, one row at a time.                               *)

Unsettled == {"broadcast", "reconciliation"}

\* list(["broadcast", "reconciliation"])
RecList(k, a) ==
  /\ rec[k] = IdleRec
  /\ row[a].state \in Unsettled
  /\ rec' = [rec EXCEPT ![k] = [IdleRec EXCEPT !.at = "status", !.auth = a,
               !.from = row[a].state]]
  /\ UNCHANGED <<store, call, fresh, cluster>>

\* getSignatureStatuses
RecStatus(k) ==
  /\ rec[k].at = "status"
  /\ rec' = [rec EXCEPT ![k].at = "apply",
                        ![k].status = chain[MessageOf[rec[k].auth]]]
  /\ UNCHANGED <<store, call, fresh, cluster>>

\* Fault: a processed transaction is final
SettledEagerly(k) == IF rec[k].status = "error" THEN "reverted" ELSE "confirmed"

\* An answered status settles the row; none asks for the height
SettledAs(k) ==
  IF rec[k].status = "error" THEN "reverted"
  ELSE IF rec[k].status = "confirmed" THEN "confirmed" ELSE "broadcast"

RecApply(k) ==
  /\ rec[k].at = "apply"
  /\ \/ /\ rec[k].status \in Landed
        /\ Move(rec[k].auth, rec[k].from, SettledAs(k))
        /\ rec' = [rec EXCEPT ![k] = IdleRec]
     \/ /\ rec[k].status \notin Landed
        /\ rec' = [rec EXCEPT ![k].at = "height"]
        /\ UNCHANGED row
  /\ UNCHANGED <<signings, call, fresh, cluster>>

\* getBlockHeight
RecHeight(k) ==
  /\ rec[k].at = "height"
  /\ rec' = [rec EXCEPT ![k].at = "drop", ![k].height = height]
  /\ UNCHANGED <<store, call, fresh, cluster>>

\* A failing RPC call ends the run; the timer starts another one later
RecFails(k) ==
  /\ rec[k].at \in {"status", "height"}
  /\ rec' = [rec EXCEPT ![k] = IdleRec]
  /\ UNCHANGED <<store, call, fresh, cluster>>

\* Fault: an unseen transaction is dropped at its last valid height
DeadAtLast(k) == rec[k].height >= LastValid[MessageOf[rec[k].auth]]

\* height > lastValidBlockHeight
Dead(k) == rec[k].height > LastValid[MessageOf[rec[k].auth]]

RecDrop(k) ==
  /\ rec[k].at = "drop"
  /\ \/ Dead(k) /\ Move(rec[k].auth, rec[k].from, "dropped")
     \/ ~Dead(k) /\ UNCHANGED row
  /\ rec' = [rec EXCEPT ![k] = IdleRec]
  /\ UNCHANGED <<signings, call, fresh, cluster>>

-----------------------------------------------------------------------------
(* The environment.                                                        *)

\* The daemon dies: its calls and its reconciliation are gone, the rows stay
Crash ==
  /\ call' = [c \in Calls |-> Idle]
  /\ rec' = [k \in Reconcilers |-> IdleRec]
  /\ UNCHANGED <<store, fresh, cluster>>

EnvelopeExpires(a) ==
  /\ a \in fresh
  /\ fresh' = fresh \ {a}
  /\ UNCHANGED <<store, call, rec, cluster>>

\* External: a sent transaction lands only while its blockhash is alive
Land(m) ==
  /\ chain[m] = "sent"
  /\ height <= LastValid[m]
  /\ \E x \in {"processed", "error"} : chain' = [chain EXCEPT ![m] = x]
  /\ UNCHANGED <<store, call, rec, fresh, height>>

Confirm(m) ==
  /\ chain[m] = "processed"
  /\ chain' = [chain EXCEPT ![m] = "confirmed"]
  /\ UNCHANGED <<store, call, rec, fresh, height>>

Block ==
  /\ height < MaxHeight
  /\ height' = height + 1
  /\ UNCHANGED <<store, call, rec, fresh, chain>>

Sign(c) == \/ \E a \in Auths, b \in BOOLEAN : SignLookup(c, a, b)
           \/ SignVerified(c) \/ SignHeight(c) \/ SignFence(c)
           \/ SendTransaction(c) \/ RecordBroadcast(c)

Reconcile(k) == \/ \E a \in Auths : RecList(k, a)
                \/ RecStatus(k) \/ RecApply(k) \/ RecHeight(k) \/ RecDrop(k) \/ RecFails(k)

SignerNext ==
  \/ \E c \in Calls : Sign(c)
  \/ \E k \in Reconcilers : Reconcile(k)
  \/ \E a \in Auths : ResultRaw(a) \/ HostSend(a) \/ EnvelopeExpires(a)
  \/ \E m \in Messages : Land(m) \/ Confirm(m)
  \/ Crash
  \/ Block

SignerSpec == SignerInit /\ [][SignerNext]_signerVars

-----------------------------------------------------------------------------
(* Properties.                                                             *)

\* Rows, continuations and the cluster are what their tables and types allow.
TypeOK ==
  /\ row \in [Auths -> [state : States, recovered : BOOLEAN]]
  /\ call \in [Calls -> Call]
  /\ rec \in [Reconcilers -> Rec]
  /\ fresh \subseteq Auths
  /\ height \in Nat
  /\ chain \in [Messages -> Chain]
  /\ signings \in [Auths -> Nat]

\* An authorization is signed at most once, across concurrent requests and
\* restarts, and an expired or failed one was never signed (the comment on
\* ExecutionState: expired is never reachable from signed).
SignedAtMostOnce ==
  \A a \in Auths :
    signings[a] = IF row[a].state \in {"absent", "claimed", "expired", "failed"}
                  THEN 0 ELSE 1

\* A row settled as confirmed or reverted tells what the cluster says.
SettledAgrees ==
  \A a \in Auths :
    /\ row[a].state = "confirmed" => chain[MessageOf[a]] = "confirmed"
    /\ row[a].state = "reverted" => chain[MessageOf[a]] = "error"

\* A transaction that has not landed when its row is dropped (the status was
\* asked before the height) never lands afterwards.
DroppedStaysOut ==
  [][\A a \in Auths : LET m == MessageOf[a] IN
       row[a].state = "dropped" /\ chain[m] \notin Landed => chain'[m] \notin Landed]_signerVars
=============================================================================
