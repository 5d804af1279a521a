--------------------------- MODULE KernelGateway ---------------------------
(***************************************************************************)
(* The kernel's money path: TradeGatewayImpl.execute over KernelStore, and *)
(* the Reconciler that runs when the process boots.  Every execute is a    *)
(* trade of its own; its step boundaries are the awaits of #live and, since*)
(* a crash may fall between two autocommitted statements, the places where *)
(* the spend and the trade row are written one after the other.            *)
(*                                                                         *)
(* Spend caps are rolling windows over one quote bucket; an amount of 0    *)
(* stands for a sell, which draws on no bucket.  The guards before the     *)
(* reservation only refuse, and are a nondeterministic answer here.        *)
(***************************************************************************)
EXTENDS Integers, FiniteSets, Functions

CONSTANTS
  Trades,     \* trade ids, one for every execute
  Keys,       \* idempotency keys
  Amounts,    \* input amounts in base units
  PerTrade,   \* caps.perTrade
  Windows,    \* lengths of the rolling windows (an hour, a day)
  Cap,        \* the cap of each window
  MaxTime,    \* bound on the clock
  NoTrade

ASSUME KernelAssumption ==
  /\ Amounts \subseteq Nat
  /\ PerTrade \in Nat /\ MaxTime \in Nat
  /\ Windows \subseteq Nat
  /\ Cap \in [Windows -> Nat]
  /\ NoTrade \notin Trades

VARIABLES
  owner,   \* idempotency: the trade that claimed a key
  trade,   \* trades
  spend,   \* spends; revived marks a released spend consumed later
  call,    \* the continuation of each execute
  rec,     \* the continuation of Reconciler.recover
  chain,   \* what the cluster knows of each trade's transaction
  now      \* clock.now()

vars == <<owner, trade, spend, call, rec, chain, now>>

Failed == {"errored", "expired"}
Trade  == [state : {"absent", "reserved", "sent", "confirmed"} \cup Failed,
           key : Keys \cup {"none"}, signed : BOOLEAN]
Spend  == [state : {"none", "reserved", "released", "consumed"},
           amount : Amounts \cup {0}, at : Nat, revived : BOOLEAN]
Call   == [pc : {"idle", "guarding", "reading", "simulating", "signing", "broadcasting",
                 "confirming", "settling", "consumed", "failing", "released", "done"},
           key : Keys \cup {"none"}, amount : Amounts \cup {0}, at : Nat,
           as : Failed \cup {"none"},     \* the state the row is about to fail with
           seen : BOOLEAN]                \* confirm answered confirmed
Rec    == [queue : SUBSET Trades, cur : Trades \cup {NoTrade},
           step : {"asking", "consumed", "released"}, as : Failed \cup {"none"}]

IdleCall == [pc |-> "idle", key |-> "none", amount |-> 0, at |-> 0, as |-> "none",
             seen |-> FALSE]
NoRec    == [queue |-> {}, cur |-> NoTrade, step |-> "asking", as |-> "none"]

Init ==
  /\ owner = [k \in Keys |-> NoTrade]
  /\ trade = [t \in Trades |-> [state |-> "absent", key |-> "none", signed |-> FALSE]]
  /\ spend = [t \in Trades |-> [state |-> "none", amount |-> 0, at |-> 0, revived |-> FALSE]]
  /\ call = [t \in Trades |-> IdleCall]
  /\ rec = NoRec
  /\ chain = [t \in Trades |-> "none"]
  /\ now = 0

At(t, pc) == call[t].pc = pc
Goto(t, pc) == call' = [call EXCEPT ![t].pc = pc]

-----------------------------------------------------------------------------
(* KernelStore.                                                            *)

Active(t) == spend[t].state \in {"reserved", "consumed"}

\* SUM(amount) over the spends of some trades
Sum(S) == SumFunctionOnSet([t \in Trades |-> spend[t].amount], S)

\* Fault: only what was created up to the caller's time is summed
SumUpTo(since, till) ==
  Sum({t \in Trades : Active(t) /\ spend[t].at \in since..till})

\* #sumActive: active spends created since, later ones than now included
SumActive(since) ==
  Sum({t \in Trades : Active(t) /\ spend[t].at >= since})

\* Fault: the sums stop at the caller's own time
WithinCapsUpTo(n, at) ==
  n <= PerTrade /\ \A w \in Windows : SumUpTo(at - w, at) + n <= Cap[w]

\* reserve: the caps, as of the time the caller read before its awaits
WithinCaps(n, at) ==
  n <= PerTrade /\ \A w \in Windows : SumActive(at - w) + n <= Cap[w]

\* Fault: a duplicate is let through
ClaimableAgain(k) == TRUE

\* claimIdempotency: INSERT OR IGNORE
Claimable(k) == owner[k] = NoTrade

\* Fault: nothing is released
ReleasedNever(t) == spend

\* releaseReservation: only a reservation, never a consumed spend
Released(t) ==
  IF spend[t].state = "reserved" THEN [spend EXCEPT ![t].state = "released"] ELSE spend

\* Fault: a released reservation is not consumed any more
ConsumedGuarded(t) ==
  IF spend[t].state = "reserved" THEN [spend EXCEPT ![t].state = "consumed"] ELSE spend

\* consumeReservation: whatever the state; a trade without reservation has none
Consumed(t) ==
  IF spend[t].state = "none" THEN spend
  ELSE [spend EXCEPT ![t].state = "consumed", ![t].revived = @ \/ spend[t].state = "released"]

-----------------------------------------------------------------------------
(* TradeGatewayImpl.#live.                                                 *)

Execute(t, k, n) ==
  /\ At(t, "idle")
  /\ IF Claimable(k)
     THEN /\ owner' = [owner EXCEPT ![k] = t]
          /\ call' = [call EXCEPT ![t] =
               [IdleCall EXCEPT !.pc = "guarding", !.key = k, !.amount = n, !.at = now]]
     ELSE Goto(t, "done") /\ UNCHANGED owner        \* DUPLICATE_INTENT
  /\ UNCHANGED <<trade, spend, rec, chain, now>>

\* staticGuards, assertSettleable and assertMintsSupported passed; the cap
Reserve(t) ==
  LET n == call[t].amount
  IN  /\ At(t, "guarding")
      /\ IF n = 0 \/ WithinCaps(n, call[t].at)
         THEN /\ Goto(t, "reading")
              /\ spend' = IF n = 0 THEN spend
                          ELSE [spend EXCEPT ![t] = [state |-> "reserved", amount |-> n,
                                                     at |-> call[t].at, revived |-> FALSE]]
         ELSE Goto(t, "done") /\ UNCHANGED spend    \* CAP_EXCEEDED
      /\ UNCHANGED <<owner, trade, rec, chain, now>>

GuardsRefuse(t) ==
  /\ At(t, "guarding")
  /\ Goto(t, "done")
  /\ UNCHANGED <<owner, trade, spend, rec, chain, now>>

\* Balance and position were read; insertTrade
InsertTrade(t) ==
  /\ At(t, "reading")
  /\ trade' = [trade EXCEPT ![t] = [state |-> "reserved", key |-> call[t].key,
                                    signed |-> FALSE]]
  /\ Goto(t, "simulating")
  /\ UNCHANGED <<owner, spend, rec, chain, now>>

Simulated(t) ==
  /\ At(t, "simulating")
  /\ Goto(t, "signing")
  /\ UNCHANGED <<owner, trade, spend, rec, chain, now>>

\* Fault: the signed bytes are not persisted before they are sent
PersistLater(t) == trade

PersistSigned(t) == [trade EXCEPT ![t].signed = TRUE]

Sign(t) ==
  /\ At(t, "signing")
  /\ trade' = PersistSigned(t)
  /\ Goto(t, "broadcasting")
  /\ UNCHANGED <<owner, spend, rec, chain, now>>

\* The bytes reach the cluster before, or without, an answer
Reaches(t) ==
  /\ At(t, "broadcasting") /\ chain[t] = "none"
  /\ chain' = [chain EXCEPT ![t] = "sent"]
  /\ UNCHANGED <<owner, trade, spend, call, rec, now>>

\* setSignature, setState(sent)
Broadcast(t) ==
  /\ At(t, "broadcasting") /\ chain[t] # "none"
  /\ trade' = [trade EXCEPT ![t].state = "sent"]
  /\ Goto(t, "confirming")
  /\ UNCHANGED <<owner, spend, rec, chain, now>>

\* confirm: the status is final, or unknown until the height or the timeout ends
\* the polling
Confirm(t) ==
  /\ At(t, "confirming")
  /\ \/ /\ chain[t] = "confirmed"
        /\ call' = [call EXCEPT ![t].pc = "settling", ![t].seen = TRUE]
     \/ /\ chain[t] = "error"
        /\ call' = [call EXCEPT ![t].pc = "failing", ![t].as = "errored"]
     \/ /\ chain[t] = "sent"
        /\ call' = [call EXCEPT ![t].pc = "failing", ![t].as = "expired"]
  /\ UNCHANGED <<owner, trade, spend, rec, chain, now>>

\* The post-trade reads answered; consumeReservation, then setState(confirmed)
Settle(t) ==
  /\ At(t, "settling")
  /\ spend' = Consumed(t)
  /\ Goto(t, "consumed")
  /\ UNCHANGED <<owner, trade, rec, chain, now>>

SetConfirmed(t) ==
  /\ At(t, "consumed")
  /\ trade' = [trade EXCEPT ![t].state = "confirmed"]
  /\ Goto(t, "done")
  /\ UNCHANGED <<owner, spend, rec, chain, now>>

\* An awaited call rejects: the balances, the simulation, the wallet, the
\* broadcaster, the confirmer or the post-trade reads
Throws(t) ==
  /\ call[t].pc \in {"reading", "simulating", "signing", "broadcasting", "confirming",
                     "settling"}
  /\ call' = [call EXCEPT ![t].pc = "failing", ![t].as = "errored"]
  /\ UNCHANGED <<owner, trade, spend, rec, chain, now>>

\* The catch, and the unconfirmed branch: release first, then fail the row
Release(t) ==
  /\ At(t, "failing")
  /\ spend' = Released(t)
  /\ Goto(t, "released")
  /\ UNCHANGED <<owner, trade, rec, chain, now>>

Fail(t) ==
  /\ At(t, "released")
  /\ trade' = IF trade[t].state = "absent" THEN trade
              ELSE [trade EXCEPT ![t].state = call[t].as]
  /\ Goto(t, "done")
  /\ UNCHANGED <<owner, spend, rec, chain, now>>

Live(t) == \/ Reserve(t) \/ GuardsRefuse(t) \/ InsertTrade(t) \/ Simulated(t) \/ Sign(t)
           \/ Broadcast(t) \/ Confirm(t) \/ Settle(t) \/ SetConfirmed(t)
           \/ Throws(t) \/ Release(t) \/ Fail(t)

-----------------------------------------------------------------------------
(* Reconciler.recover.                                                     *)

\* Fault: every row is recovered, settled ones too
PendingAll == {t \in Trades : trade[t].state # "absent"}

\* pendingSent: the rows whose broadcast was recorded
PendingSent == {t \in Trades : trade[t].state = "sent"}

\* The process dies; the next one boots and starts recover
Crash ==
  /\ rec # NoRec \/ \E t \in Trades : call[t].pc \notin {"idle", "done"}
  /\ call' = [t \in Trades |->
       IF At(t, "idle") THEN call[t] ELSE [IdleCall EXCEPT !.pc = "done"]]
  /\ rec' = [NoRec EXCEPT !.queue = PendingSent]
  /\ UNCHANGED <<owner, trade, spend, chain, now>>

\* The state a trade that is not confirmed fails with
Failure(t) == IF chain[t] = "error" THEN "errored" ELSE "expired"

\* A row and its answer; a status that left the recent cache is unknown
RecoverConfirmed(t) ==
  /\ rec.cur = NoTrade /\ t \in rec.queue /\ chain[t] = "confirmed"
  /\ spend' = Consumed(t)
  /\ rec' = [rec EXCEPT !.cur = t, !.step = "consumed"]
  /\ UNCHANGED <<owner, trade, call, chain, now>>

RecoverOther(t) ==
  /\ rec.cur = NoTrade /\ t \in rec.queue
  /\ spend' = Released(t)
  /\ rec' = [rec EXCEPT !.cur = t, !.step = "released", !.as = Failure(t)]
  /\ UNCHANGED <<owner, trade, call, chain, now>>

\* setState(confirmed) or fail, and on to the next row
RecoverWrites ==
  /\ rec.cur # NoTrade
  /\ trade' = [trade EXCEPT ![rec.cur].state =
       IF rec.step = "consumed" THEN "confirmed" ELSE rec.as]
  /\ rec' = [NoRec EXCEPT !.queue = rec.queue \ {rec.cur}]
  /\ UNCHANGED <<owner, spend, call, chain, now>>

\* The confirmer rejects: the remaining rows wait for the next boot
RecoverThrows ==
  /\ rec.cur = NoTrade /\ rec.queue # {}
  /\ rec' = NoRec
  /\ UNCHANGED <<owner, trade, spend, call, chain, now>>

-----------------------------------------------------------------------------

\* The cluster executes the transaction
Land(t) ==
  /\ chain[t] = "sent"
  /\ \E r \in {"confirmed", "error"} : chain' = [chain EXCEPT ![t] = r]
  /\ UNCHANGED <<owner, trade, spend, call, rec, now>>

Tick ==
  /\ now < MaxTime
  /\ now' = now + 1
  /\ UNCHANGED <<owner, trade, spend, call, rec, chain>>

Next ==
  \/ \E t \in Trades : \/ \E k \in Keys, n \in Amounts : Execute(t, k, n)
                       \/ Live(t)
                       \/ RecoverConfirmed(t) \/ RecoverOther(t)
                       \/ Reaches(t) \/ Land(t)
  \/ RecoverWrites \/ RecoverThrows
  \/ Crash
  \/ Tick

Spec == Init /\ [][Next]_vars

-----------------------------------------------------------------------------
(* Properties.                                                             *)

\* Every row, continuation and external view is well-formed.
TypeOK ==
  /\ owner \in [Keys -> Trades \cup {NoTrade}]
  /\ trade \in [Trades -> Trade]
  /\ spend \in [Trades -> Spend]
  /\ call \in [Trades -> Call]
  /\ rec \in Rec
  /\ chain \in [Trades -> {"none", "sent", "confirmed", "error"}]
  /\ now \in 0..MaxTime

\* No rolling window ever holds more than its cap of active spends, although
\* a reservation carries the time read before its caller's awaits and another
\* may have been made at a later time meanwhile.  Only a spend that recovery
\* found confirmed after its reservation had been released comes on top.
CapHolds ==
  \A w \in Windows, end \in 0..MaxTime :
    Sum({t \in Trades : /\ Active(t) /\ ~spend[t].revived
                         /\ spend[t].at \in (end - w)..end}) <= Cap[w]

\* The signed bytes are in the row before they reach the cluster ("so a crash
\* can be reconciled, never re-signed"), and a row that recovery looks at
\* always has its signature, so RECONCILE_NO_SIGNATURE is unreachable.
SentIsRecorded ==
  \A t \in Trades :
    chain[t] # "none" \/ trade[t].state \in {"sent", "confirmed"} => trade[t].signed

\* One idempotency key moves money at most once: no two trades of one key are
\* ever signed, whatever crashes and retries.
OneSignaturePerKey ==
  \A t, u \in Trades :
    trade[t].signed /\ trade[u].signed /\ trade[t].key = trade[u].key => t = u

\* A trade recorded as confirmed did confirm, and its spend is and stays
\* consumed (a sell has none).
ConfirmedIsCounted ==
  \A t \in Trades : trade[t].state = "confirmed" =>
    chain[t] = "confirmed" /\ spend[t].state \in {"none", "consumed"}

\* "Releases the reservation on every non-confirmed terminal state": a failed
\* trade holds no reservation, although the row and the spend are written in
\* two statements and recovery may repeat what a dying process had begun.
FailedIsReleased ==
  \A t \in Trades : trade[t].state \in Failed => spend[t].state # "reserved"

\* How a row in state s looks from outside
SeenRow(s) ==
  CASE s = "absent" -> "none"
    [] s \in {"reserved", "sent"} -> "open"
    [] s = "confirmed" -> "confirmed"
    [] s \in Failed -> "failed"

\* How a spend in state m looks beside it: held until the row is closed,
\* whichever of the two has been written
SeenMoney(s, m) ==
  CASE m = "none" -> "none"
    [] m = "reserved" \/ (m # "none" /\ SeenRow(s) = "open") -> "held"
    [] m = "released" /\ SeenRow(s) # "open" -> "free"
    [] m = "consumed" /\ SeenRow(s) # "open" -> "spent"

Settlement == INSTANCE TradeSettlement WITH
  row    <- [t \in Trades |-> SeenRow(trade[t].state)],
  money  <- [t \in Trades |-> SeenMoney(trade[t].state, spend[t].state)],
  landed <- {t \in Trades : chain[t] = "confirmed"}

\* Although #live and recover write the spend and the row in two statements, a
\* process may die between them and recovery may take the other decision than
\* the one it finds half done, every trade is settled once, at the instant its
\* row is closed: confirmed and spent, or failed and given back (spent only if
\* it did land).  What is settled never changes again, and no row is opened
\* for a trade whose money has been given back.
ImplementsSettlement == Settlement!Spec

\* A trade whose confirmation the gateway has seen is not recorded as failed:
\* "the transaction is already confirmed on-chain and unwinding the row over an
\* RPC hiccup would be a lie" (the comment of #settle).
ConfirmedNotUnwound ==
  \A t \in Trades : call[t].seen => trade[t].state # "errored"
=============================================================================
