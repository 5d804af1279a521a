------------------------ MODULE KernelGatewayProofs ------------------------
(***************************************************************************)
(* Proofs that the kernel's money path keeps its rows, its spends and the  *)
(* cluster in agreement for every number of concurrent executes, every set *)
(* of idempotency keys, all caps and all windows.                          *)
(*                                                                         *)
(* The last theorem shows that the two writes of a settlement are seen as  *)
(* one: the money path implements TradeSettlement.                         *)
(*                                                                         *)
(* None of the properties is inductive alone.  What makes them so is where *)
(* each execute stands: which of its two writes it has made (CallAgrees),  *)
(* who owns the key of a row (RowAgrees), and that recovery only holds     *)
(* rows in 'sent' whose execute died with the process (ListAgrees); for    *)
(* the refinement also what a spend says of the cluster (SpendAgrees).     *)
(***************************************************************************)
EXTENDS KernelGateway, DataTheorems

\* Where an execute stands and what it has written by then
CallAgrees(t) ==
  LET pc == call[t].pc
  IN  /\ pc = "idle" => trade[t].state = "absent" /\ spend[t].state = "none"
      /\ pc \notin {"idle", "done"} =>
           /\ call[t].key \in Keys /\ owner[call[t].key] = t
           /\ trade[t].state \in {"absent", "reserved", "sent"}
      /\ pc \in {"guarding", "reading"} => trade[t].state = "absent"
      /\ pc \in {"simulating", "signing", "broadcasting"} => trade[t].state = "reserved"
      /\ pc = "broadcasting" => trade[t].signed
      /\ pc \in {"confirming", "settling", "consumed"} => trade[t].state = "sent"
      /\ pc \in {"settling", "consumed"} => chain[t] = "confirmed"
      /\ pc = "consumed" => spend[t].state \in {"none", "consumed"}
      /\ pc \in {"failing", "released"} => call[t].as \in Failed
      /\ pc = "released" => spend[t].state # "reserved"

\* What the row of a trade says of its key, its bytes and its spend
RowAgrees(t) ==
  /\ trade[t].state # "absent" => trade[t].key \in Keys /\ owner[trade[t].key] = t
  /\ trade[t].signed => trade[t].state # "absent"
  /\ chain[t] # "none" \/ trade[t].state \in {"sent", "confirmed"} => trade[t].signed
  /\ trade[t].state = "confirmed" =>
       chain[t] = "confirmed" /\ spend[t].state \in {"none", "consumed"}
  /\ trade[t].state \in Failed => spend[t].state # "reserved"

\* A row recovery has listed is still in 'sent' and nobody else works on it
ListAgrees(t) ==
  /\ t \in rec.queue => call[t].pc = "done" /\ trade[t].state = "sent"
  /\ t = rec.cur =>
       /\ t \in rec.queue
       /\ rec.step = "consumed" =>
            chain[t] = "confirmed" /\ spend[t].state \in {"none", "consumed"}
       /\ rec.step # "consumed" => rec.as \in Failed /\ spend[t].state # "reserved"

Agrees == \A t \in Trades : CallAgrees(t) /\ RowAgrees(t) /\ ListAgrees(t)

-----------------------------------------------------------------------------
(* Type correctness.                                                       *)

\* An empty database and idle calls are well-formed.
LEMMA InitType == Init => TypeOK
<1> SUFFICES ASSUME Init PROVE TypeOK
  OBVIOUS
<1>1. [state |-> "absent", key |-> "none", signed |-> FALSE] \in Trade
  BY DEF Trade
<1>2. [state |-> "none", amount |-> 0, at |-> 0, revived |-> FALSE] \in Spend
  BY DEF Spend
<1>3. IdleCall \in Call
  BY DEF IdleCall, Call, Failed
<1>4. NoRec \in Rec
  BY DEF NoRec, Rec, Failed
<1> QED BY <1>1, <1>2, <1>3, <1>4, KernelAssumption DEF Init, TypeOK

\* The places of an execute
Places == {"idle", "guarding", "reading", "simulating", "signing", "broadcasting",
           "confirming", "settling", "consumed", "failing", "released", "done"}

\* Releasing or consuming a reservation leaves a table of spends, in which
\* only the spend of that trade has another state.
LEMMA ReleasedSpends ==
  ASSUME TypeOK, NEW t \in Trades
  PROVE  /\ Released(t) \in [Trades -> Spend]
         /\ Released(t)[t].state # "reserved"
         /\ spend[t].state \in {"none", "consumed"} => Released(t)[t] = spend[t]
         /\ \A u \in Trades \ {t} : Released(t)[u] = spend[u]
BY DEF TypeOK, Released, Spend

\* consumeReservation: the spend is consumed unless there was none.
LEMMA ConsumedSpends ==
  ASSUME TypeOK, NEW t \in Trades
  PROVE  /\ Consumed(t) \in [Trades -> Spend]
         /\ Consumed(t)[t].state \in {"none", "consumed"}
         /\ \A u \in Trades \ {t} : Consumed(t)[u] = spend[u]
<1> DEFINE r  == spend[t].revived \/ spend[t].state = "released"
           s  == [spend[t] EXCEPT !.state = "consumed", !.revived = r]
<1>1. spend[t] \in Spend /\ spend \in [Trades -> Spend]
  BY DEF TypeOK
<1>2. r \in BOOLEAN
  BY Zenon
<1> HIDE DEF r
<1>3. s \in Spend /\ s.state = "consumed"
  BY <1>1, <1>2 DEF Spend
<1>4. Consumed(t) = IF spend[t].state = "none" THEN spend ELSE [spend EXCEPT ![t] = s]
  BY <1>1 DEF Consumed, r
<1> HIDE DEF s
<1> QED BY <1>1, <1>3, <1>4

\* Every step keeps the types; the states a row fails with are those that the
\* continuation of the call or of recovery carries, hence Agrees.
LEMMA NextType == TypeOK /\ Agrees /\ [Next]_vars => TypeOK'
<1> SUFFICES ASSUME TypeOK, Agrees, [Next]_vars PROVE TypeOK'
  OBVIOUS
<1> USE KernelAssumption
<1>a. IdleCall \in Call /\ NoRec \in Rec /\ Failed \subseteq {"errored", "expired"}
  BY DEF IdleCall, Call, NoRec, Rec, Failed
<1>1. ASSUME NEW t \in Trades, NEW k \in Keys, NEW n \in Amounts, Execute(t, k, n)
      PROVE  TypeOK'
  <2>1. now \in Nat
    BY DEF TypeOK
  <2>2. [IdleCall EXCEPT !.pc = "guarding", !.key = k, !.amount = n, !.at = now] \in Call
    BY <1>a, <2>1, Zenon DEF Call
  <2>3. call' \in [Trades -> Call]
    <3>1. \A c \in Call : [c EXCEPT !.pc = "done"] \in Call
      BY DEF Call
    <3> QED BY <1>1, <2>2, <3>1 DEF Execute, Goto, TypeOK
  <2> QED BY <1>1, <2>3 DEF Execute, TypeOK
<1>2. ASSUME NEW t \in Trades, Live(t) PROVE TypeOK'
  <2>a. call[t] \in Call /\ trade[t] \in Trade
    BY DEF TypeOK
  <2>b. \A pc \in Places : [call[t] EXCEPT !.pc = pc] \in Call
    BY <2>a DEF Call, Places
  <2>c. \A s \in {"absent", "reserved", "sent", "confirmed"} \cup Failed :
          [trade[t] EXCEPT !.state = s] \in Trade
    BY <2>a DEF Trade
  <2>1. CASE Reserve(t)
    <3>1. [state |-> "reserved", amount |-> call[t].amount, at |-> call[t].at,
           revived |-> FALSE] \in Spend
      BY <2>a DEF Call, Spend
    <3>2. spend' \in [Trades -> Spend]
      BY <2>1, <3>1 DEF Reserve, TypeOK
    <3>3. call' \in [Trades -> Call]
      BY <2>1, <2>b DEF Reserve, Goto, TypeOK, Places
    <3> QED BY <2>1, <3>2, <3>3 DEF Reserve, TypeOK
  <2>2. CASE GuardsRefuse(t)
    BY <2>2, <2>b DEF GuardsRefuse, Goto, TypeOK, Places
  <2>3. CASE InsertTrade(t)
    <3>1. [state |-> "reserved", key |-> call[t].key, signed |-> FALSE] \in Trade
      BY <2>a DEF Call, Trade
    <3> QED BY <2>3, <2>b, <3>1 DEF InsertTrade, Goto, TypeOK, Places
  <2>4. CASE Simulated(t)
    BY <2>4, <2>b DEF Simulated, Goto, TypeOK, Places
  <2>5. CASE Sign(t)
    <3>1. [trade[t] EXCEPT !.signed = TRUE] \in Trade
      BY <2>a DEF Trade
    <3> QED BY <2>5, <2>b, <3>1 DEF Sign, PersistSigned, Goto, TypeOK, Places
  <2>6. CASE Broadcast(t)
    BY <2>6, <2>b, <2>c DEF Broadcast, Goto, TypeOK, Places
  <2>7. CASE Confirm(t)
    <3>1. /\ [call[t] EXCEPT !.pc = "settling", !.seen = TRUE] \in Call
          /\ [call[t] EXCEPT !.pc = "failing", !.as = "errored"] \in Call
          /\ [call[t] EXCEPT !.pc = "failing", !.as = "expired"] \in Call
      BY <2>a DEF Call, Failed
    <3> QED BY <2>7, <3>1 DEF Confirm, TypeOK
  <2>8. CASE Settle(t)
    BY <2>8, <2>b, ConsumedSpends DEF Settle, Goto, TypeOK, Places
  <2>9. CASE SetConfirmed(t)
    BY <2>9, <2>b, <2>c DEF SetConfirmed, Goto, TypeOK, Places
  <2>10. CASE Throws(t)
    <3>1. [call[t] EXCEPT !.pc = "failing", !.as = "errored"] \in Call
      BY <2>a DEF Call, Failed
    <3> QED BY <2>10, <3>1 DEF Throws, TypeOK
  <2>11. CASE Release(t)
    BY <2>11, <2>b, ReleasedSpends DEF Release, Goto, TypeOK, Places
  <2>12. CASE Fail(t)
    <3>1. [trade[t] EXCEPT !.state = call[t].as] \in Trade
      BY <2>12, <2>c DEF Fail, At, Agrees, CallAgrees
    <3> QED BY <2>12, <2>b, <3>1 DEF Fail, Goto, TypeOK, Places
  <2> QED BY <1>2, <2>1, <2>2, <2>3, <2>4, <2>5, <2>6, <2>7, <2>8, <2>9, <2>10, <2>11,
             <2>12 DEF Live
<1>3. ASSUME NEW t \in Trades, RecoverConfirmed(t) \/ RecoverOther(t) PROVE TypeOK'
  <2>1. rec \in Rec /\ Failure(t) \in Failed
    BY DEF TypeOK, Failure, Failed
  <2>2. /\ [rec EXCEPT !.cur = t, !.step = "consumed"] \in Rec
        /\ [rec EXCEPT !.cur = t, !.step = "released", !.as = Failure(t)] \in Rec
    BY <2>1, Zenon DEF Rec
  <2> QED BY <1>3, <2>2, ReleasedSpends, ConsumedSpends
          DEF RecoverConfirmed, RecoverOther, TypeOK
<1>4. ASSUME NEW t \in Trades, Reaches(t) \/ Land(t) PROVE TypeOK'
  BY <1>4 DEF Reaches, Land, TypeOK
<1>5. CASE RecoverWrites
  <2>1. rec \in Rec /\ rec.cur \in Trades
    BY <1>5 DEF RecoverWrites, TypeOK, Rec
  <2>2. [NoRec EXCEPT !.queue = rec.queue \ {rec.cur}] \in Rec
    BY <1>a, <2>1 DEF Rec
  <2>3. rec.step # "consumed" => rec.as \in Failed
    BY <2>1 DEF Agrees, ListAgrees
  <2>4. \A s \in {"confirmed"} \cup Failed : [trade[rec.cur] EXCEPT !.state = s] \in Trade
    BY <2>1 DEF TypeOK, Trade
  <2> QED BY <1>5, <2>1, <2>2, <2>3, <2>4 DEF RecoverWrites, TypeOK
<1>6. CASE RecoverThrows
  BY <1>6, <1>a DEF RecoverThrows, TypeOK
<1>7. CASE Crash
  <2>1. [IdleCall EXCEPT !.pc = "done"] \in Call
    BY <1>a DEF Call
  <2>2. [NoRec EXCEPT !.queue = PendingSent] \in Rec
    BY <1>a DEF Rec, PendingSent
  <2> QED BY <1>7, <2>1, <2>2 DEF Crash, TypeOK
<1>8. CASE Tick
  BY <1>8 DEF Tick, TypeOK
<1>9. CASE UNCHANGED vars
  BY <1>9 DEF vars, TypeOK
<1> QED BY <1>1, <1>2, <1>3, <1>4, <1>5, <1>6, <1>7, <1>8, <1>9 DEF Next

-----------------------------------------------------------------------------
(* The rows, the spends and the continuations agree.                       *)

\* Nothing has been written yet.
LEMMA InitAgrees == Init => Agrees
BY KernelAssumption
   DEF Init, Agrees, CallAgrees, RowAgrees, ListAgrees, IdleCall, NoRec, Failed

\* Every await and every statement of #live, of recover and of the cluster
\* keeps rows, spends and continuations in agreement.
LEMMA NextAgrees == TypeOK /\ Agrees /\ [Next]_vars => Agrees'
<1> SUFFICES ASSUME TypeOK, Agrees, [Next]_vars, NEW u \in Trades
             PROVE  CallAgrees(u)' /\ RowAgrees(u)' /\ ListAgrees(u)'
  BY DEF Agrees
<1> USE KernelAssumption
<1>a. CallAgrees(u) /\ RowAgrees(u) /\ ListAgrees(u)
  BY DEF Agrees
<1>1. ASSUME NEW t \in Trades, NEW k \in Keys, NEW n \in Amounts, Execute(t, k, n)
      PROVE  CallAgrees(u)' /\ RowAgrees(u)' /\ ListAgrees(u)'
  <2>1. /\ trade' = trade /\ spend' = spend /\ rec' = rec /\ chain' = chain
        /\ u # t => call'[u] = call[u]
        /\ call[t].pc = "idle"
    BY <1>1 DEF Execute, At, Goto, TypeOK
  <2>2. \A j \in Keys : owner[j] = u => owner'[j] = u
    BY <1>1 DEF Execute, Claimable, TypeOK
  <2>3. CASE u # t
    BY <2>1, <2>2, <2>3, <1>a DEF CallAgrees, RowAgrees, ListAgrees
  <2>4. CASE u = t
    <3>1. \/ call'[t].pc = "done"
          \/ call'[t].pc = "guarding" /\ call'[t].key = k /\ owner'[k] = t
      <4>1. CASE Claimable(k)
        <5>1. call'[t] = [pc |-> "guarding", key |-> k, amount |-> n, at |-> now,
                          as |-> "none", seen |-> FALSE]
          BY <1>1, <4>1 DEF Execute, IdleCall, TypeOK
        <5> QED BY <1>1, <4>1, <5>1 DEF Execute, TypeOK
      <4>2. CASE ~Claimable(k)
        BY <1>1, <4>2 DEF Execute, Goto, TypeOK, Call
      <4> QED BY <4>1, <4>2
    <3>2. CallAgrees(t)'
      BY <2>1, <2>4, <3>1, <1>a DEF CallAgrees
    <3>3. RowAgrees(t)'
      BY <2>1, <2>2, <2>4, <1>a DEF RowAgrees, TypeOK, Trade
    <3>4. ListAgrees(t)'
      BY <2>1, <2>4, <1>a DEF ListAgrees
    <3> QED BY <2>4, <3>2, <3>3, <3>4
  <2> QED BY <2>3, <2>4
<1>2. ASSUME NEW t \in Trades, Live(t)
      PROVE  CallAgrees(u)' /\ RowAgrees(u)' /\ ListAgrees(u)'
  <2>1. CASE Reserve(t)
    <3>1. /\ call[t].pc = "guarding" /\ call'[t].pc \in {"reading", "done"}
          /\ call'[t].key = call[t].key
          /\ u # t => call'[u] = call[u]
          /\ owner' = owner /\ trade' = trade /\ rec' = rec /\ chain' = chain
      BY <2>1 DEF Reserve, At, Goto, TypeOK, Call
    <3>2. u # t => spend'[u] = spend[u]
      BY <2>1 DEF Reserve, TypeOK
    <3> QED BY <3>1, <3>2, <1>a DEF CallAgrees, RowAgrees, ListAgrees, Failed
  <2>2. CASE GuardsRefuse(t)
    BY <2>2, <1>a DEF GuardsRefuse, At, Goto, TypeOK, Call, Trade, Spend, CallAgrees, RowAgrees,
         ListAgrees, Failed
  <2>3. CASE InsertTrade(t)
    BY <2>3, <1>a DEF InsertTrade, At, Goto, TypeOK, Call, Trade, Spend, CallAgrees, RowAgrees,
         ListAgrees, Failed
  <2>4. CASE Simulated(t)
    BY <2>4, <1>a DEF Simulated, At, Goto, TypeOK, Call, Trade, Spend, CallAgrees, RowAgrees,
         ListAgrees, Failed
  <2>5. CASE Sign(t)
    BY <2>5, <1>a DEF Sign, At, Goto, TypeOK, Call, Trade, Spend, CallAgrees, RowAgrees,
         ListAgrees, Failed, PersistSigned
  <2>6. CASE Broadcast(t)
    BY <2>6, <1>a DEF Broadcast, At, Goto, TypeOK, Call, Trade, Spend, CallAgrees, RowAgrees,
         ListAgrees, Failed
  <2>7. CASE Confirm(t)
    <3>1. /\ call[t].pc = "confirming" /\ call'[t].key = call[t].key
          /\ \/ call'[t].pc = "settling" /\ chain[t] = "confirmed"
             \/ call'[t].pc = "failing" /\ call'[t].as \in Failed
          /\ u # t => call'[u] = call[u]
          /\ UNCHANGED <<owner, trade, spend, rec, chain>>
      BY <2>7 DEF Confirm, At, TypeOK, Call, Failed
    <3> QED BY <3>1, <1>a DEF CallAgrees, RowAgrees, ListAgrees, Failed
  <2>8. CASE Settle(t)
    <3>1. /\ call[t].pc = "settling" /\ call'[t].pc = "consumed"
          /\ call'[t].key = call[t].key
          /\ u # t => call'[u] = call[u]
          /\ owner' = owner /\ trade' = trade /\ rec' = rec /\ chain' = chain
      BY <2>8 DEF Settle, At, Goto, TypeOK, Call
    <3>2. /\ spend'[t].state \in {"none", "consumed"}
          /\ u # t => spend'[u] = spend[u]
      BY <2>8, ConsumedSpends DEF Settle
    <3> QED BY <3>1, <3>2, <1>a DEF CallAgrees, RowAgrees, ListAgrees, Failed
  <2>9. CASE SetConfirmed(t)
    BY <2>9, <1>a DEF SetConfirmed, At, Goto, TypeOK, Call, Trade, Spend, CallAgrees, RowAgrees,
         ListAgrees, Failed
  <2>10. CASE Throws(t)
    BY <2>10, <1>a DEF Throws, At, Goto, TypeOK, Call, Trade, Spend, CallAgrees, RowAgrees,
         ListAgrees, Failed
  <2>11. CASE Release(t)
    BY <2>11, <1>a, ReleasedSpends DEF Release, At, Goto, TypeOK, Call, CallAgrees, RowAgrees,
         ListAgrees, Failed
  <2>12. CASE Fail(t)
    BY <2>12, <1>a DEF Fail, At, Goto, TypeOK, Call, Trade, Spend, CallAgrees, RowAgrees,
         ListAgrees, Failed
  <2> QED BY <1>2, <2>1, <2>2, <2>3, <2>4, <2>5, <2>6, <2>7, <2>8, <2>9, <2>10, <2>11,
             <2>12 DEF Live
<1>3. ASSUME NEW t \in Trades, RecoverConfirmed(t) \/ RecoverOther(t)
      PROVE  CallAgrees(u)' /\ RowAgrees(u)' /\ ListAgrees(u)'
  <2>1. rec.cur = NoTrade /\ t \in rec.queue /\ rec \in Rec
    BY <1>3 DEF RecoverConfirmed, RecoverOther, TypeOK
  <2>2. CASE RecoverConfirmed(t)
    <3>1. rec'.queue = rec.queue /\ rec'.cur = t /\ rec'.step = "consumed"
      BY <2>1, <2>2 DEF RecoverConfirmed, Rec
    <3> QED BY <2>1, <2>2, <3>1, <1>a, ConsumedSpends DEF RecoverConfirmed, CallAgrees,
              RowAgrees, ListAgrees, Failed
  <2>3. CASE RecoverOther(t)
    <3>1. /\ rec'.queue = rec.queue /\ rec'.cur = t /\ rec'.step = "released"
          /\ rec'.as \in Failed
      <4>1. Failure(t) \in Failed
        BY DEF Failure, Failed
      <4> QED BY <2>1, <2>3, <4>1 DEF RecoverOther, Rec
    <3> QED BY <2>1, <2>3, <3>1, <1>a, ReleasedSpends DEF RecoverOther, CallAgrees,
              RowAgrees, ListAgrees, Failed
  <2> QED BY <1>3, <2>2, <2>3
<1>4. ASSUME NEW t \in Trades, Reaches(t) \/ Land(t)
      PROVE  CallAgrees(u)' /\ RowAgrees(u)' /\ ListAgrees(u)'
  BY <1>4, <1>a DEF Reaches, Land, At, TypeOK, CallAgrees, RowAgrees, ListAgrees, Failed
<1>5. CASE RecoverWrites
  BY <1>5, <1>a DEF RecoverWrites, NoRec, TypeOK, Call, Trade, Spend, Rec, CallAgrees,
       RowAgrees, ListAgrees, Failed
<1>6. CASE RecoverThrows
  BY <1>6, <1>a DEF RecoverThrows, NoRec, CallAgrees, RowAgrees, ListAgrees
<1>7. CASE Crash
  BY <1>7, <1>a DEF Crash, At, PendingSent, NoRec, IdleCall, TypeOK, Call, CallAgrees,
       RowAgrees, ListAgrees, Failed
<1>8. CASE Tick
  BY <1>8, <1>a DEF Tick, CallAgrees, RowAgrees, ListAgrees
<1>9. CASE UNCHANGED vars
  BY <1>9, <1>a DEF vars, CallAgrees, RowAgrees, ListAgrees
<1> QED BY <1>1, <1>2, <1>3, <1>4, <1>5, <1>6, <1>7, <1>8, <1>9 DEF Next

-----------------------------------------------------------------------------
(* The caps.                                                               *)

\* The spends of a table that a window ending at `end` counts
InWindow(table, w, end) ==
  {t \in Trades : /\ table[t].state \in {"reserved", "consumed"} /\ ~table[t].revived
                  /\ table[t].at \in (end - w)..end}

\* What the spends of some trades of a table add up to
TableSum(table, S) == SumFunctionOnSet([t \in Trades |-> table[t].amount], S)

\* Every window of a table is within its cap
Capped(table) ==
  \A w \in Windows, end \in 0..MaxTime : TableSum(table, InWindow(table, w, end)) <= Cap[w]

\* At any time only finitely many trades have drawn on the bucket
Countable(table) == IsFiniteSet({t \in Trades : table[t].state # "none"})

\* Amounts and times of spends are naturals.
LEMMA SpendNumbers == \A s \in Spend : s.amount \in Nat /\ s.at \in Nat
<1>1. Amounts \cup {0} \subseteq Nat
  BY KernelAssumption
<1>2. \A s \in Spend : s.amount \in Amounts \cup {0} /\ s.at \in Nat
  BY DEF Spend
<1> QED BY <1>1, <1>2

\* Spends of a table that have drawn on the bucket can be summed.
LEMMA Summable ==
  ASSUME NEW table \in [Trades -> Spend], Countable(table), NEW S \in SUBSET Trades,
         \A t \in S : table[t].state # "none"
  PROVE  IsFiniteSet(S) /\ \A t \in S : [u \in Trades |-> table[u].amount][t] \in Nat
<1>1. S \in SUBSET {t \in Trades : table[t].state # "none"}
  OBVIOUS
<1>2. IsFiniteSet(S)
  BY <1>1, FS_Subset DEF Countable
<1> QED BY <1>2, SpendNumbers

\* A table in which nothing new counts, and what counts is as it was, stays
\* within the caps.
LEMMA NothingNewCounts ==
  ASSUME NEW old \in [Trades -> Spend], Countable(old), Capped(old),
         NEW new \in [Trades -> Spend],
         \A t \in Trades : new[t].state \in {"reserved", "consumed"} /\ ~new[t].revived =>
            /\ old[t].state \in {"reserved", "consumed"} /\ ~old[t].revived
            /\ new[t].amount = old[t].amount /\ new[t].at = old[t].at
  PROVE  Capped(new)
<1> SUFFICES ASSUME NEW w \in Windows, NEW end \in 0..MaxTime
             PROVE  TableSum(new, InWindow(new, w, end)) <= Cap[w]
  BY DEF Capped
<1> DEFINE N == InWindow(new, w, end)
           O == InWindow(old, w, end)
           f == [t \in Trades |-> old[t].amount]
           e == [t \in Trades |-> new[t].amount]
<1>1. N \in SUBSET O /\ O \in SUBSET Trades /\ \A t \in O : old[t].state # "none"
  BY DEF InWindow
<1>2. \A t \in N : e[t] = f[t]
  BY DEF InWindow
<1> HIDE DEF N, O
<1>3. IsFiniteSet(O) /\ \A t \in O : f[t] \in Nat
  BY <1>1, Summable
<1> HIDE DEF f, e
<1>4. /\ SumFunctionOnSet(e, N) \in Nat /\ SumFunctionOnSet(f, O) \in Nat
      /\ SumFunctionOnSet(e, N) <= SumFunctionOnSet(f, O)
  BY <1>1, <1>2, <1>3, SumOfSome, SumSubset
<1>5. SumFunctionOnSet(f, O) <= Cap[w] /\ Cap[w] \in Nat
  BY KernelAssumption DEF Capped, TableSum, O, f
<1>6. SumFunctionOnSet(e, N) <= Cap[w]
  BY <1>4, <1>5
<1> QED BY <1>6 DEF TableSum, N, e

\* reserve: what is in the window of the new spend, at whatever time it ends,
\* was in the sum that reserve compared with the cap.
LEMMA ReservedFits ==
  ASSUME NEW old \in [Trades -> Spend], Countable(old), Capped(old),
         NEW t \in Trades, NEW n \in Nat, NEW at \in Nat, n \in Amounts,
         \A w \in Windows :
           TableSum(old, {u \in Trades : /\ old[u].state \in {"reserved", "consumed"}
                                        /\ old[u].at >= at - w}) + n <= Cap[w],
         NEW new,
         new = [old EXCEPT ![t] = [state |-> "reserved", amount |-> n, at |-> at,
                                   revived |-> FALSE]]
  PROVE  Capped(new)
<1> SUFFICES ASSUME NEW w \in Windows, NEW end \in 0..MaxTime
             PROVE  TableSum(new, InWindow(new, w, end)) <= Cap[w]
  BY DEF Capped
<1> DEFINE N == InWindow(new, w, end)
           O == InWindow(old, w, end)
           A == {u \in Trades : old[u].state \in {"reserved", "consumed"} /\ old[u].at >= at - w}
           f == [u \in Trades |-> old[u].amount]
           e == [u \in Trades |-> new[u].amount]
<1>1. /\ new[t].at = at /\ e[t] = n
      /\ \A u \in Trades \ {t} : new[u] = old[u] /\ e[u] = f[u]
  OBVIOUS
<1>2. /\ O \in SUBSET Trades /\ \A u \in O : old[u].state # "none"
      /\ A \in SUBSET Trades /\ \A u \in A : old[u].state # "none"
      /\ N \ {t} \in SUBSET O /\ \A u \in N \ {t} : e[u] = f[u]
  BY <1>1 DEF InWindow
<1>3. t \in N => N \ {t} \in SUBSET A
  <2> SUFFICES ASSUME t \in N, NEW u \in N \ {t} PROVE u \in A
    OBVIOUS
  <2>1. at \in (end - w)..end /\ w \in Nat /\ at <= end /\ end \in Nat
    BY <1>1, KernelAssumption DEF InWindow
  <2>2. /\ u \in Trades /\ u # t /\ old[u].at \in (end - w)..end /\ old[u].at \in Nat
        /\ old[u].state \in {"reserved", "consumed"}
    BY <1>1 DEF InWindow, Spend
  <2>3. old[u].at >= at - w
    BY <2>1, <2>2
  <2> QED BY <2>2, <2>3
<1>4. /\ SumFunctionOnSet(f, O) <= Cap[w] /\ SumFunctionOnSet(f, A) + n <= Cap[w]
      /\ Cap[w] \in Nat
  BY KernelAssumption DEF Capped, TableSum
<1>5. t \notin N => N = N \ {t}
  OBVIOUS
<1> HIDE DEF A, O, N
<1>6. /\ IsFiniteSet(O) /\ \A u \in O : f[u] \in Nat
      /\ IsFiniteSet(A) /\ \A u \in A : f[u] \in Nat
  BY <1>2, Summable
<1> HIDE DEF e, f
<1>7. /\ SumFunctionOnSet(f, A) \in Nat /\ SumFunctionOnSet(f, O) \in Nat
  BY <1>6, SumSubset
<1>8. CASE t \in N
  <2>1. SumFunctionOnSet(e, N) \in Nat /\ SumFunctionOnSet(e, N) <= SumFunctionOnSet(f, A) + n
    BY <1>1, <1>2, <1>3, <1>6, <1>8, SumOfOneMore
  <2>2. SumFunctionOnSet(e, N) <= Cap[w]
    BY <1>4, <1>7, <2>1
  <2> QED BY <2>2 DEF TableSum, N, e
<1>9. CASE t \notin N
  <2>1. N \in SUBSET O /\ \A u \in N : e[u] = f[u]
    BY <1>2, <1>5, <1>9
  <2>2. SumFunctionOnSet(e, N) \in Nat /\ SumFunctionOnSet(e, N) <= SumFunctionOnSet(f, O)
    BY <1>6, <2>1, SumOfSome
  <2>3. SumFunctionOnSet(e, N) <= Cap[w]
    BY <1>4, <1>7, <2>2
  <2> QED BY <2>3 DEF TableSum, N, e
<1> QED BY <1>8, <1>9

\* Releasing and consuming make nothing count that did not count before: a
\* released spend that is consumed is marked as revived.
LEMMA NothingCountsAnew ==
  ASSUME TypeOK, NEW t \in Trades, NEW table \in {Released(t), Consumed(t)}
  PROVE  /\ table \in [Trades -> Spend]
         /\ \A u \in Trades : table[u].state # "none" => spend[u].state # "none"
         /\ \A u \in Trades : table[u].state \in {"reserved", "consumed"} /\ ~table[u].revived =>
              /\ spend[u].state \in {"reserved", "consumed"} /\ ~spend[u].revived
              /\ table[u].amount = spend[u].amount /\ table[u].at = spend[u].at
<1>1. spend \in [Trades -> Spend] /\ spend[t] \in Spend
  BY DEF TypeOK
<1>2. CASE table = Released(t)
  <2>1. table \in [Trades -> Spend]
    BY <1>2, ReleasedSpends
  <2> QED BY <1>1, <1>2, <2>1 DEF Released, Spend
<1>3. CASE table = Consumed(t)
  <2>1. table \in [Trades -> Spend] /\ \A u \in Trades \ {t} : table[u] = spend[u]
    BY <1>3, ConsumedSpends
  <2>2. CASE spend[t].state = "none"
    BY <1>3, <2>2 DEF Consumed, TypeOK
  <2>3. CASE spend[t].state # "none"
    <3> DEFINE r == spend[t].revived \/ spend[t].state = "released"
    <3>1. table[t] = [spend[t] EXCEPT !.state = "consumed", !.revived = r]
      BY <1>1, <1>3, <2>3 DEF Consumed
    <3> HIDE DEF r
    <3>2. table[t].revived = r /\ table[t].amount = spend[t].amount /\ table[t].at = spend[t].at
      BY <1>1, <3>1 DEF Spend
    <3>3. ~r => ~spend[t].revived /\ spend[t].state # "released"
      BY DEF r
    <3>4. ~r => spend[t].state \in {"reserved", "consumed"}
      BY <1>1, <2>3, <3>3 DEF Spend
    <3>5. ~table[t].revived => ~r
      BY <3>2, Zenon
    <3>6. ~table[t].revived => spend[t].state \in {"reserved", "consumed"} /\ ~spend[t].revived
      BY <3>3, <3>4, <3>5, Zenon
    <3> QED BY <2>1, <2>3, <3>2, <3>6
  <2> QED BY <2>2, <2>3
<1> QED BY <1>2, <1>3

\* Every step keeps the spends countable and within the caps.
LEMMA NextCaps ==
  TypeOK /\ Countable(spend) /\ Capped(spend) /\ [Next]_vars =>
    Countable(spend') /\ Capped(spend')
<1> SUFFICES ASSUME TypeOK, Countable(spend), Capped(spend), [Next]_vars
             PROVE  Countable(spend') /\ Capped(spend')
  OBVIOUS
<1>1. spend \in [Trades -> Spend]
  BY DEF TypeOK
<1>2. ASSUME NEW t \in Trades, spend' \in {Released(t), Consumed(t)}
      PROVE  Countable(spend') /\ Capped(spend')
  <2>1. /\ spend' \in [Trades -> Spend]
        /\ \A u \in Trades : spend'[u].state # "none" => spend[u].state # "none"
        /\ \A u \in Trades : spend'[u].state \in {"reserved", "consumed"} /\ ~spend'[u].revived =>
             /\ spend[u].state \in {"reserved", "consumed"} /\ ~spend[u].revived
             /\ spend'[u].amount = spend[u].amount /\ spend'[u].at = spend[u].at
    BY <1>2, NothingCountsAnew
  <2>2. Capped(spend')
    BY <1>1, <2>1, NothingNewCounts
  <2>3. {u \in Trades : spend'[u].state # "none"} \subseteq {u \in Trades : spend[u].state # "none"}
    BY <2>1
  <2>4. Countable(spend')
    BY <2>3, FS_Subset DEF Countable
  <2> QED BY <2>2, <2>4
<1>3. ASSUME NEW t \in Trades, Reserve(t), spend' # spend
      PROVE  Countable(spend') /\ Capped(spend')
  <2> DEFINE n == call[t].amount
             at == call[t].at
             new == [state |-> "reserved", amount |-> n, at |-> at, revived |-> FALSE]
  <2>1. call[t] \in Call /\ n # 0 /\ WithinCaps(n, at) /\ spend' = [spend EXCEPT ![t] = new]
    BY <1>3 DEF Reserve, TypeOK
  <2>2. n \in Amounts /\ n \in Nat /\ at \in Nat
    BY <2>1, KernelAssumption DEF Call
  <2>3. \A w \in Windows :
          TableSum(spend, {u \in Trades : /\ spend[u].state \in {"reserved", "consumed"}
                                         /\ spend[u].at >= at - w}) + n <= Cap[w]
    BY <2>1 DEF WithinCaps, SumActive, Sum, Active, TableSum
  <2> HIDE DEF n, at
  <2>4. Capped(spend')
    BY <1>1, <2>1, <2>2, <2>3, ReservedFits
  <2> DEFINE D == {u \in Trades : spend[u].state # "none"}
  <2>5. {u \in Trades : spend'[u].state # "none"} \subseteq D \cup {t}
    BY <1>1, <2>1
  <2>6. IsFiniteSet(D \cup {t})
    BY FS_AddElement DEF Countable
  <2>7. Countable(spend')
    BY <2>5, <2>6, FS_Subset DEF Countable
  <2> QED BY <2>4, <2>7
<1>4. CASE spend' = spend
  BY <1>4
<1>5. CASE spend' # spend
  <2>1. \/ \E t \in Trades : Reserve(t)
        \/ \E t \in Trades : spend' \in {Released(t), Consumed(t)}
    BY <1>5 DEF Next, vars, Execute, Live, GuardsRefuse, InsertTrade, Simulated, Sign, Reaches,
         Broadcast, Confirm, Settle, SetConfirmed, Throws, Release, Fail, Crash,
         RecoverConfirmed, RecoverOther, RecoverWrites, RecoverThrows, Land, Tick
  <2> QED BY <1>2, <1>3, <1>5, <2>1
<1> QED BY <1>4, <1>5

-----------------------------------------------------------------------------
(* The theorems.                                                           *)

\* The inductive invariant.
LEMMA Invariance == Spec => [](TypeOK /\ Agrees)
<1>1. Init => TypeOK /\ Agrees
  BY InitType, InitAgrees
<1>2. TypeOK /\ Agrees /\ [Next]_vars => (TypeOK /\ Agrees)'
  BY NextType, NextAgrees
<1> QED BY <1>1, <1>2, PTL DEF Spec

\* No rolling window ever holds more than its cap, for every number of trades,
\* every set of windows and caps, and however long an execute waits between
\* reading the time and reserving.
THEOREM CapsHold == Spec => []CapHolds
<1>1. Init => Countable(spend) /\ Capped(spend)
  <2> SUFFICES ASSUME Init PROVE Countable(spend) /\ Capped(spend)
    OBVIOUS
  <2>1. {t \in Trades : spend[t].state # "none"} = {}
    BY DEF Init
  <2>2. \A w \in Windows, end \in 0..MaxTime : InWindow(spend, w, end) = {}
    BY DEF Init, InWindow
  <2>3. \A w \in Windows, end \in 0..MaxTime : TableSum(spend, InWindow(spend, w, end)) = 0
    BY <2>2, SumEmpty, Zenon DEF TableSum
  <2>4. Countable(spend)
    BY <2>1, FS_EmptySet, Zenon DEF Countable
  <2>5. \A w \in Windows : Cap[w] \in Nat
    BY KernelAssumption
  <2>6. Capped(spend)
    BY <2>3, <2>5 DEF Capped
  <2> QED BY <2>4, <2>6
<1>2. TypeOK /\ (Countable(spend) /\ Capped(spend)) /\ [Next]_vars =>
        (Countable(spend) /\ Capped(spend))'
  BY NextCaps
<1>3. Capped(spend) => CapHolds
  BY DEF Capped, CapHolds, TableSum, Sum, InWindow, Active
<1> QED BY <1>1, <1>2, <1>3, Invariance, PTL DEF Spec

\* The signed bytes are in the row before they reach the cluster, and every
\* row recovery looks at has its signature.
THEOREM SentAlwaysRecorded == Spec => []SentIsRecorded
<1>1. Agrees => SentIsRecorded
  BY DEF Agrees, RowAgrees, SentIsRecorded
<1> QED BY <1>1, Invariance, PTL

\* One idempotency key moves money at most once, whatever crashes, retries and
\* concurrent executes: two signed trades of one key are the same trade.
THEOREM KeySignsOnce == Spec => []OneSignaturePerKey
<1>1. Agrees => OneSignaturePerKey
  BY DEF Agrees, RowAgrees, OneSignaturePerKey
<1> QED BY <1>1, Invariance, PTL

\* A trade recorded as confirmed did confirm and its spend is consumed.
THEOREM ConfirmedCounts == Spec => []ConfirmedIsCounted
<1>1. Agrees => ConfirmedIsCounted
  BY DEF Agrees, RowAgrees, ConfirmedIsCounted
<1> QED BY <1>1, Invariance, PTL

\* A failed trade holds no reservation, although row and spend are written in
\* two statements and recovery may repeat what a dying process began.
THEOREM FailedReleases == Spec => []FailedIsReleased
<1>1. Agrees => FailedIsReleased
  BY DEF Agrees, RowAgrees, FailedIsReleased
<1> QED BY <1>1, Invariance, PTL

\* A settled row never changes again: recovery works on the rows it listed at
\* boot and never on one that has been settled before.
TerminalIsFinal ==
  [][\A t \in Trades : trade[t].state \in {"confirmed"} \cup Failed =>
       trade'[t] = trade[t]]_vars

\* A settled row never changes again: neither its own execute nor recovery
\* still has it in hand.
THEOREM SettledForEver == Spec => TerminalIsFinal
<1> DEFINE Final(t) == trade[t].state \in {"confirmed"} \cup Failed
<1>1. TypeOK /\ Agrees /\ [Next]_vars =>
        [\A t \in Trades : Final(t) => trade'[t] = trade[t]]_vars
  <2> SUFFICES ASSUME TypeOK, Agrees, Next, NEW u \in Trades, Final(u)
               PROVE  trade'[u] = trade[u]
    OBVIOUS
  <2>1. call[u].pc \in {"idle", "done"} \/ trade[u].state \in {"absent", "reserved", "sent"}
    BY DEF Agrees, CallAgrees
  <2>2. call[u].pc = "done" /\ u \notin rec.queue /\ u # rec.cur
    BY <2>1 DEF Agrees, CallAgrees, ListAgrees, Failed
  <2>3. ASSUME NEW t \in Trades, Live(t) PROVE trade'[u] = trade[u]
    BY <2>2, <2>3 DEF Live, At, Reserve, GuardsRefuse, InsertTrade, Simulated, Sign,
         PersistSigned, Broadcast, Confirm, Settle, SetConfirmed, Throws, Release, Fail, TypeOK
  <2>4. CASE RecoverWrites
    BY <2>2, <2>4 DEF RecoverWrites, TypeOK
  <2>5. CASE ~RecoverWrites /\ ~\E t \in Trades : Live(t)
    BY <2>5 DEF Next, Execute, RecoverConfirmed, RecoverOther, Reaches, Land,
         RecoverThrows, Crash, Tick
  <2> QED BY <2>3, <2>4, <2>5
<1> QED BY <1>1, Invariance, PTL DEF Spec, TerminalIsFinal

-----------------------------------------------------------------------------
(* The refinement of TradeSettlement.                                      *)

\* What a spend says of its execute, its row and the cluster.  This is what
\* lets the two writes of a settlement look like one: nothing is consumed that
\* did not land, and nothing is given back under an execute that goes on.
SpendAgrees(t) ==
  /\ call[t].pc = "guarding" => spend[t].state = "none"
  /\ call[t].pc = "reading" => spend[t].state \in {"none", "reserved"}
  /\ trade[t].state = "absent" => spend[t].state # "consumed"
  /\ spend[t].state = "consumed" => chain[t] = "confirmed"

SpendsAgree == \A t \in Trades : SpendAgrees(t)

\* Every step keeps spends, executes, rows and the cluster in agreement.
LEMMA NextSpends == TypeOK /\ Agrees /\ SpendsAgree /\ [Next]_vars => SpendsAgree'
<1> SUFFICES ASSUME TypeOK, Agrees, SpendsAgree, [Next]_vars, NEW u \in Trades
             PROVE  SpendAgrees(u)'
  BY DEF SpendsAgree
<1>a. SpendAgrees(u) /\ CallAgrees(u) /\ RowAgrees(u) /\ ListAgrees(u)
  BY DEF SpendsAgree, Agrees
<1>1. ASSUME NEW t \in Trades, NEW k \in Keys, NEW n \in Amounts, Execute(t, k, n)
      PROVE  SpendAgrees(u)'
  BY <1>1, <1>a DEF Execute, At, Goto, IdleCall, SpendAgrees, CallAgrees, TypeOK
<1>2. ASSUME NEW t \in Trades, Live(t) PROVE SpendAgrees(u)'
  <2>1. CASE u # t
    <3>1. trade'[u] = trade[u] /\ call'[u] = call[u] /\ chain' = chain
      BY <1>2, <2>1 DEF Live, Goto, Reserve, GuardsRefuse, InsertTrade, Simulated, Sign,
           PersistSigned, Broadcast, Confirm, Settle, SetConfirmed, Throws, Release, Fail, TypeOK
    <3>2. spend'[u] = spend[u]
      BY <1>2, <2>1, ReleasedSpends, ConsumedSpends
         DEF Live, Reserve, GuardsRefuse, InsertTrade, Simulated, Sign,
           Broadcast, Confirm, Settle, SetConfirmed, Throws, Release, Fail, TypeOK
    <3> QED BY <3>1, <3>2, <1>a DEF SpendAgrees
  <2>2. CASE u = t
    <3>1. CASE Reserve(u)
      <4>1. trade' = trade /\ chain' = chain /\ spend[u].state = "none"
        BY <3>1, <1>a DEF Reserve, At, SpendAgrees
      <4>2. call'[u].pc \in {"reading", "done"} /\ spend'[u].state \in {"none", "reserved"}
        BY <3>1, <4>1 DEF Reserve, Goto, Call, Spend, TypeOK
      <4> QED BY <4>1, <4>2 DEF SpendAgrees
    <3>2. CASE Settle(u)
      <4>1. call'[u].pc = "consumed" /\ trade'[u].state = "sent" /\ chain'[u] = "confirmed"
        BY <3>2, <1>a DEF Settle, At, Goto, CallAgrees, TypeOK
      <4> QED BY <4>1 DEF SpendAgrees
    <3>3. CASE Release(u)
      <4>1. /\ call'[u].pc = "released" /\ trade' = trade /\ chain' = chain
            /\ spend' = Released(u)
        BY <3>3 DEF Release, At, Goto, TypeOK
      <4>2. spend'[u].state = "consumed" => spend[u].state = "consumed"
        BY <4>1 DEF Released, TypeOK
      <4> QED BY <4>1, <4>2, <1>a DEF SpendAgrees
    <3>4. CASE InsertTrade(u) \/ Sign(u) \/ Broadcast(u) \/ SetConfirmed(u) \/ Fail(u)
      <4>1. /\ call'[u].pc \notin {"guarding", "reading"}
            /\ spend' = spend /\ chain' = chain
            /\ trade'[u].state = "absent" => trade[u].state = "absent"
        BY <3>4, <1>a DEF InsertTrade, Sign, PersistSigned, Broadcast, SetConfirmed, Fail,
             At, Goto, CallAgrees, Failed, Trade, Call, TypeOK
      <4> QED BY <4>1, <1>a DEF SpendAgrees
    <3>5. CASE GuardsRefuse(u) \/ Simulated(u) \/ Confirm(u) \/ Throws(u)
      <4>1. /\ call'[u].pc \notin {"guarding", "reading"}
            /\ spend' = spend /\ chain' = chain /\ trade' = trade
        BY <3>5 DEF GuardsRefuse, Simulated, Confirm, Throws, Goto, Call, TypeOK
      <4> QED BY <4>1, <1>a DEF SpendAgrees
    <3> QED BY <1>2, <2>2, <3>1, <3>2, <3>3, <3>4, <3>5 DEF Live
  <2> QED BY <2>1, <2>2
<1>3. ASSUME NEW t \in Trades, RecoverConfirmed(t) \/ RecoverOther(t)
      PROVE  SpendAgrees(u)'
  <2>1. trade' = trade /\ call' = call /\ chain' = chain
    BY <1>3 DEF RecoverConfirmed, RecoverOther
  <2>2. CASE u # t
    <3>1. spend'[u] = spend[u]
      BY <1>3, <2>2, ReleasedSpends, ConsumedSpends DEF RecoverConfirmed, RecoverOther
    <3> QED BY <2>1, <3>1, <1>a DEF SpendAgrees
  <2>3. CASE u = t
    <3>1. call[u].pc = "done" /\ trade[u].state = "sent"
      BY <1>3, <2>3, <1>a DEF RecoverConfirmed, RecoverOther, ListAgrees
    <3>2. spend'[u].state = "consumed" => spend[u].state = "consumed" \/ chain[u] = "confirmed"
      BY <1>3, <2>3 DEF RecoverConfirmed, RecoverOther, Released, Spend, TypeOK
    <3> QED BY <2>1, <3>1, <3>2, <1>a DEF SpendAgrees
  <2> QED BY <2>2, <2>3
<1>4. ASSUME NEW t \in Trades, Reaches(t) \/ Land(t) PROVE SpendAgrees(u)'
  BY <1>4, <1>a DEF Reaches, Land, SpendAgrees, TypeOK
<1>5. CASE RecoverWrites
  <2>1. rec.cur \in Trades /\ (rec.as \in Failed \/ rec.step = "consumed")
    BY <1>5 DEF RecoverWrites, TypeOK, Rec, Agrees, ListAgrees
  <2>2. trade'[u].state = "absent" => trade[u].state = "absent"
    BY <1>5, <2>1 DEF RecoverWrites, TypeOK, Failed
  <2> QED BY <1>5, <2>2, <1>a DEF RecoverWrites, SpendAgrees
<1>6. CASE Crash
  <2>1. call'[u] = call[u] \/ call'[u].pc = "done"
    BY <1>6 DEF Crash, IdleCall, TypeOK
  <2> QED BY <1>6, <2>1, <1>a DEF Crash, SpendAgrees
<1>7. CASE RecoverThrows \/ Tick \/ UNCHANGED vars
  BY <1>7, <1>a DEF RecoverThrows, Tick, vars, SpendAgrees
<1> QED BY <1>1, <1>2, <1>3, <1>4, <1>5, <1>6, <1>7 DEF Next

\* What the states of a row and of a spend look like from outside.
LEMMA Seen ==
  /\ SeenRow("absent") = "none" /\ SeenRow("reserved") = "open" /\ SeenRow("sent") = "open"
  /\ SeenRow("confirmed") = "confirmed" /\ \A s \in Failed : SeenRow(s) = "failed"
  /\ \A s : SeenMoney(s, "none") = "none" /\ SeenMoney(s, "reserved") = "held"
  /\ \A s \in {"reserved", "sent"}, m \in {"released", "consumed"} : SeenMoney(s, m) = "held"
  /\ \A s \in {"absent", "confirmed"} \cup Failed :
       SeenMoney(s, "released") = "free" /\ SeenMoney(s, "consumed") = "spent"
<1>1. /\ SeenRow("absent") = "none" /\ SeenRow("reserved") = "open"
      /\ SeenRow("sent") = "open" /\ SeenRow("confirmed") = "confirmed"
      /\ \A s \in Failed : SeenRow(s) = "failed"
  BY DEF SeenRow, Failed
<1>2. \A s : SeenMoney(s, "none") = "none" /\ SeenMoney(s, "reserved") = "held"
  BY DEF SeenMoney
<1>3. \A s \in {"reserved", "sent"}, m \in {"released", "consumed"} : SeenMoney(s, m) = "held"
  BY <1>1 DEF SeenMoney
<1>4. \A s \in {"absent", "confirmed"} \cup Failed :
        SeenMoney(s, "released") = "free" /\ SeenMoney(s, "consumed") = "spent"
  BY <1>1 DEF SeenMoney
<1> QED BY <1>1, <1>2, <1>3, <1>4

\* The state of TradeSettlement, as the refinement maps it
Rows  == [t \in Trades |-> SeenRow(trade[t].state)]
Money == [t \in Trades |-> SeenMoney(trade[t].state, spend[t].state)]
Cluster == {t \in Trades : chain[t] = "confirmed"}

\* A step that writes the row and the spend of one trade changes what is seen
\* of that trade alone.
LEMMA SeenOfOne ==
  ASSUME NEW t \in Trades,
         \A u \in Trades \ {t} : trade'[u] = trade[u] /\ spend'[u] = spend[u]
  PROVE  /\ Rows' = [Rows EXCEPT ![t] = SeenRow(trade'[t].state)]
         /\ Money' = [Money EXCEPT ![t] = SeenMoney(trade'[t].state, spend'[t].state)]
BY DEF Rows, Money

\* A step that changes nothing of what is seen is a stutter of TradeSettlement.
LEMMA SeenUnchanged ==
  ASSUME NEW t \in Trades,
         \A u \in Trades \ {t} : trade'[u] = trade[u] /\ spend'[u] = spend[u],
         SeenRow(trade'[t].state) = SeenRow(trade[t].state),
         SeenMoney(trade'[t].state, spend'[t].state) = SeenMoney(trade[t].state, spend[t].state),
         Cluster' = Cluster
  PROVE  UNCHANGED Settlement!vars
<1>1. Rows' = Rows /\ Money' = Money
  BY SeenOfOne DEF Rows, Money
<1> QED BY <1>1 DEF Rows, Money, Cluster, Settlement!vars

\* Closing an open row settles its trade in one step: confirmed, when it
\* landed and its money is consumed, or failed, when its money is no longer
\* reserved and is consumed only if it landed.
LEMMA ClosingSettles ==
  ASSUME TypeOK, NEW t \in Trades, SpendAgrees(t),
         trade[t].state \in {"reserved", "sent"},
         \A u \in Trades \ {t} : trade'[u] = trade[u],
         UNCHANGED <<spend, chain>>,
         \/ /\ trade'[t].state = "confirmed"
            /\ chain[t] = "confirmed" /\ spend[t].state \in {"none", "consumed"}
         \/ trade'[t].state \in Failed /\ spend[t].state # "reserved"
  PROVE  Settlement!Next
<1> DEFINE s == trade[t].state
           z == trade'[t].state
           m == spend[t].state
<1>1. /\ Rows' = [Rows EXCEPT ![t] = SeenRow(z)]
      /\ Money' = [Money EXCEPT ![t] = SeenMoney(z, m)]
      /\ Cluster' = Cluster
  <2>1. \A u \in Trades \ {t} : trade'[u] = trade[u] /\ spend'[u] = spend[u]
    OBVIOUS
  <2> QED BY <2>1, SeenOfOne DEF Cluster
<1>2. Rows[t] = "open" /\ Money[t] = SeenMoney(s, m) /\ (t \in Cluster <=> chain[t] = "confirmed")
  BY Seen DEF Rows, Money, Cluster
<1>3. m \in {"none", "reserved", "released", "consumed"}
  BY DEF TypeOK, Spend
<1>4. m = "consumed" => t \in Cluster
  BY <1>2 DEF SpendAgrees
<1> HIDE DEF s, z, m
<1>5. CASE z = "confirmed" /\ chain[t] = "confirmed" /\ m \in {"none", "consumed"}
  <2>1. SeenRow(z) = "confirmed"
    BY <1>5, Seen
  <2>2. SeenMoney(z, m) = IF Money[t] = "held" THEN "spent" ELSE Money[t]
    BY <1>2, <1>5, Seen DEF s
  <2>3. Settlement!Confirm(t)
    BY <1>1, <1>2, <1>5, <2>1, <2>2 DEF Settlement!Confirm, Rows, Money, Cluster
  <2> QED BY <2>3 DEF Settlement!Next
<1>6. CASE z \in Failed /\ m # "reserved"
  <2> DEFINE end == IF m = "consumed" THEN "spent" ELSE "free"
  <2>1. SeenRow(z) = "failed"
    BY <1>6, Seen
  <2>2. SeenMoney(z, m) = IF Money[t] = "held" THEN end ELSE Money[t]
    <3>1. CASE m = "none"
      BY <1>2, <3>1, Seen
    <3>2. CASE m \in {"released", "consumed"}
      <4>1. Money[t] = "held"
        BY <1>2, <3>2, Seen DEF s
      <4>2. SeenMoney(z, "released") = "free" /\ SeenMoney(z, "consumed") = "spent"
        <5>1. z \in {"absent", "confirmed"} \cup Failed
          BY <1>6
        <5> QED BY <5>1, Seen
      <4> QED BY <3>2, <4>1, <4>2
    <3> QED BY <1>3, <1>6, <3>1, <3>2
  <2>3. end \in IF t \in Cluster THEN {"free", "spent"} ELSE {"free"}
    BY <1>4
  <2> HIDE DEF end
  <2>4. Settlement!Fail(t)
    BY <1>1, <1>2, <2>1, <2>2, <2>3 DEF Settlement!Fail, Rows, Money, Cluster
  <2> QED BY <2>4 DEF Settlement!Next
<1> QED BY <1>5, <1>6 DEF z, m

\* Every step of an execute, of recovery and of the cluster is a step of
\* TradeSettlement or changes nothing of what is seen.
LEMMA StepSettles ==
  TypeOK /\ Agrees /\ SpendsAgree /\ [Next]_vars => [Settlement!Next]_(Settlement!vars)
<1> SUFFICES ASSUME TypeOK, Agrees, SpendsAgree, [Next]_vars
             PROVE  Settlement!Next \/ UNCHANGED Settlement!vars
  OBVIOUS
<1> USE KernelAssumption
<1>a. \A t \in Trades : CallAgrees(t) /\ RowAgrees(t) /\ ListAgrees(t) /\ SpendAgrees(t)
  BY DEF Agrees, SpendsAgree
<1>b. \A t \in Trades :
        /\ trade[t].state \in {"absent", "reserved", "sent", "confirmed"} \cup Failed
        /\ spend[t].state \in {"none", "reserved", "released", "consumed"}
  BY DEF TypeOK, Trade, Spend
<1>1. CASE UNCHANGED <<trade, spend, chain>>
  BY <1>1 DEF Settlement!vars
<1>2. ASSUME NEW t \in Trades, Reserve(t), ~UNCHANGED spend PROVE Settlement!Next
  <2>1. /\ trade' = trade /\ chain' = chain
        /\ spend[t].state = "none" /\ trade[t].state = "absent"
    BY <1>2, <1>a DEF Reserve, At, CallAgrees, SpendAgrees
  <2>2. /\ spend'[t].state = "reserved"
        /\ \A u \in Trades \ {t} : trade'[u] = trade[u] /\ spend'[u] = spend[u]
    BY <1>2, <2>1 DEF Reserve, TypeOK
  <2>3. /\ Rows' = Rows /\ Cluster' = Cluster
        /\ Money' = [Money EXCEPT ![t] = "held"]
    <3>1. Money' = [Money EXCEPT ![t] = SeenMoney(trade'[t].state, spend'[t].state)]
      BY <2>2, SeenOfOne
    <3>2. SeenMoney(trade'[t].state, spend'[t].state) = "held"
      BY <2>2, Seen
    <3> QED BY <2>1, <3>1, <3>2 DEF Rows, Cluster
  <2>4. Rows[t] = "none" /\ Money[t] = "none"
    BY <2>1, Seen DEF Rows, Money
  <2>5. Settlement!Hold(t)
    BY <2>3, <2>4 DEF Settlement!Hold, Rows, Money, Cluster
  <2> QED BY <2>5 DEF Settlement!Next
<1>3. ASSUME NEW t \in Trades, InsertTrade(t) PROVE Settlement!Next
  <2>1. /\ spend' = spend /\ chain' = chain /\ trade[t].state = "absent"
        /\ spend[t].state \in {"none", "reserved"}
    BY <1>3, <1>a DEF InsertTrade, At, CallAgrees, SpendAgrees
  <2>2. /\ trade'[t].state = "reserved"
        /\ \A u \in Trades \ {t} : trade'[u] = trade[u] /\ spend'[u] = spend[u]
    BY <1>3, <2>1 DEF InsertTrade, TypeOK
  <2>3. Rows[t] = "none" /\ Money[t] \in {"none", "held"}
    BY <2>1, Seen DEF Rows, Money
  <2>4. Rows' = [Rows EXCEPT ![t] = "open"] /\ Money' = Money /\ Cluster' = Cluster
    <3>1. /\ Rows' = [Rows EXCEPT ![t] = SeenRow(trade'[t].state)]
          /\ Money' = [Money EXCEPT ![t] = SeenMoney(trade'[t].state, spend'[t].state)]
      BY <2>2, SeenOfOne
    <3>2. /\ SeenRow(trade'[t].state) = "open"
          /\ SeenMoney(trade'[t].state, spend'[t].state) = Money[t]
      BY <2>1, <2>2, Seen DEF Money
    <3> QED BY <2>1, <3>1, <3>2 DEF Money, Cluster
  <2>5. Settlement!Open(t)
    BY <2>3, <2>4 DEF Settlement!Open, Rows, Money, Cluster
  <2> QED BY <2>5 DEF Settlement!Next
<1>4. ASSUME NEW t \in Trades, Sign(t) \/ Broadcast(t) PROVE UNCHANGED Settlement!vars
  <2>1. /\ spend' = spend /\ chain' = chain
        /\ trade[t].state = "reserved" /\ trade'[t].state \in {"reserved", "sent"}
        /\ \A u \in Trades \ {t} : trade'[u] = trade[u]
    BY <1>4, <1>a DEF Sign, PersistSigned, Broadcast, At, CallAgrees, Trade, TypeOK
  <2>2. /\ SeenRow(trade'[t].state) = SeenRow(trade[t].state)
        /\ SeenMoney(trade'[t].state, spend'[t].state) = SeenMoney(trade[t].state, spend[t].state)
    BY <2>1, <1>b, Seen
  <2>3. Cluster' = Cluster
    BY <2>1 DEF Cluster
  <2> QED BY <2>1, <2>2, <2>3, SeenUnchanged
\* The first of the two writes: the row is open, so the money is still held
<1>5. ASSUME NEW t \in Trades, trade[t].state \in {"reserved", "sent"},
             UNCHANGED <<trade, chain>>, spend' \in {Released(t), Consumed(t)}
      PROVE  UNCHANGED Settlement!vars
  <2>1. \A u \in Trades \ {t} : trade'[u] = trade[u] /\ spend'[u] = spend[u]
    BY <1>5, ReleasedSpends, ConsumedSpends
  <2>2. /\ spend[t].state = "none" => spend'[t].state = "none"
        /\ spend[t].state # "none" => spend'[t].state \in {"released", "consumed"}
    BY <1>5, <1>b DEF Released, Consumed, Spend, TypeOK
  <2>3. SeenMoney(trade'[t].state, spend'[t].state) = SeenMoney(trade[t].state, spend[t].state)
    BY <1>5, <1>b, <2>2, Seen
  <2>4. Cluster' = Cluster /\ SeenRow(trade'[t].state) = SeenRow(trade[t].state)
    BY <1>5 DEF Cluster
  <2> QED BY <2>1, <2>3, <2>4, SeenUnchanged
\* Giving the money back before there is a row
<1>6. ASSUME NEW t \in Trades, Release(t), trade[t].state = "absent"
      PROVE  Settlement!Next \/ UNCHANGED Settlement!vars
  <2>1. trade' = trade /\ chain' = chain /\ spend' = Released(t)
    BY <1>6 DEF Release
  <2>2. CASE spend[t].state = "reserved"
    <3>1. /\ spend'[t].state = "released"
          /\ \A u \in Trades \ {t} : trade'[u] = trade[u] /\ spend'[u] = spend[u]
      BY <2>1, <2>2 DEF Released, Spend, TypeOK
    <3>2. Rows' = Rows /\ Cluster' = Cluster /\ Money' = [Money EXCEPT ![t] = "free"]
      <4>1. Money' = [Money EXCEPT ![t] = SeenMoney(trade'[t].state, spend'[t].state)]
        BY <3>1, SeenOfOne
      <4>2. SeenMoney(trade'[t].state, spend'[t].state) = "free"
        BY <1>6, <2>1, <3>1, Seen
      <4> QED BY <2>1, <4>1, <4>2 DEF Rows, Cluster
    <3>3. Rows[t] = "none" /\ Money[t] = "held"
      BY <1>6, <2>2, Seen DEF Rows, Money
    <3>4. Settlement!Drop(t)
      BY <3>2, <3>3 DEF Settlement!Drop, Rows, Money, Cluster
    <3> QED BY <3>4 DEF Settlement!Next
  <2>3. CASE spend[t].state # "reserved"
    BY <2>1, <2>3, <1>1 DEF Released
  <2> QED BY <2>2, <2>3
\* The second write
<1>7. ASSUME NEW t \in Trades, SetConfirmed(t) \/ Fail(t)
      PROVE  Settlement!Next \/ UNCHANGED Settlement!vars
  <2>1. CASE trade[t].state = "absent" /\ Fail(t)
    BY <2>1, <1>1 DEF Fail
  <2>2. CASE ~(trade[t].state = "absent" /\ Fail(t))
    <3>1. SpendAgrees(t) /\ CallAgrees(t)
      BY <1>a
    <3>2. trade[t].state \in {"reserved", "sent"}
      BY <1>7, <2>2, <3>1 DEF SetConfirmed, Fail, At, CallAgrees
    <3>3. \A u \in Trades \ {t} : trade'[u] = trade[u]
      BY <1>7 DEF SetConfirmed, Fail, TypeOK
    <3>4. UNCHANGED <<spend, chain>>
      BY <1>7 DEF SetConfirmed, Fail
    <3>5. \/ /\ trade'[t].state = "confirmed"
             /\ chain[t] = "confirmed" /\ spend[t].state \in {"none", "consumed"}
          \/ trade'[t].state \in Failed /\ spend[t].state # "reserved"
      BY <1>7, <2>2, <3>1 DEF SetConfirmed, Fail, At, CallAgrees, Trade, TypeOK
    <3> QED BY <3>1, <3>2, <3>3, <3>4, <3>5, ClosingSettles
  <2> QED BY <2>1, <2>2
<1>8. CASE RecoverWrites
  <2> DEFINE t == rec.cur
  <2>1. t \in Trades /\ UNCHANGED <<spend, chain>>
    BY <1>8 DEF RecoverWrites, TypeOK, Rec
  <2>2. SpendAgrees(t) /\ ListAgrees(t)
    BY <2>1, <1>a
  <2>3. trade[t].state \in {"reserved", "sent"}
    BY <2>2 DEF ListAgrees
  <2>4. \A u \in Trades \ {t} : trade'[u] = trade[u]
    BY <1>8 DEF RecoverWrites, TypeOK
  <2>5. trade'[t].state = IF rec.step = "consumed" THEN "confirmed" ELSE rec.as
    BY <1>8, <2>1 DEF RecoverWrites, Trade, TypeOK
  <2>6. \/ /\ trade'[t].state = "confirmed"
           /\ chain[t] = "confirmed" /\ spend[t].state \in {"none", "consumed"}
        \/ trade'[t].state \in Failed /\ spend[t].state # "reserved"
    BY <2>2, <2>5 DEF ListAgrees
  <2> HIDE DEF t
  <2> QED BY <2>1, <2>2, <2>3, <2>4, <2>6, ClosingSettles
<1>9. ASSUME NEW t \in Trades, Reaches(t) \/ Land(t)
      PROVE  Settlement!Next \/ UNCHANGED Settlement!vars
  <2>1. UNCHANGED <<trade, spend>> /\ chain[t] # "confirmed"
    BY <1>9 DEF Reaches, Land
  <2>2. Rows' = Rows /\ Money' = Money
    BY <2>1 DEF Rows, Money
  <2>3. CASE chain'[t] = "confirmed"
    <3>1. Cluster' = Cluster \cup {t} /\ t \notin Cluster
      BY <1>9, <2>1, <2>3 DEF Reaches, Land, Cluster, TypeOK
    <3>2. trade[t].state # "absent"
      BY <1>9, <2>3, <1>a DEF Reaches, Land, RowAgrees, TypeOK
    <3>3. Rows[t] # "none"
      BY <3>2, <1>b, Seen DEF Rows
    <3>4. Settlement!Land(t)
      BY <2>2, <3>1, <3>3 DEF Settlement!Land, Rows, Money, Cluster
    <3> QED BY <3>4 DEF Settlement!Next
  <2>4. CASE chain'[t] # "confirmed"
    <3>1. Cluster' = Cluster
      BY <1>9, <2>1, <2>4 DEF Reaches, Land, Cluster, TypeOK
    <3> QED BY <2>2, <3>1 DEF Rows, Money, Cluster, Settlement!vars
  <2> QED BY <2>3, <2>4
<1>10. ASSUME NEW t \in Trades, Live(t) PROVE Settlement!Next \/ UNCHANGED Settlement!vars
  <2>1. CASE Reserve(t)
    BY <2>1, <1>1, <1>2 DEF Reserve
  <2>2. CASE GuardsRefuse(t) \/ Simulated(t) \/ Confirm(t) \/ Throws(t)
    BY <2>2, <1>1 DEF GuardsRefuse, Simulated, Confirm, Throws
  <2>3. CASE Settle(t)
    <3>1. /\ trade[t].state \in {"reserved", "sent"}
          /\ UNCHANGED <<trade, chain>> /\ spend' \in {Released(t), Consumed(t)}
      BY <2>3, <1>a DEF Settle, At, CallAgrees
    <3> QED BY <3>1, <1>5
  <2>4. CASE Release(t)
    <3>1. /\ trade[t].state \in {"absent", "reserved", "sent"}
          /\ UNCHANGED <<trade, chain>> /\ spend' \in {Released(t), Consumed(t)}
      BY <2>4, <1>a DEF Release, At, CallAgrees
    <3> QED BY <2>4, <3>1, <1>5, <1>6
  <2> QED BY <1>10, <2>1, <2>2, <2>3, <2>4, <1>3, <1>4, <1>7 DEF Live
<1>11. ASSUME NEW t \in Trades, RecoverConfirmed(t) \/ RecoverOther(t)
       PROVE  UNCHANGED Settlement!vars
  <2>1. /\ trade[t].state \in {"reserved", "sent"}
        /\ UNCHANGED <<trade, chain>> /\ spend' \in {Released(t), Consumed(t)}
    BY <1>11, <1>a DEF RecoverConfirmed, RecoverOther, ListAgrees
  <2> QED BY <2>1, <1>5
<1>12. ASSUME NEW t \in Trades, NEW k \in Keys, NEW n \in Amounts, Execute(t, k, n)
       PROVE  Settlement!Next \/ UNCHANGED Settlement!vars
  BY <1>12, <1>1 DEF Execute
<1>13. CASE RecoverThrows \/ Crash \/ Tick \/ UNCHANGED vars
  BY <1>13, <1>1 DEF RecoverThrows, Crash, Tick, vars
<1> QED BY <1>8, <1>9, <1>10, <1>11, <1>12, <1>13 DEF Next

\* The money path implements TradeSettlement: a crash between the two writes
\* of a settlement, a recovery that decides otherwise than the process that
\* died, and executes in any number are not seen from outside, where every
\* trade is settled once and for ever, its row and its money together.
THEOREM RefinesSettlement == Spec => ImplementsSettlement
<1>1. Init => Settlement!Init /\ SpendsAgree
  <2> SUFFICES ASSUME Init PROVE Settlement!Init /\ SpendsAgree
    OBVIOUS
  <2>1. \A t \in Trades : /\ trade[t].state = "absent" /\ spend[t].state = "none"
                          /\ chain[t] = "none" /\ call[t].pc = "idle"
    BY DEF Init, IdleCall
  <2>2. SpendsAgree
    BY <2>1 DEF SpendsAgree, SpendAgrees
  <2>3. Settlement!Init
    BY <2>1, Seen DEF Settlement!Init
  <2> QED BY <2>2, <2>3
<1>2. TypeOK /\ Agrees /\ SpendsAgree /\ [Next]_vars => SpendsAgree'
  BY NextSpends
<1>3. TypeOK /\ Agrees /\ SpendsAgree /\ [Next]_vars => [Settlement!Next]_(Settlement!vars)
  BY StepSettles
<1> QED BY <1>1, <1>2, <1>3, Invariance, PTL DEF Spec, ImplementsSettlement, Settlement!Spec
=============================================================================
