------------------------------ MODULE EventBus ------------------------------
(***************************************************************************)
(* SqliteEventBus (autonomy/events): an outbox of events, one offset per   *)
(* consumer, bounded retries and dead letters.                             *)
(*                                                                         *)
(* All deliveries of a process go through one promise chain (`locks`), here *)
(* the sequence chain, whose head is the delivery under way.  A handler is *)
(* awaited inside an open transaction of the bus's only connection, so     *)
(* that an event published meanwhile is inserted inside that transaction.  *)
(* A row is its event; its cursor is its place in the outbox (AUTOINCREMENT *)
(* hands out a rolled-back cursor again).                                  *)
(***************************************************************************)
EXTENDS Integers, Sequences, Filters, Functions

CONSTANTS
  Events,       \* event ids
  Consumers,    \* subscribed consumers, a sequence in subscription order
  Wants,        \* Wants[c]: the events that pass c's types and filter
  Stale,        \* events whose stored form the present schemas refuse
  MaxAttempts, BatchSize,
  MaxCalls      \* bound on the deliveries waiting in the chain

\* Somebody has subscribed; a batch holds something and a handler is tried
ASSUME BusAssumption ==
  /\ Consumers \in Seq(Range(Consumers)) /\ Consumers # <<>>
  /\ BatchSize \in Nat \ {0} /\ MaxAttempts \in Nat \ {0}

VARIABLES
  outbox,       \* the outbox table as the connection sees it
  offset,       \* consumer_offsets
  retries,      \* retries: the rows [cursor, attempts] of each consumer
  dead,         \* dead_letters: cursors
  done,         \* done[c]: the (cursor, event) pairs whose handler committed, in order
  chain,        \* deliveries waiting for the lock, the head is running
  tx            \* the open transaction, or NoTx

busVars == <<outbox, offset, retries, dead, done, chain, tx>>

Subs == Range(Consumers)
NoTx == [event |-> "none", cursor |-> 0, mark |-> 0]

\* A delivery: publish hands one event to one consumer after the other, deliver
\* works through batches.  `rows` is the batch still to be processed.
OutboxRow(e, k) == [event |-> e, cursor |-> k]
Task(kind, i, rows, full) == [kind |-> kind, sub |-> i, rows |-> rows, full |-> full]

\* replay: at most BatchSize rows after the cursor, without the malformed ones
Replay(k) ==
  LET left  == IF Len(outbox) > k THEN Len(outbox) - k ELSE 0
      batch == [i \in 1..(IF left < BatchSize THEN left ELSE BatchSize) |->
                  OutboxRow(outbox[k + i], k + i)]
  IN  Without(batch, {r \in Range(batch) : r.event \in Stale})

Running == Head(chain)
Consumer == Consumers[Running.sub]

\* The chain after the running delivery has ended: publish and deliver go on to
\* the next consumer, at the end of the chain
NextSub(kind, i, rows) ==
  IF i < Len(Consumers)
  THEN Append(Tail(chain), Task(kind, i + 1, IF kind = "publish" THEN rows ELSE <<>>, TRUE))
  ELSE Tail(chain)

-----------------------------------------------------------------------------

BusInit ==
  /\ outbox = <<>>
  /\ offset = [c \in Subs |-> 0]
  /\ retries = [c \in Subs |-> {}]
  /\ dead = [c \in Subs |-> {}]
  /\ done = [c \in Subs |-> <<>>]
  /\ chain = <<>>
  /\ tx = NoTx

\* publish: INSERT OR IGNORE, read the cursor back, queue the first delivery.
\* It runs whenever the event loop is free, an open transaction or not.
Publish(e) ==
  /\ Len(chain) < MaxCalls
  /\ outbox' = IF e \in Range(outbox) THEN outbox ELSE Append(outbox, e)
  /\ chain' = Append(chain, Task("publish", 1,
       <<OutboxRow(e, CHOOSE k \in 1..Len(outbox') : outbox'[k] = e)>>, TRUE))
  /\ UNCHANGED <<offset, retries, dead, done, tx>>

\* deliver: queued behind whatever the chain holds
Deliver ==
  /\ Len(chain) < MaxCalls
  /\ \A i \in DOMAIN chain : chain[i].kind # "deliver"
  /\ chain' = Append(chain, Task("deliver", 1, <<>>, TRUE))
  /\ UNCHANGED <<outbox, offset, retries, dead, done, tx>>

\* deliver: the next batch, or the end of this consumer's turn
Batch ==
  /\ chain # <<>> /\ tx = NoTx
  /\ Running.kind = "deliver" /\ Running.rows = <<>>
  /\ LET rows == Replay(offset[Consumer])
     IN  chain' = IF Running.full /\ rows # <<>>
                  THEN <<[Running EXCEPT !.rows = rows, !.full = Len(rows) = BatchSize]>>
                         \o Tail(chain)
                  ELSE NextSub("deliver", Running.sub, <<>>)
  /\ UNCHANGED <<outbox, offset, retries, dead, done, tx>>

\* The running delivery drops its first row
RowDone ==
  IF Running.kind = "publish"
  THEN NextSub("publish", Running.sub, Running.rows)
  ELSE <<[Running EXCEPT !.rows = Tail(@)]>> \o Tail(chain)

\* Fault: the offset is not compared before the handler runs
NeverBehind(k) == FALSE

\* process: x.cursor <= offset
Behind(k) == k <= offset[Consumer]

\* process: a row at or below the offset is left alone
Skip ==
  /\ chain # <<>> /\ tx = NoTx /\ Running.rows # <<>>
  /\ Behind(Head(Running.rows).cursor)
  /\ chain' = RowDone
  /\ UNCHANGED <<outbox, offset, retries, dead, done, tx>>

\* process: BEGIN IMMEDIATE, then the handler is called and awaited
Begin ==
  /\ chain # <<>> /\ tx = NoTx /\ Running.rows # <<>>
  /\ LET r == Head(Running.rows)
     IN  /\ ~Behind(r.cursor)
         /\ tx' = [event |-> r.event, cursor |-> r.cursor, mark |-> Len(outbox)]
  /\ UNCHANGED <<outbox, offset, retries, dead, done, chain>>

\* The retries of the other cursors: (consumer, cursor) is the primary key
Others(c, k) == {r \in retries[c] : r.cursor # k}

\* process: the handler resolved (or was not wanted); inbox, offset and the
\* handler's own effects commit together with whatever was published meanwhile
Commit ==
  /\ tx # NoTx
  /\ done' = IF tx.event \in Wants[Consumer]
             THEN [done EXCEPT ![Consumer] = Append(@, <<tx.cursor, tx.event>>)]
             ELSE done
  /\ offset' = [offset EXCEPT ![Consumer] = tx.cursor]
  /\ retries' = [retries EXCEPT ![Consumer] = Others(Consumer, tx.cursor)]
  /\ tx' = NoTx
  /\ chain' = RowDone
  /\ UNCHANGED <<outbox, dead>>

\* The attempts on record for a cursor
Attempts(c, k) ==
  LET at == {r \in retries[c] : r.cursor = k}
  IN  IF at = {} THEN 0 ELSE (CHOOSE r \in at : TRUE).attempts

\* attempts >= maxAttempts
GivesUp(n) == n >= MaxAttempts

\* ... with this one; those past the limit are alike
Counted(c, k) == IF Attempts(c, k) >= MaxAttempts THEN MaxAttempts ELSE Attempts(c, k) + 1

\* process: the handler rejected.  ROLLBACK takes back the events published
\* meanwhile; the attempt is counted; the last one dead-letters the event and
\* moves on, an earlier one ends the delivery (deliver stops altogether, publish
\* goes on to its next consumer)
HandlerRejects ==
  LET n == Counted(Consumer, tx.cursor)
  IN  /\ tx # NoTx
      /\ tx.event \in Wants[Consumer]
      /\ outbox' = SubSeq(outbox, 1, tx.mark)
      /\ retries' = [retries EXCEPT ![Consumer] =
           Others(Consumer, tx.cursor) \cup {[cursor |-> tx.cursor, attempts |-> n]}]
      /\ IF GivesUp(n)
         THEN /\ dead' = [dead EXCEPT ![Consumer] = @ \cup {tx.cursor}]
              /\ offset' = [offset EXCEPT ![Consumer] = tx.cursor]
              /\ chain' = RowDone
         ELSE /\ chain' = IF Running.kind = "publish" THEN RowDone ELSE Tail(chain)
              /\ UNCHANGED <<dead, offset>>
      /\ tx' = NoTx
      /\ UNCHANGED done

\* The process dies after the last attempt was counted: the dead letter is a transaction of
\* its own, and the next process calls the handler once more
CrashAfterCount ==
  LET n == Counted(Consumer, tx.cursor)
  IN  /\ tx # NoTx /\ GivesUp(n)
      /\ tx.event \in Wants[Consumer]
      /\ outbox' = SubSeq(outbox, 1, tx.mark)
      /\ retries' = [retries EXCEPT ![Consumer] =
           Others(Consumer, tx.cursor) \cup {[cursor |-> tx.cursor, attempts |-> n]}]
      /\ chain' = <<>> /\ tx' = NoTx
      /\ UNCHANGED <<offset, dead, done>>

\* The process dies: the transaction is rolled back, the chain is gone; a new
\* process subscribes the same consumers
BusCrash ==
  /\ chain # <<>>
  /\ outbox' = IF tx = NoTx THEN outbox ELSE SubSeq(outbox, 1, tx.mark)
  /\ chain' = <<>>
  /\ tx' = NoTx
  /\ UNCHANGED <<offset, retries, dead, done>>

BusNext ==
  \/ \E e \in Events : Publish(e)
  \/ Deliver \/ Batch \/ Skip \/ Begin \/ Commit \/ HandlerRejects
  \/ CrashAfterCount \/ BusCrash

BusSpec == BusInit /\ [][BusNext]_busVars

-----------------------------------------------------------------------------
(* Properties *)

\* A consumer's committed effects are in the order of the outbox, each cursor at
\* most once, and never for a cursor that was dead-lettered; a dead letter had
\* all its attempts.  The offset compared at the start of process(), the single
\* chain and the shared transaction have to work together for this.
OnceInOrder ==
  \A c \in Subs :
    /\ \A i, j \in DOMAIN done[c] : i < j => done[c][i][1] < done[c][j][1]
    /\ \A i \in DOMAIN done[c] : done[c][i][1] \notin dead[c]
    /\ \A k \in dead[c] : Attempts(c, k) >= MaxAttempts
=============================================================================
