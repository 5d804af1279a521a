------------------------------ MODULE Sessions ------------------------------
(***************************************************************************)
(* The session store (src/storage/session-store.ts): sessions that branch  *)
(* off another one at a message, messages appended under a global          *)
(* sequence, runs, tool calls with their results and evidence.  Every      *)
(* write is idempotent: the row as it was is a success, another row under  *)
(* the same id a conflict.  An id stands for the content it was first      *)
(* stored with; `same` is whether a call brings that content or another.   *)
(***************************************************************************)
EXTENDS Integers, Sequences, FiniteSets, SequencesExt, Filters, TLC

CONSTANTS SessionIds, MessageIds, CallIds, MaxDepth

ASSUME SessionsAssumption == IsFiniteSet(SessionIds)

Root == "root"   \* no parent
NoResult == <<>>

VARIABLES
  sessions,    \* id -> [parent, at]
  messages,    \* the table, in the order of its sequence: [id, session]
  storeRuns,   \* session -> status of its run
  exchanges,   \* call id -> [message, result], result NoResult or <<cites>>
  evidence,    \* whether the one evidence id is stored
  saved,       \* open transactions: the tables to go back to, outermost first
  answer       \* of the last call: "ok" or "conflict"
storeVars == <<sessions, messages, storeRuns, exchanges, evidence, saved, answer>>

Tables == <<sessions, messages, storeRuns, exchanges, evidence>>

\* getMessages without ancestors
OfOthers(id) == [id : MessageIds, session : SessionIds \ {id}]
Rows(id) == Without(messages, OfOthers(id))
PositionOf(id, rows) == CHOOSE p \in DOMAIN rows : rows[p].id = id

\* Fault: a branch shows all of its parent's messages
PartAll(id) == Rows(sessions[id].parent)

\* What a branch takes from its parent's own rows: those up to the branch point
Part(id) ==
  LET rows == Rows(sessions[id].parent)
  IN  SubSeq(rows, 1, PositionOf(sessions[id].at, rows))

\* What a session has from its ancestors, n of them at most: what its parent has, then its
\* part of the parent's rows.  A cycle throws; the foreign keys leave none.
Climbed(table, part, up, n) ==
  [id \in DOMAIN table |->
     IF n = 0 \/ table[id].parent = Root THEN <<>> ELSE up[n - 1][table[id].parent] \o part[id]]
FromAncestors(table, part) ==
  LET Up[n \in 0..Cardinality(SessionIds)] == Climbed(table, part, Up, n)
  IN  Up[Cardinality(SessionIds)]
Cuts == [id \in DOMAIN sessions |-> IF sessions[id].parent = Root THEN <<>> ELSE Part(id)]

\* getMessages with includeAncestors
Visible(id) == IF id \in DOMAIN sessions THEN FromAncestors(sessions, Cuts)[id] \o Rows(id) ELSE <<>>

-----------------------------------------------------------------------------
(* Writes *)

Known(id) == {n \in DOMAIN messages : messages[n].id = id}

\* createSession and branchSession; the foreign key asks for the branch point's row
CreateSession(id, parent, at) ==
  /\ (parent = Root) = (at = Root)
  /\ IF id \in DOMAIN sessions
     THEN /\ UNCHANGED sessions
          /\ answer' = IF sessions[id] = [parent |-> parent, at |-> at] THEN "ok" ELSE "conflict"
     ELSE IF parent = Root \/ \E n \in Known(at) : messages[n].session = parent
     THEN /\ sessions' = [x \in DOMAIN sessions \cup {id} |->
                            IF x = id THEN [parent |-> parent, at |-> at] ELSE sessions[x]]
          /\ answer' = "ok"
     ELSE UNCHANGED sessions /\ answer' = "conflict"
  /\ UNCHANGED <<messages, storeRuns, exchanges, evidence, saved>>

\* appendMessage
AppendMessage(id, session, same) ==
  LET row == [id |-> id, session |-> session]
  IN  /\ IF Known(id) # {}
         THEN /\ UNCHANGED messages
              /\ answer' = IF same /\ \E n \in Known(id) : messages[n] = row THEN "ok" ELSE "conflict"
         ELSE IF session \in DOMAIN sessions
         THEN messages' = Append(messages, row) /\ answer' = "ok"
         ELSE UNCHANGED messages /\ answer' = "conflict"
      /\ UNCHANGED <<sessions, storeRuns, exchanges, evidence, saved>>

\* createRun and finishRun, one run per session here
CreateRun(session) ==
  /\ session \in DOMAIN sessions
  /\ storeRuns' = IF session \in DOMAIN storeRuns THEN storeRuns
                  ELSE storeRuns @@ (session :> "running")
  /\ answer' = IF session \in DOMAIN storeRuns /\ storeRuns[session] # "running"
               THEN "conflict" ELSE "ok"
  /\ UNCHANGED <<sessions, messages, exchanges, evidence, saved>>

FinishRun(session, status, same) ==
  /\ session \in DOMAIN storeRuns
  /\ storeRuns' = IF storeRuns[session] = "running"
                  THEN [storeRuns EXCEPT ![session] = status] ELSE storeRuns
  /\ answer' = IF storeRuns[session] = "running" \/ (storeRuns[session] = status /\ same)
               THEN "ok" ELSE "conflict"
  /\ UNCHANGED <<sessions, messages, exchanges, evidence, saved>>

\* recordFinancialEvidence: the table has triggers against update and delete
RecordEvidence(same) ==
  /\ evidence' = TRUE
  /\ answer' = IF evidence => same THEN "ok" ELSE "conflict"
  /\ UNCHANGED <<sessions, messages, storeRuns, exchanges, saved>>

\* recordToolCall
RecordToolCall(id, message) ==
  /\ IF id \in DOMAIN exchanges
     THEN /\ UNCHANGED exchanges
          /\ answer' = IF exchanges[id].message = message THEN "ok" ELSE "conflict"
     ELSE IF Known(message) # {}
     THEN /\ exchanges' = exchanges @@ (id :> [message |-> message, result |-> NoResult])
          /\ answer' = "ok"
     ELSE UNCHANGED exchanges /\ answer' = "conflict"
  /\ UNCHANGED <<sessions, messages, storeRuns, evidence, saved>>

\* recordToolResult: once per call, with evidence that is on file
RecordToolResult(id, same, cites) ==
  LET result == <<cites>>
  IN  /\ IF id \in DOMAIN exchanges /\ exchanges[id].result = NoResult /\ (cites => evidence)
         THEN exchanges' = [exchanges EXCEPT ![id].result = result] /\ answer' = "ok"
         ELSE /\ UNCHANGED exchanges
              /\ answer' = IF id \in DOMAIN exchanges /\ exchanges[id].result = result /\ same
                           THEN "ok" ELSE "conflict"
      /\ UNCHANGED <<sessions, messages, storeRuns, evidence, saved>>

-----------------------------------------------------------------------------
(* transaction: BEGIN at the outside, a savepoint inside *)

Open ==
  /\ Len(saved) < MaxDepth
  /\ saved' = Append(saved, Tables)
  /\ UNCHANGED <<sessions, messages, storeRuns, exchanges, evidence, answer>>

Release ==
  /\ saved # <<>> /\ saved' = Front(saved)
  /\ UNCHANGED <<sessions, messages, storeRuns, exchanges, evidence, answer>>

\* A throw, a conflict's too, goes back to where the innermost transaction began
Rollback ==
  /\ saved # <<>> /\ saved' = Front(saved)
  /\ sessions' = Last(saved)[1] /\ messages' = Last(saved)[2] /\ storeRuns' = Last(saved)[3]
  /\ exchanges' = Last(saved)[4] /\ evidence' = Last(saved)[5]
  /\ UNCHANGED answer

Empty == [x \in {} |-> "none"]
StoreInit ==
  /\ sessions = Empty /\ messages = <<>> /\ storeRuns = Empty /\ exchanges = Empty
  /\ evidence = FALSE /\ saved = <<>> /\ answer = "ok"

TransactionNext == Open \/ Release \/ Rollback

HistoryNext ==
  \/ \E id \in SessionIds, parent \in SessionIds \cup {Root}, at \in MessageIds \cup {Root} :
       CreateSession(id, parent, at)
  \/ \E id \in MessageIds, s \in SessionIds, v \in BOOLEAN : AppendMessage(id, s, v)
  \/ TransactionNext

RecordNext ==
  \/ \E s \in SessionIds : CreateRun(s) \/ \E st \in {"completed", "failed"}, v \in BOOLEAN : FinishRun(s, st, v)
  \/ \E v \in BOOLEAN : RecordEvidence(v)
  \/ \E id \in CallIds : \E m \in MessageIds : RecordToolCall(id, m)
  \/ \E id \in CallIds : \E v \in BOOLEAN, cites \in BOOLEAN : RecordToolResult(id, v, cites)
  \/ TransactionNext

StoreSpec == StoreInit /\ [][HistoryNext \/ RecordNext]_storeVars

-----------------------------------------------------------------------------
(* Properties *)

\* What a session shows only ever grows at its end: messages its ancestors get after
\* the branch, and branches off it, leave it as it was.  The roll-back of a
\* transaction alone may shorten it.
BranchIsStable ==
  [][Len(saved') >= Len(saved) /\ (sessions' # sessions \/ messages' # messages) =>
       \A id \in SessionIds : IsPrefix(Visible(id), Visible(id)')]_storeVars
=============================================================================
