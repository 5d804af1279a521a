------------------------- MODULE LiveTradingProofs -------------------------
(***************************************************************************)
(* Proofs about the live-trading orchestrator for every number of          *)
(* executions, quotes, processes and operations in flight: what is signed  *)
(* was approved, what was sent is on record, what was burned was never     *)
(* sent, and what is settled agrees with the cluster.                      *)
(*                                                                         *)
(* The four follow from one invariant.  A row never leaves the states with *)
(* a signature once it has one (RowAgrees), so a burn, which expects one   *)
(* of the states before, meets no such row (CallAgrees).  An operation     *)
(* past the approval keeps relying on it because nothing undoes a          *)
(* consumption: only a row that does not exist yet gets a new approval.    *)
(***************************************************************************)
EXTENDS LiveTrading, TLAPS

\* Before the signature is stored, and after
Unsent == {"approved", "signing"}
Sent   == {"submitting", "reconciliation-required", "broadcast", "confirmed",
           "finalized", "failed", "dropped"}

\* The signer's rows, one for each authorization of an execution
Daemon == [Keys -> [Auths -> {"absent", "requested", "fenced", "signed", "taken", "expired",
                              "lost"}]]
Approval == [Keys -> {"none", "pending", "approved", "denied", "consumed"}]

\* The parts of the state the properties are about are well-formed
Typed ==
  /\ ex \in [Keys -> Execution]
  /\ approval \in Approval
  /\ call \in [Calls -> Call]
  /\ issued \in [Keys -> 0..MaxAuths]
  /\ daemon \in Daemon
  /\ chain \in [Quotes -> {"none", "sent"} \cup Landed]

\* What an operation relies on after its awaits
CallAgrees(c) ==
  LET k == call[c].key
  IN  /\ call[c].at # "idle" => k \in Keys
      /\ call[c].at \in {"simulate", "risk", "create"} => call[c].quote \in Quotes
      /\ call[c].at \in {"height", "consume", "result", "expire", "burn"} => call[c].saw \in Unsent
      /\ call[c].at \in {"issue", "sign"} => approval[k] = "consumed"
      /\ call[c].at = "sign" => call[c].auth \in Auths
      /\ call[c].at = "result" => call[c].auth # 0
      /\ call[c].at \in {"broadcast", "answer", "record"} => ex[k].signature
      /\ call[c].at \in {"status", "tip", "drop"} => call[c].saw \in Sent /\ ex[k].signature

\* What a row says of its approval, its authorizations and its signature
RowAgrees(k) ==
  /\ ex[k].approvalId \/ approval[k] = "consumed" => ex[k].state # "absent"
  /\ ex[k].state # "absent" => ex[k].quote \in Quotes
  /\ ex[k].signature => ex[k].state \in Sent
  /\ \A n \in Auths : daemon[k][n] # "absent" => approval[k] = "consumed"

Inv ==
  /\ Typed
  /\ \A c \in Calls : CallAgrees(c)
  /\ \A k \in Keys : RowAgrees(k)
  /\ SentIsRecorded
  /\ StatusAgrees

-----------------------------------------------------------------------------

\* Nothing is executed, approved or sent at first.
LEMMA InitInv == Init => Inv
<1> SUFFICES ASSUME Init PROVE Inv
  OBVIOUS
<1>1. Idle \in Call /\ Absent \in Execution /\ 0 \in 0..MaxAuths
  BY LiveTradingAssumption DEF Idle, Call, Absent, Execution, TradeState
<1>2. Typed
  BY <1>1 DEF Init, Typed, Daemon, Approval
<1> QED
  BY <1>2
  DEF Init, Inv, CallAgrees, RowAgrees, SentIsRecorded, StatusAgrees, Idle, Absent

\* Consumed approvals and stored signatures stay, so an operation that does not move
\* goes on being right.
LEMMA CallKeeps ==
  ASSUME Inv, NEW c \in Calls, call'[c] = call[c],
         \A k \in Keys : approval[k] = "consumed" => approval'[k] = "consumed",
         \A k \in Keys : ex[k].signature => ex'[k].signature
  PROVE  CallAgrees(c)'
BY DEF Inv, CallAgrees

\* An operation that returned relies on nothing.
LEMMA IdleAgrees ==
  ASSUME NEW c \in Calls, call'[c] = Idle
  PROVE  CallAgrees(c)'
BY DEF CallAgrees, Idle

\* A step that writes no row, no authorization and nothing on the cluster: only its own
\* operation has to be looked at.
LEMMA OnlyCall ==
  ASSUME Inv, NEW c \in Calls, NEW x \in Call, call' = [call EXCEPT ![c] = x],
         UNCHANGED <<ex, approval, issued, daemon, chain>>, CallAgrees(c)'
  PROVE  Inv'
<1>1. Typed' /\ \A d \in Calls \ {c} : call'[d] = call[d]
  BY DEF Inv, Typed
<1>2. \A d \in Calls : CallAgrees(d)'
  BY <1>1, CallKeeps
<1> QED
  BY <1>1, <1>2 DEF Inv, RowAgrees, SentIsRecorded, StatusAgrees

\* A step on the authorizations and the signer's rows: only what an approval was consumed
\* for reaches the signer.
LEMMA SignerMoves ==
  ASSUME Inv, UNCHANGED <<ex, approval, chain>>,
         daemon' \in Daemon, issued' \in [Keys -> 0..MaxAuths],
         \A k \in Keys, n \in Auths :
           daemon'[k][n] # "absent" => daemon[k][n] # "absent" \/ approval[k] = "consumed",
         call' \in [Calls -> Call],
         \A c \in Calls : call'[c] = call[c] \/ CallAgrees(c)'
  PROVE  Inv'
<1>1. Typed'
  BY DEF Inv, Typed
<1>2. \A c \in Calls : CallAgrees(c)'
  BY CallKeeps
<1> QED
  BY <1>1, <1>2 DEF Inv, RowAgrees, SentIsRecorded, StatusAgrees

\* A step that writes one row: a row that exists stays, keeps its quote and its
\* signature, and says nothing wrong.
LEMMA OneRow ==
  ASSUME Inv, NEW k \in Keys, NEW r \in Execution, ex' = [ex EXCEPT ![k] = r],
         r.state # "absent", r.quote \in Quotes,
         ex[k].state # "absent" => r.quote = ex[k].quote,
         ex[k].signature => r.signature,
         r.signature => r.state \in Sent,
         r.state \in {"finalized", "failed"} =>
           \/ ex[k].state = r.state
           \/ r.state = "failed" /\ chain[r.quote] = "error"
           \/ r.state = "finalized" /\ Final(chain[r.quote]),
         approval' \in Approval,
         \A j \in Keys : approval[j] = "consumed" => approval'[j] = "consumed",
         \A j \in Keys \ {k} : approval'[j] = approval[j],
         daemon' \in Daemon,
         \A j \in Keys, n \in Auths :
           daemon'[j][n] # "absent" => daemon[j][n] # "absent" \/ approval'[j] = "consumed",
         UNCHANGED chain,
         issued' \in [Keys -> 0..MaxAuths],
         call' \in [Calls -> Call],
         \A c \in Calls : call'[c] = call[c] \/ CallAgrees(c)'
  PROVE  Inv'
<1>1. Typed'
  BY DEF Inv, Typed
<1>2. ex'[k] = r /\ \A j \in Keys \ {k} : ex'[j] = ex[j]
  BY DEF Inv, Typed
<1>3. \A j \in Keys : ex[j].signature => ex'[j].signature
  BY <1>2
<1>4. \A c \in Calls : CallAgrees(c)'
  BY <1>3, CallKeeps
<1>5. \A j \in Keys : RowAgrees(j)'
  BY <1>2 DEF Inv, RowAgrees
<1>6. SentIsRecorded'
  BY <1>2 DEF Inv, SentIsRecorded, RowAgrees, Sent
<1>7. StatusAgrees'
  <2> SUFFICES ASSUME NEW j \in Keys
               PROVE  /\ ex'[j].state = "finalized" =>
                           chain[ex'[j].quote] \in IF FinalAt = "confirmed"
                             THEN {"confirmed", "finalized"} ELSE {"finalized"}
                      /\ ex'[j].state = "failed" => chain[ex'[j].quote] = "error"
    BY DEF StatusAgrees
  <2>1. CASE j # k
    BY <1>2, <2>1 DEF Inv, StatusAgrees
  <2>2. CASE j = k
    BY <1>2, <2>2 DEF Inv, StatusAgrees, Final
  <2> QED BY <2>1, <2>2
<1> QED BY <1>1, <1>4, <1>5, <1>6, <1>7 DEF Inv

\* transition: a compare-and-set from a state that is not absent, by an operation that
\* then returns.
LEMMA MoveReturns ==
  ASSUME Inv, NEW c \in Calls, NEW k \in Keys, NEW from \in TradeState, NEW to \in TradeState,
         ex' = Move(k, from, to), Return(c), UNCHANGED <<approval, daemon, chain>>,
         issued' \in [Keys -> 0..MaxAuths],
         from \in Sent => to \in Sent,
         to = "failed" => chain[ex[k].quote] = "error",
         to = "finalized" => Final(chain[ex[k].quote])
  PROVE  Inv'
<1>1. Idle \in Call
  BY LiveTradingAssumption DEF Idle, Call, TradeState
<1>2. call' \in [Calls -> Call] /\ call'[c] = Idle /\ \A d \in Calls : call'[d] = call[d] \/ d = c
  BY <1>1 DEF Return, Inv, Typed
<1>3. CallAgrees(c)'
  BY <1>2, IdleAgrees
<1>4. CASE ex[k].state = from
  <2> DEFINE r == [ex[k] EXCEPT !.state = to]
  <2>1. /\ r \in Execution /\ ex' = [ex EXCEPT ![k] = r]
        /\ r.state = to /\ r.quote = ex[k].quote /\ r.signature = ex[k].signature
    <3>1. ex \in [Keys -> Execution] /\ ex[k] \in Execution
      BY DEF Inv, Typed
    <3>2. /\ r \in Execution /\ r.state = to
          /\ r.quote = ex[k].quote /\ r.signature = ex[k].signature
      BY <3>1 DEF Execution
    <3>3. ex' = [ex EXCEPT ![k] = r]
      BY <1>4 DEF Move
    <3> QED BY <3>2, <3>3
  <2>2. from # "absent" /\ to # "absent"
    BY DEF TradeState
  <2>3. r.quote \in Quotes /\ (r.signature => r.state \in Sent)
    BY <1>4, <2>1, <2>2 DEF Inv, RowAgrees
  <2> HIDE DEF r
  <2> QED BY <1>2, <1>3, <2>1, <2>2, <2>3, OneRow DEF Inv, Typed
<1>5. CASE ex[k].state # from
  <2>1. ex' = ex
    BY <1>5 DEF Move
  <2>2. daemon \in Daemon /\ \A d \in Calls : call'[d] = call[d] \/ CallAgrees(d)'
    BY <1>2, <1>3 DEF Inv, Typed
  <2> QED BY <1>2, <2>1, <2>2, SignerMoves
<1> QED BY <1>4, <1>5

\* Where an operation can be in the code
Places == {"idle", "simulate", "risk", "create", "height", "consume", "issue", "sign",
           "broadcast", "answer", "record", "row", "result", "recovered",
           "expire", "burn", "status", "tip", "drop"}

\* The operation goes on with what it had, asking for a height or not.
LEMMA GoesOn ==
  ASSUME Inv, NEW c \in Calls, NEW place \in Places, Go(c, place) \/ Ask(c, place)
  PROVE  \E x \in Call : /\ call' = [call EXCEPT ![c] = x]
                         /\ x.at = place /\ x.key = call[c].key /\ x.quote = call[c].quote
                         /\ x.saw = call[c].saw /\ x.auth = call[c].auth
<1>1. call \in [Calls -> Call] /\ call[c] \in Call
  BY DEF Inv, Typed
<1>2. ASSUME NEW b \in BOOLEAN
      PROVE  LET x == [call[c] EXCEPT !.at = place, !.alive = b]
             IN  /\ x \in Call /\ x.at = place /\ x.key = call[c].key /\ x.quote = call[c].quote
                 /\ x.saw = call[c].saw /\ x.auth = call[c].auth
  BY <1>1 DEF Call, Places
<1>3. CASE Go(c, place)
  <2> DEFINE x == [call[c] EXCEPT !.at = place]
  <2>1. /\ x \in Call /\ x.at = place /\ x.key = call[c].key /\ x.quote = call[c].quote
        /\ x.saw = call[c].saw /\ x.auth = call[c].auth
    BY <1>1 DEF Call, Places
  <2>2. call' = [call EXCEPT ![c] = x]
    BY <1>3 DEF Go
  <2> QED BY <2>1, <2>2
<1>4. CASE Ask(c, place)
  <2> DEFINE b == QuoteOf(c) \notin dead
             x == [call[c] EXCEPT !.at = place, !.alive = b]
  <2>1. b \in BOOLEAN
    BY Zenon
  <2>2. call' = [call EXCEPT ![c] = x]
    BY <1>4 DEF Ask
  <2> HIDE DEF b
  <2> QED BY <1>2, <2>1, <2>2
<1> QED BY <1>3, <1>4

\* An operation that writes nothing and goes on to a place it may be at.
LEMMA GoingIs ==
  ASSUME Inv, NEW c \in Calls, NEW place \in Places, Go(c, place) \/ Ask(c, place),
         UNCHANGED <<ex, approval, issued, daemon, chain>>,
         \A x \in Call : call' = [call EXCEPT ![c] = x]
           /\ x.at = place /\ x.key = call[c].key /\ x.quote = call[c].quote
           /\ x.saw = call[c].saw /\ x.auth = call[c].auth => CallAgrees(c)'
  PROVE  Inv'
BY GoesOn, OnlyCall

\* An operation that writes nothing and returns.
LEMMA Returning ==
  ASSUME Inv, NEW c \in Calls, Return(c), UNCHANGED <<ex, approval, issued, daemon, chain>>
  PROVE  Inv'
<1>1. Idle \in Call
  BY LiveTradingAssumption DEF Idle, Call, TradeState
<1>2. call'[c] = Idle
  BY DEF Return, Inv, Typed
<1> QED BY <1>1, <1>2, IdleAgrees, OnlyCall DEF Return

\* The operations of a process that died rely on nothing.
LEMMA GoneAgrees ==
  ASSUME Inv, NEW h, Gone(h)
  PROVE  /\ call' \in [Calls -> Call]
         /\ \A c \in Calls : call'[c] = call[c] \/ CallAgrees(c)'
<1>1. Idle \in Call
  BY LiveTradingAssumption DEF Idle, Call, TradeState
<1>2. call' \in [Calls -> Call] /\ \A c \in Calls : call'[c] = call[c] \/ call'[c] = Idle
  BY <1>1 DEF Gone, Inv, Typed
<1> QED BY <1>2, IdleAgrees

-----------------------------------------------------------------------------

\* execute, up to the row and its approval request.
LEMMA ExecuteStep ==
  ASSUME Inv, NEW c \in Calls, ExecuteCall(c)
  PROVE  Inv'
<1>0. Idle \in Call /\ call[c] \in Call
  BY LiveTradingAssumption DEF Idle, Call, TradeState, Inv, Typed
<1>a. Absent \in Execution /\ ~Absent.signature /\ Absent.signature \in BOOLEAN
  BY LiveTradingAssumption DEF Absent, Execution, TradeState
<1>1. ASSUME NEW k \in Keys, NEW q \in Quotes, ExecuteStart(c, k, q) PROVE Inv'
  <2> DEFINE x == [Idle EXCEPT !.at = "simulate", !.key = k, !.quote = q]
  <2>1. x \in Call /\ x.at = "simulate" /\ x.key = k /\ x.quote = q
    BY <1>0 DEF Call
  <2>2. call' = [call EXCEPT ![c] = x] /\ UNCHANGED <<ex, approval, issued, daemon, chain>>
    BY <1>1 DEF ExecuteStart, rows, signer, cluster
  <2>3. CallAgrees(c)'
    BY <2>1, <2>2 DEF CallAgrees, Inv, Typed
  <2> QED BY <2>1, <2>2, <2>3, OnlyCall
<1>2. ASSUME ExecuteDry(c) PROVE Inv'
  <2> DEFINE k == call[c].key
             r == [Absent EXCEPT !.state = "dry-run", !.quote = call[c].quote, !.before = Inserted]
  <2>1. k \in Keys /\ call[c].quote \in Quotes
    BY <1>2 DEF ExecuteDry, At, Inv, CallAgrees
  <2>2. /\ r \in Execution /\ r.state = "dry-run" /\ r.quote = call[c].quote /\ ~r.signature
    BY <1>a, <2>1 DEF Execution, TradeState, Inserted
  <2>3. CASE ex[k].state # "absent"
    BY <1>2, <2>3, Returning DEF ExecuteDry, signer, cluster
  <2>4. CASE ex[k].state = "absent"
    <3>1. ~ex[k].signature
      BY <2>1, <2>4 DEF Inv, RowAgrees, Sent
    <3>2. /\ call' \in [Calls -> Call]
          /\ \A d \in Calls : call'[d] = call[d] \/ CallAgrees(d)'
      <4>1. call' \in [Calls -> Call] /\ \A d \in Calls : call'[d] = call[d] \/ call'[d] = Idle
        BY <1>0, <1>2 DEF ExecuteDry, Return, Inv, Typed
      <4> QED BY <4>1, IdleAgrees
    <3>3. ex' = [ex EXCEPT ![k] = r] /\ UNCHANGED <<approval, issued, daemon, chain>>
      BY <1>2, <2>4 DEF ExecuteDry, signer, cluster
    <3> QED BY <2>1, <2>2, <2>4, <3>1, <3>2, <3>3, OneRow DEF Inv, Typed
  <2> QED BY <2>3, <2>4
<1>3. ASSUME ExecuteSimulated(c) PROVE Inv'
  <2>1. PICK same \in BOOLEAN :
          call' = [call EXCEPT ![c].at = "risk", ![c].same = same,
                               ![c].alive = call[c].quote \notin dead]
    BY <1>3 DEF ExecuteSimulated
  <2> DEFINE b == call[c].quote \notin dead
             x == [call[c] EXCEPT !.at = "risk", !.same = same, !.alive = b]
  <2>2. b \in BOOLEAN
    BY Zenon
  <2>3. call' = [call EXCEPT ![c] = x]
    BY <2>1
  <2>4. call[c].key \in Keys /\ call[c].quote \in Quotes
    BY <1>3 DEF ExecuteSimulated, At, Inv, CallAgrees
  <2> HIDE DEF b
  <2>5. x \in Call /\ x.at = "risk" /\ x.key = call[c].key /\ x.quote = call[c].quote
    BY <1>0, <2>2 DEF Call
  <2>6. UNCHANGED <<ex, approval, issued, daemon, chain>>
    BY <1>3 DEF ExecuteSimulated, rows, signer, cluster
  <2>7. CallAgrees(c)'
    BY <2>3, <2>4, <2>5 DEF CallAgrees, Inv, Typed
  <2> QED BY <2>3, <2>5, <2>6, <2>7, OnlyCall
<1>4. ASSUME ExecuteReserve(c) PROVE Inv'
  <2>1. call[c].key \in Keys /\ call[c].quote \in Quotes /\ "create" \in Places
    BY <1>4 DEF ExecuteReserve, At, Inv, CallAgrees, Places
  <2>2. Go(c, "create") /\ UNCHANGED <<ex, approval, issued, daemon, chain>>
    BY <1>4 DEF ExecuteReserve, signer, cluster
  <2> QED BY <2>1, <2>2, GoingIs DEF CallAgrees, Inv, Typed
<1>5. ASSUME ExecuteCreate(c) \/ ExecuteDies(c) PROVE Inv'
  <2> DEFINE k == call[c].key
  <2>1. k \in Keys /\ call[c].quote \in Quotes
    BY <1>5 DEF ExecuteCreate, ExecuteDies, At, Inv, CallAgrees
  <2>2. CASE ex[k].state # "absent"
    BY <1>5, <2>2, Returning DEF ExecuteCreate, ExecuteDies, signer, cluster
  <2>3. CASE ex[k].state = "absent"
    <3>1. ~ex[k].signature /\ approval[k] # "consumed"
      BY <2>1, <2>3 DEF Inv, RowAgrees, Sent
    <3>2. Created(c) \in Execution /\ Created(c).state = "awaiting-approval"
          /\ Created(c).quote = call[c].quote /\ ~Created(c).signature
      <4>1. call[c].same \in BOOLEAN
        BY <1>0 DEF Call
      <4>2. Inserted \in SUBSET Keys
        BY DEF Inserted
      <4> QED BY <1>a, <2>1, <4>1, <4>2 DEF Created, Execution, TradeState
    <3>3. LET r == [Created(c) EXCEPT !.approvalId = TRUE]
          IN  /\ r \in Execution /\ r.state = "awaiting-approval" /\ r.quote = call[c].quote
              /\ ~r.signature
      BY <3>2 DEF Execution
    <3>4. PICK r \in Execution : /\ ex' = [ex EXCEPT ![k] = r] /\ r.state = "awaiting-approval"
                                 /\ r.quote = call[c].quote /\ ~r.signature
      BY <1>5, <2>3, <3>2, <3>3 DEF ExecuteCreate, ExecuteDies
    <3>5. PICK a \in {"none", "pending"} : approval' = [approval EXCEPT ![k] = a]
      BY <1>5, <2>3 DEF ExecuteCreate, ExecuteDies
    <3>6. /\ approval' \in Approval
          /\ \A j \in Keys : approval[j] = "consumed" => approval'[j] = "consumed"
          /\ \A j \in Keys \ {k} : approval'[j] = approval[j]
      BY <3>1, <3>5 DEF Inv, Typed, Approval
    <3>7. /\ call' \in [Calls -> Call]
          /\ \A d \in Calls : call'[d] = call[d] \/ CallAgrees(d)'
      <4>1. CASE ExecuteDies(c)
        BY <4>1, GoneAgrees DEF ExecuteDies
      <4>2. CASE ExecuteCreate(c)
        <5>1. call' \in [Calls -> Call] /\ \A d \in Calls : call'[d] = call[d] \/ call'[d] = Idle
          BY <1>0, <4>2 DEF ExecuteCreate, Return, Inv, Typed
        <5> QED BY <5>1, IdleAgrees
      <4> QED BY <1>5, <4>1, <4>2
    <3>8. UNCHANGED <<issued, daemon, chain>>
      BY <1>5 DEF ExecuteCreate, ExecuteDies, signer, cluster
    <3> QED BY <2>1, <2>3, <3>1, <3>4, <3>6, <3>7, <3>8, OneRow DEF Inv, Typed
  <2> QED BY <2>2, <2>3
<1> QED BY <1>1, <1>2, <1>3, <1>4, <1>5 DEF ExecuteCall

\* A step on the cluster: what landed stays landed, and what is sent is on record.
LEMMA ClusterMoves ==
  ASSUME Inv, UNCHANGED <<ex, approval, issued, daemon>>,
         chain' \in [Quotes -> {"none", "sent"} \cup Landed],
         \A q \in Quotes :
           /\ chain[q] \in {"error", "finalized"} => chain'[q] = chain[q]
           /\ chain[q] = "confirmed" => chain'[q] \in {"confirmed", "finalized"}
           /\ chain'[q] # "none" =>
                chain[q] # "none" \/ \E k \in Keys : ex[k].quote = q /\ ex[k].signature,
         call' \in [Calls -> Call],
         \A c \in Calls : call'[c] = call[c] \/ CallAgrees(c)'
  PROVE  Inv'
<1>1. Typed'
  BY DEF Inv, Typed
<1>2. \A c \in Calls : CallAgrees(c)'
  BY CallKeeps
<1>3. \A k \in Keys : RowAgrees(k)'
  BY DEF Inv, RowAgrees
<1>4. SentIsRecorded'
  BY DEF Inv, SentIsRecorded
<1>5. StatusAgrees'
  BY DEF Inv, StatusAgrees, RowAgrees
<1> QED BY <1>1, <1>2, <1>3, <1>4, <1>5 DEF Inv

\* The signature is stored: the row of an execution in signing.
LEMMA StoredStep ==
  ASSUME Inv, NEW c \in Calls, NEW k \in Keys, k = call[c].key, ex[k].state = "signing",
         ex' = Stored(k), Go(c, "broadcast"),
         UNCHANGED <<approval, issued, daemon, chain>>
  PROVE  Inv'
<1>1. ex \in [Keys -> Execution] /\ ex[k] \in Execution /\ ex[k].quote \in Quotes
  BY DEF Inv, Typed, RowAgrees
<1>2. PICK r \in Execution : /\ ex' = [ex EXCEPT ![k] = r] /\ r.state = "submitting"
                             /\ r.quote = ex[k].quote /\ r.signature
  <2> DEFINE r == [ex[k] EXCEPT !.state = "submitting", !.signature = TRUE]
  <2>1. /\ r \in Execution /\ r.state = "submitting" /\ r.quote = ex[k].quote /\ r.signature
    BY <1>1 DEF Execution, TradeState
  <2>2. ex' = [ex EXCEPT ![k] = r]
    BY DEF Stored
  <2> QED BY <2>1, <2>2
<1>3. ex'[k].signature
  BY <1>1, <1>2
<1>4. PICK x \in Call : call' = [call EXCEPT ![c] = x] /\ x.at = "broadcast" /\ x.key = k
  BY GoesOn DEF Places
<1>5. call' \in [Calls -> Call] /\ call'[c] = x /\ \A d \in Calls \ {c} : call'[d] = call[d]
  BY <1>4 DEF Inv, Typed
<1>6. CallAgrees(c)'
  BY <1>3, <1>4, <1>5 DEF CallAgrees
<1>7. /\ approval \in Approval /\ daemon \in Daemon /\ issued \in [Keys -> 0..MaxAuths]
  BY DEF Inv, Typed
<1>8. \A d \in Calls : call'[d] = call[d] \/ CallAgrees(d)'
  BY <1>5, <1>6
<1>9. /\ r.state # "absent" /\ r.quote \in Quotes /\ r.state \in Sent
      /\ ~(r.state \in {"finalized", "failed"})
  BY <1>1, <1>2 DEF Sent
<1> QED BY <1>1, <1>2, <1>5, <1>7, <1>8, <1>9, OneRow

\* The transition of submit's catch.
LEMMA CaughtReturns ==
  ASSUME Inv, NEW c \in Calls, NEW k \in Keys, ex' = Caught(k), Return(c),
         UNCHANGED <<approval, daemon, chain>>, issued' \in [Keys -> 0..MaxAuths]
  PROVE  Inv'
BY MoveReturns DEF Caught, TradeState, Sent

\* submit: the approval is consumed and the row enters signing.
LEMMA ConsumeStep ==
  ASSUME Inv, NEW c \in Calls, SubmitConsume(c) \/ SubmitDies(c)
  PROVE  Inv'
<1> DEFINE k == call[c].key
<1>0. k \in Keys /\ Idle \in Call
  BY LiveTradingAssumption
  DEF SubmitConsume, SubmitDies, At, Inv, CallAgrees, Idle, Call, TradeState
<1>1. CASE ~Approvable(k)
  BY <1>1, Returning DEF SubmitConsume, SubmitDies, signer, cluster
<1>2. CASE Approvable(k)
  <2>1. ex[k].state # "absent" /\ ex[k].quote \in Quotes /\ ex[k] \in Execution
        /\ ex \in [Keys -> Execution]
    BY <1>0, <1>2 DEF Approvable, Inv, RowAgrees, Typed
  <2>2. /\ approval' = [approval EXCEPT ![k] = "consumed"]
        /\ UNCHANGED <<issued, daemon, chain>>
    BY <1>2 DEF SubmitConsume, SubmitDies, signer, cluster
  <2>3. /\ approval' \in Approval /\ approval'[k] = "consumed"
        /\ \A j \in Keys \ {k} : approval'[j] = approval[j]
    BY <1>0, <2>2 DEF Inv, Typed, Approval
  <2>4. PICK r \in Execution : /\ ex' = [ex EXCEPT ![k] = r]
                               /\ r.quote = ex[k].quote /\ r.signature = ex[k].signature
                               /\ \/ r.state = ex[k].state
                                  \/ r.state = "signing" /\ ex[k].state = "approved"
                                  \/ r.state = "reconciliation-required" /\ ex[k].state = "submitting"
    <3>1. CASE ex' = ex
      <4>1. ex' = [ex EXCEPT ![k] = ex[k]]
        BY <2>1, <3>1
      <4> QED BY <2>1, <4>1
    <3>2. CASE ex' = [ex EXCEPT ![k].state = "signing"] /\ ex[k].state = "approved"
      <4> DEFINE r == [ex[k] EXCEPT !.state = "signing"]
      <4>1. /\ r \in Execution /\ r.state = "signing"
            /\ r.quote = ex[k].quote /\ r.signature = ex[k].signature
        BY <2>1 DEF Execution, TradeState
      <4>2. ex' = [ex EXCEPT ![k] = r]
        BY <3>2
      <4> QED BY <3>2, <4>1, <4>2
    <3>3. CASE /\ ex' = [ex EXCEPT ![k].state = "reconciliation-required"]
               /\ ex[k].state = "submitting"
      <4> DEFINE r == [ex[k] EXCEPT !.state = "reconciliation-required"]
      <4>1. /\ r \in Execution /\ r.state = "reconciliation-required"
            /\ r.quote = ex[k].quote /\ r.signature = ex[k].signature
        BY <2>1 DEF Execution, TradeState
      <4>2. ex' = [ex EXCEPT ![k] = r]
        BY <3>3
      <4> QED BY <3>3, <4>1, <4>2
    <3> QED BY <1>2, <3>1, <3>2, <3>3 DEF SubmitConsume, SubmitDies, Move, Caught
  <2>5. r.signature => r.state \in Sent
    BY <1>0, <2>4 DEF Inv, RowAgrees, Sent
  <2>6. /\ call' \in [Calls -> Call]
        /\ \A d \in Calls : call'[d] = call[d] \/ CallAgrees(d)'
    <3>1. CASE Return(c)
      <4>1. call' \in [Calls -> Call] /\ \A d \in Calls : call'[d] = call[d] \/ call'[d] = Idle
        BY <1>0, <3>1 DEF Return, Inv, Typed
      <4> QED BY <4>1, IdleAgrees
    <3>2. CASE Ask(c, "issue")
      <4>1. PICK x \in Call : call' = [call EXCEPT ![c] = x] /\ x.at = "issue" /\ x.key = k
        BY <3>2, GoesOn DEF Places
      <4>2. call' \in [Calls -> Call] /\ call'[c] = x /\ \A d \in Calls \ {c} : call'[d] = call[d]
        BY <4>1 DEF Inv, Typed
      <4>3. CallAgrees(c)'
        BY <1>0, <2>3, <4>1, <4>2 DEF CallAgrees
      <4> QED BY <4>2, <4>3
    <3>3. CASE SubmitDies(c)
      BY <3>3, GoneAgrees DEF SubmitDies
    <3> QED BY <1>2, <3>1, <3>2, <3>3 DEF SubmitConsume
  <2>7. daemon \in Daemon /\ issued \in [Keys -> 0..MaxAuths]
    BY DEF Inv, Typed
  <2>8. r.state # "absent" /\ r.quote \in Quotes /\ ~(r.state \in {"finalized", "failed"} /\ ex[k].state # r.state)
    BY <2>1, <2>4
  <2> QED BY <1>0, <2>2, <2>3, <2>4, <2>5, <2>6, <2>7, <2>8, OneRow
<1> QED BY <1>1, <1>2

\* submit: an authorization is issued, stored in the row and sent to the signer.
LEMMA IssueStep ==
  ASSUME Inv, NEW c \in Calls, Issue(c)
  PROVE  Inv'
<1> DEFINE k == call[c].key
           n == issued[k] + 1
<1>1. k \in Keys /\ approval[k] = "consumed" /\ call[c] \in Call
  BY DEF Issue, At, Inv, CallAgrees, Typed
<1>2. n \in Auths /\ n \in 0..MaxAuths
  BY <1>1, LiveTradingAssumption DEF Issue, Inv, Typed, Auths
<1>3. issued' \in [Keys -> 0..MaxAuths] /\ UNCHANGED <<approval, chain>>
  BY <1>1, <1>2 DEF Issue, Inv, Typed, cluster
<1>4. CASE ex[k].state # "signing"
  BY <1>1, <1>3, <1>4, CaughtReturns DEF Issue
<1>5. CASE ex[k].state = "signing"
  <2>1. ex \in [Keys -> Execution] /\ ex[k] \in Execution /\ ex[k].quote \in Quotes
    BY <1>1, <1>5 DEF Inv, Typed, RowAgrees
  <2>2. PICK r \in Execution : /\ ex' = [ex EXCEPT ![k] = r] /\ r.state = "signing"
                               /\ r.quote = ex[k].quote /\ r.signature = ex[k].signature
    <3> DEFINE r == [ex[k] EXCEPT !.auth = n]
    <3>1. /\ r \in Execution /\ r.state = "signing"
          /\ r.quote = ex[k].quote /\ r.signature = ex[k].signature
      BY <1>2, <1>5, <2>1 DEF Execution
    <3>2. ex' = [ex EXCEPT ![k] = r]
      BY <1>5 DEF Issue
    <3> QED BY <3>1, <3>2
  <2>3. /\ daemon' \in Daemon
        /\ \A j \in Keys, m \in Auths :
             daemon'[j][m] # "absent" => daemon[j][m] # "absent" \/ approval'[j] = "consumed"
    <3>1. daemon' = [daemon EXCEPT ![k][n] = "requested"] /\ daemon \in Daemon
      BY <1>5 DEF Issue, Inv, Typed
    <3> QED BY <1>1, <1>2, <1>3, <3>1 DEF Daemon
  <2>4. PICK x \in Call : /\ call' = [call EXCEPT ![c] = x] /\ x.at = "sign" /\ x.key = k
                          /\ x.auth = n
    <3> DEFINE x == [call[c] EXCEPT !.at = "sign", !.auth = n]
    <3>1. x \in Call /\ x.at = "sign" /\ x.key = k /\ x.auth = n
      BY <1>1, <1>2 DEF Call
    <3>2. call' = [call EXCEPT ![c] = x]
      BY <1>5 DEF Issue
    <3> QED BY <3>1, <3>2
  <2>5. call' \in [Calls -> Call] /\ call'[c] = x /\ \A d \in Calls \ {c} : call'[d] = call[d]
    BY <2>4 DEF Inv, Typed
  <2>6. CallAgrees(c)'
    BY <1>1, <1>2, <1>3, <2>4, <2>5 DEF CallAgrees
  <2>7. \A d \in Calls : call'[d] = call[d] \/ CallAgrees(d)'
    BY <2>5, <2>6
  <2>8. approval \in Approval /\ (r.signature => r.state \in Sent)
    BY <1>1, <1>5, <2>2 DEF Inv, Typed, RowAgrees
  <2>9. r.state # "absent" /\ r.quote \in Quotes /\ ~(r.state \in {"finalized", "failed"})
    BY <2>1, <2>2
  <2> QED BY <1>1, <1>3, <2>2, <2>3, <2>5, <2>7, <2>8, <2>9, OneRow
<1> QED BY <1>4, <1>5

\* submit starts over a row that is approved or signing.
LEMMA SubmittingAgrees ==
  ASSUME Inv, NEW c \in Calls, NEW k \in Keys, Submittable(k),
         call' = [call EXCEPT ![c] = Submitting(k)],
         UNCHANGED <<ex, approval, issued, daemon, chain>>
  PROVE  Inv'
<1> DEFINE b == ex[k].quote \notin dead
<1>1. b \in BOOLEAN
  BY Zenon
<1>2. Idle \in Call /\ ex[k].state \in Unsent
  BY LiveTradingAssumption DEF Idle, Call, TradeState, Submittable, Unsent
<1>3. PICK x \in Call : /\ call' = [call EXCEPT ![c] = x] /\ x.at = "height" /\ x.key = k
                        /\ x.saw \in Unsent
  <2> DEFINE x == [Idle EXCEPT !.at = "height", !.key = k, !.saw = ex[k].state, !.alive = b]
  <2>1. call' = [call EXCEPT ![c] = x]
    BY DEF Submitting
  <2> HIDE DEF b
  <2>2. x \in Call /\ x.at = "height" /\ x.key = k /\ x.saw \in Unsent
    BY <1>1, <1>2 DEF Call, TradeState, Unsent
  <2> QED BY <2>1, <2>2
<1>4. CallAgrees(c)'
  BY <1>3 DEF CallAgrees, Inv, Typed
<1> QED BY <1>3, <1>4, OnlyCall

\* submit, from the height to the record of the broadcast, and the burn of an execution
\* past its last valid height.
LEMMA SubmitStep ==
  ASSUME Inv, NEW c \in Calls, SubmitCall(c)
  PROVE  Inv'
<1> DEFINE k == call[c].key
<1>0. /\ call \in [Calls -> Call] /\ call[c] \in Call
      /\ issued \in [Keys -> 0..MaxAuths]
      /\ {"consume", "expire", "answer", "record", "burn"} \subseteq Places
  BY DEF Inv, Typed, Places
<1>1. ASSUME NEW j \in Keys, Submit(c, j) PROVE Inv'
  BY <1>1, SubmittingAgrees DEF Submit, rows, signer, cluster
<1>2. ASSUME SubmitHeight(c) PROVE Inv'
  <2>1. k \in Keys /\ call[c].saw \in Unsent
    BY <1>2 DEF SubmitHeight, At, Inv, CallAgrees
  <2>2. UNCHANGED <<ex, approval, issued, daemon, chain>>
    BY <1>2 DEF SubmitHeight, rows, signer, cluster
  <2>3. CASE Return(c)
    BY <2>2, <2>3, Returning
  <2>4. CASE Go(c, "expire")
    BY <1>0, <2>1, <2>2, <2>4, GoingIs DEF CallAgrees
  <2>5. CASE Go(c, "consume")
    BY <1>0, <2>1, <2>2, <2>5, GoingIs DEF CallAgrees
  <2> QED BY <1>2, <2>3, <2>4, <2>5 DEF SubmitHeight
<1>3. ASSUME SubmitFails(c) PROVE Inv'
  <2>1. k \in Keys
    BY <1>3 DEF SubmitFails, Inv, CallAgrees
  <2> QED BY <1>0, <1>3, <2>1, CaughtReturns DEF SubmitFails, signer, cluster
<1>4. ASSUME SignAnswer(c) PROVE Inv'
  <2>1. k \in Keys /\ UNCHANGED <<approval, issued, daemon, chain>>
    BY <1>4 DEF SignAnswer, At, Inv, CallAgrees, signer, cluster
  <2>2. CASE ex[k].state = "signing"
    BY <1>4, <2>1, <2>2, StoredStep DEF SignAnswer
  <2>3. CASE ex[k].state # "signing"
    BY <1>0, <1>4, <2>1, <2>3, CaughtReturns DEF SignAnswer
  <2> QED BY <2>2, <2>3
<1>5. ASSUME Broadcast(c) PROVE Inv'
  <2>1. k \in Keys /\ ex[k].signature /\ ex[k].quote \in Quotes
    BY <1>5 DEF Broadcast, At, Inv, CallAgrees, RowAgrees, Sent
  <2>2. PICK x \in Call : call' = [call EXCEPT ![c] = x] /\ x.at = "answer" /\ x.key = k
    BY <1>0, <1>5, GoesOn DEF Broadcast
  <2>3. call' \in [Calls -> Call] /\ call'[c] = x /\ \A d \in Calls \ {c} : call'[d] = call[d]
    BY <1>0, <2>2
  <2>4. UNCHANGED <<ex, approval, issued, daemon>>
    BY <1>5 DEF Broadcast, rows, signer
  <2>5. CallAgrees(c)'
    BY <2>1, <2>2, <2>3, <2>4 DEF CallAgrees
  <2>6. /\ chain' \in [Quotes -> {"none", "sent"} \cup Landed]
        /\ \A q \in Quotes : \/ chain'[q] = chain[q]
                             \/ q = ex[k].quote /\ chain[q] = "none"
    BY <1>5, <2>1 DEF Broadcast, QuoteOf, Inv, Typed
  <2>7. \A q \in Quotes :
           /\ chain[q] \in {"error", "finalized"} => chain'[q] = chain[q]
           /\ chain[q] = "confirmed" => chain'[q] \in {"confirmed", "finalized"}
           /\ chain'[q] # "none" =>
                chain[q] # "none" \/ \E j \in Keys : ex[j].quote = q /\ ex[j].signature
    BY <2>1, <2>6
  <2>8. \A d \in Calls : call'[d] = call[d] \/ CallAgrees(d)'
    BY <2>3, <2>5
  <2> QED BY <2>3, <2>4, <2>6, <2>7, <2>8, ClusterMoves
<1>6. ASSUME BroadcastAnswer(c) PROVE Inv'
  <2>1. k \in Keys /\ ex[k].signature
    BY <1>6 DEF BroadcastAnswer, At, Inv, CallAgrees
  <2>2. Go(c, "record") /\ UNCHANGED <<ex, approval, issued, daemon, chain>>
    BY <1>6 DEF BroadcastAnswer, signer, cluster
  <2> QED BY <1>0, <2>1, <2>2, GoingIs DEF CallAgrees
<1>7. ASSUME BroadcastFails(c) PROVE Inv'
  <2>1. k \in Keys /\ Return(c) /\ UNCHANGED <<approval, issued, daemon, chain>>
    BY <1>7 DEF BroadcastFails, At, Inv, CallAgrees, signer, cluster
  <2>2. CASE UNCHANGED ex
    BY <2>1, <2>2, Returning
  <2>3. CASE ex' = Caught(k)
    BY <1>0, <2>1, <2>3, CaughtReturns
  <2> QED BY <1>7, <2>2, <2>3 DEF BroadcastFails
<1>8. ASSUME BroadcastRecord(c) PROVE Inv'
  <2>1. k \in Keys /\ Return(c) /\ UNCHANGED <<approval, issued, daemon, chain>>
    BY <1>8 DEF BroadcastRecord, At, Inv, CallAgrees, signer, cluster
  <2>2. {"submitting", "broadcast"} \subseteq TradeState /\ "broadcast" \in Sent
    BY DEF TradeState, Sent
  <2> QED BY <1>0, <1>8, <2>1, <2>2, MoveReturns DEF BroadcastRecord
<1>9. ASSUME Expire(c) PROVE Inv'
  <2>1. k \in Keys /\ call[c].saw \in Unsent
    BY <1>9 DEF Expire, At, Inv, CallAgrees
  <2>2. Go(c, "burn") /\ UNCHANGED <<ex, approval, issued, daemon, chain>>
    BY <1>9 DEF Expire, signer, cluster
  <2> QED BY <1>0, <2>1, <2>2, GoingIs DEF CallAgrees
<1>10. ASSUME ExpireBurn(c) PROVE Inv'
  <2>1. k \in Keys /\ call[c].saw \in Unsent /\ Return(c)
        /\ UNCHANGED <<approval, issued, daemon, chain>>
    BY <1>10 DEF ExpireBurn, At, Inv, CallAgrees, signer, cluster
  <2>2. call[c].saw \in TradeState /\ call[c].saw \notin Sent /\ "expired" \in TradeState
    BY <2>1 DEF TradeState, Sent, Unsent
  <2> QED BY <1>0, <1>10, <2>1, <2>2, MoveReturns DEF ExpireBurn
<1> QED
  BY <1>1, <1>2, <1>3, <1>4, <1>5, <1>6, <1>7, <1>8, <1>9, <1>10, ConsumeStep, IssueStep
  DEF SubmitCall

\* reconcile reads the row again: a row with a signature is past the signature.
LEMMA ReconcilingAgrees ==
  ASSUME Inv, NEW c \in Calls, NEW k \in Keys,
         call' = [call EXCEPT ![c] = Reconciling(k)],
         UNCHANGED <<ex, approval, issued, daemon, chain>>
  PROVE  Inv'
<1>1. Idle \in Call /\ ex[k] \in Execution
  BY LiveTradingAssumption DEF Idle, Call, TradeState, Inv, Typed
<1>2. CASE ~ex[k].signature
  BY <1>2, Returning DEF Reconciling, Return
<1>3. CASE ex[k].signature
  <2> DEFINE x == [Idle EXCEPT !.at = "status", !.key = k, !.saw = ex[k].state]
  <2>1. call' = [call EXCEPT ![c] = x] /\ ex[k].state \in Sent
    BY <1>3 DEF Reconciling, Inv, RowAgrees
  <2>2. x \in Call /\ x.at = "status" /\ x.key = k /\ x.saw = ex[k].state
    BY <1>1, <2>1 DEF Call, TradeState, Execution
  <2> HIDE DEF x
  <2>3. CallAgrees(c)'
    BY <1>3, <2>1, <2>2 DEF CallAgrees, Inv, Typed
  <2> QED BY <2>1, <2>2, <2>3, OnlyCall
<1> QED BY <1>2, <1>3

\* recoverAndReconcile and reconcile, against rows that moved since they were listed.
LEMMA RecoverStep ==
  ASSUME Inv, NEW c \in Calls, RecoverCall(c)
  PROVE  Inv'
<1> DEFINE k == call[c].key
<1>0. /\ call \in [Calls -> Call] /\ call[c] \in Call /\ Idle \in Call
      /\ issued \in [Keys -> 0..MaxAuths]
      /\ {"result", "recovered", "expire", "tip", "drop"} \subseteq Places
      /\ Sent \subseteq TradeState
  BY LiveTradingAssumption DEF Inv, Typed, Places, Idle, Call, TradeState, Sent
<1>1. ASSUME NEW j \in Keys, RecoverList(c, j) PROVE Inv'
  <2> DEFINE x == [Idle EXCEPT !.at = "row", !.key = j, !.saw = ex[j].state,
                               !.auth = ex[j].auth, !.recovering = TRUE]
  <2>1. ex[j] \in Execution
    BY DEF Inv, Typed
  <2>2. x \in Call /\ x.at = "row" /\ x.key = j
    BY <1>0, <2>1 DEF Call, Execution
  <2>3. call' = [call EXCEPT ![c] = x] /\ UNCHANGED <<ex, approval, issued, daemon, chain>>
    BY <1>1 DEF RecoverList, rows, signer, cluster
  <2> HIDE DEF x
  <2>4. CallAgrees(c)'
    BY <1>0, <2>2, <2>3 DEF CallAgrees
  <2> QED BY <2>2, <2>3, <2>4, OnlyCall
<1>2. ASSUME NEW j \in Keys, Reconcile(c, j) PROVE Inv'
  BY <1>2, ReconcilingAgrees DEF Reconcile, rows, signer, cluster
<1>3. ASSUME RecoverRow(c) PROVE Inv'
  <2>1. k \in Keys /\ UNCHANGED <<approval, issued, daemon, chain>>
    BY <1>3 DEF RecoverRow, At, Inv, CallAgrees, signer, cluster
  <2>2. CASE call[c].saw = "signing" /\ call[c].auth = 0
    <3>1. UNCHANGED ex
          /\ call' = [call EXCEPT ![c] = IF Submittable(k) THEN Submitting(k) ELSE Idle]
      BY <1>3, <2>2 DEF RecoverRow
    <3>2. CASE Submittable(k)
      BY <2>1, <3>1, <3>2, SubmittingAgrees
    <3>3. CASE ~Submittable(k)
      BY <2>1, <3>1, <3>3, Returning DEF Return
    <3> QED BY <3>2, <3>3
  <2>3. CASE call[c].saw = "signing" /\ call[c].auth > 0
    <3>1. Go(c, "result") /\ UNCHANGED ex
      BY <1>3, <2>3 DEF RecoverRow
    <3>2. call[c].saw \in Unsent /\ call[c].auth # 0
      BY <2>3 DEF Unsent
    <3> QED BY <1>0, <2>1, <3>1, <3>2, GoingIs DEF CallAgrees
  <2>4. CASE call[c].saw = "submitting"
    BY <1>0, <1>3, <2>1, <2>4, CaughtReturns DEF RecoverRow
  <2>5. CASE call[c].saw \notin {"signing", "submitting"}
    BY <1>3, <2>1, <2>5, ReconcilingAgrees DEF RecoverRow
  <2>6. call[c].auth = 0 \/ call[c].auth > 0
    BY <1>0, LiveTradingAssumption DEF Call
  <2> QED BY <2>2, <2>3, <2>4, <2>5, <2>6
<1>4. ASSUME RecoverResult(c) PROVE Inv'
  <2>1. k \in Keys /\ call[c].saw \in Unsent /\ call[c].auth \in Auths
    BY <1>0, <1>4, LiveTradingAssumption DEF RecoverResult, At, Inv, CallAgrees, Call, Auths
  <2>2. UNCHANGED <<ex, approval, issued, chain>>
    BY <1>4 DEF RecoverResult, rows, cluster
  <2>3. CASE UNCHANGED daemon /\ Return(c)
    BY <2>2, <2>3, Returning
  <2>4. CASE UNCHANGED daemon /\ Go(c, "expire")
    BY <1>0, <2>1, <2>2, <2>4, GoingIs DEF CallAgrees
  <2>5. CASE /\ daemon[k][call[c].auth] = "signed"
             /\ daemon' = [daemon EXCEPT ![k][call[c].auth] = "taken"]
             /\ Go(c, "recovered") \/ Return(c)
    <3>1. /\ daemon' \in Daemon
          /\ \A j \in Keys, n \in Auths :
               daemon'[j][n] # "absent" => daemon[j][n] # "absent" \/ approval[j] = "consumed"
      <4>1. daemon \in Daemon
        BY DEF Inv, Typed
      <4> QED BY <2>1, <2>5, <4>1 DEF Daemon
    <3>2. /\ call' \in [Calls -> Call]
          /\ \A d \in Calls : call'[d] = call[d] \/ CallAgrees(d)'
      <4>1. CASE Return(c)
        <5>1. call' \in [Calls -> Call] /\ \A d \in Calls : call'[d] = call[d] \/ call'[d] = Idle
          BY <1>0, <4>1 DEF Return
        <5> QED BY <5>1, IdleAgrees
      <4>2. CASE Go(c, "recovered")
        <5>1. PICK x \in Call : call' = [call EXCEPT ![c] = x] /\ x.at = "recovered" /\ x.key = k
          BY <1>0, <4>2, GoesOn
        <5>2. CallAgrees(c)'
          BY <1>0, <2>1, <5>1 DEF CallAgrees
        <5> QED BY <1>0, <5>1, <5>2
      <4> QED BY <2>5, <4>1, <4>2
    <3> QED BY <1>0, <2>2, <3>1, <3>2, SignerMoves
  <2> QED BY <1>4, <2>3, <2>4, <2>5 DEF RecoverResult
<1>5. ASSUME Recovered(c) PROVE Inv'
  <2>1. k \in Keys /\ UNCHANGED <<approval, issued, daemon, chain>>
    BY <1>5 DEF Recovered, At, Inv, CallAgrees, signer, cluster
  <2>2. CASE ex[k].state = "signing"
    BY <1>5, <2>1, <2>2, StoredStep DEF Recovered
  <2>3. CASE ex[k].state # "signing"
    BY <1>5, <2>1, <2>3, Returning DEF Recovered
  <2> QED BY <2>2, <2>3
<1>6. ASSUME ReconcileStatus(c) PROVE Inv'
  <2>1. /\ k \in Keys /\ call[c].saw \in Sent /\ ex[k].signature
        /\ UNCHANGED <<approval, issued, daemon, chain>>
    BY <1>6 DEF ReconcileStatus, At, Inv, CallAgrees, signer, cluster
  <2>2. CASE Ask(c, "tip") /\ UNCHANGED ex
    BY <1>0, <2>1, <2>2, GoingIs DEF CallAgrees
  <2>3. CASE ex' = Move(k, call[c].saw, SettledAs(chain[ex[k].quote])) /\ Return(c)
    <3> DEFINE to == SettledAs(chain[ex[k].quote])
    <3>1. /\ to \in Sent /\ to \in TradeState
          /\ to = "failed" => chain[ex[k].quote] = "error"
          /\ to = "finalized" => Final(chain[ex[k].quote])
      BY DEF SettledAs, Sent, TradeState
    <3> HIDE DEF to
    <3> QED BY <1>0, <2>1, <2>3, <3>1, MoveReturns DEF to
  <2> QED BY <1>6, <2>2, <2>3 DEF ReconcileStatus, QuoteOf
<1>7. ASSUME ReconcileDead(c) PROVE Inv'
  <2>1. k \in Keys /\ call[c].saw \in Sent /\ ex[k].signature
    BY <1>7 DEF ReconcileDead, At, Inv, CallAgrees
  <2>2. Go(c, "drop") /\ UNCHANGED <<ex, approval, issued, daemon, chain>>
    BY <1>7 DEF ReconcileDead, signer, cluster
  <2> QED BY <1>0, <2>1, <2>2, GoingIs DEF CallAgrees
<1>8. ASSUME ReconcileLater(c) \/ ReconcileDrop(c) PROVE Inv'
  <2>1. /\ k \in Keys /\ call[c].saw \in Sent /\ Return(c)
        /\ UNCHANGED <<approval, issued, daemon, chain>>
    BY <1>8 DEF ReconcileLater, ReconcileDrop, At, Inv, CallAgrees, signer, cluster
  <2>2. {"reconciliation-required", "dropped"} \subseteq Sent
    BY DEF Sent
  <2> QED BY <1>0, <1>8, <2>1, <2>2, MoveReturns DEF ReconcileLater, ReconcileDrop
<1> QED
  BY <1>1, <1>2, <1>3, <1>4, <1>5, <1>6, <1>7, <1>8 DEF RecoverCall

\* approve and deny.
LEMMA DecideStep ==
  ASSUME Inv, NEW k \in Keys, Decide(k)
  PROVE  Inv'
<1>1. PICK d \in {"approved", "denied"} :
        /\ approval' = [approval EXCEPT ![k] = d]
        /\ ex' = [ex EXCEPT ![k].state = d] \/ ex' = ex
  BY DEF Decide
<1>2. /\ ex \in [Keys -> Execution] /\ ex[k] \in Execution /\ ex[k].quote \in Quotes
      /\ ex[k].state = "awaiting-approval" /\ ~ex[k].signature /\ approval[k] = "pending"
  BY DEF Decide, Decidable, Inv, Typed, RowAgrees, Sent
<1>3. PICK r \in Execution : /\ ex' = [ex EXCEPT ![k] = r] /\ r.quote = ex[k].quote
                             /\ ~r.signature /\ r.state \in {"awaiting-approval", d}
  <2>1. CASE ex' = ex
    <3>1. ex' = [ex EXCEPT ![k] = ex[k]]
      BY <1>2, <2>1
    <3> QED BY <1>2, <3>1
  <2>2. CASE ex' = [ex EXCEPT ![k].state = d]
    <3> DEFINE r == [ex[k] EXCEPT !.state = d]
    <3>1. r \in Execution /\ r.quote = ex[k].quote /\ ~r.signature /\ r.state = d
      BY <1>2 DEF Execution, TradeState
    <3>2. ex' = [ex EXCEPT ![k] = r]
      BY <2>2
    <3> QED BY <3>1, <3>2
  <2> QED BY <1>1, <2>1, <2>2
<1>4. /\ approval' \in Approval
      /\ \A j \in Keys : approval[j] = "consumed" => approval'[j] = "consumed"
      /\ \A j \in Keys \ {k} : approval'[j] = approval[j]
  BY <1>1, <1>2 DEF Inv, Typed, Approval
<1>5. /\ daemon' = daemon /\ issued' = issued /\ chain' = chain /\ call' = call
      /\ daemon \in Daemon /\ issued \in [Keys -> 0..MaxAuths] /\ call \in [Calls -> Call]
  BY DEF Decide, signer, cluster, Inv, Typed
<1> QED BY <1>2, <1>3, <1>4, <1>5, OneRow

\* Time, the signer daemon and the cluster.
LEMMA EnvironmentStep ==
  ASSUME Inv, Environment
  PROVE  Inv'
<1>0. /\ call \in [Calls -> Call] /\ issued \in [Keys -> 0..MaxAuths] /\ daemon \in Daemon
      /\ chain \in [Quotes -> {"none", "sent"} \cup Landed]
  BY DEF Inv, Typed
<1>1. ASSUME NEW q \in Quotes,
             QuoteExpires(q) \/ ReservationExpires(q) \/ BlockhashDies(q) \/ Forget(q)
      PROVE  Inv'
  <2>1. UNCHANGED <<ex, approval, issued, daemon, chain, call>>
    BY <1>1 DEF QuoteExpires, ReservationExpires, BlockhashDies, Forget, rows, signer, cluster
  <2> QED BY <1>0, <2>1, SignerMoves
<1>2. ASSUME NEW q \in Quotes, Land(q) \/ Confirm(q) PROVE Inv'
  <2>1. UNCHANGED <<ex, approval, issued, daemon, call>>
    BY <1>2 DEF Land, Confirm, rows, signer
  <2>2. chain' \in [Quotes -> {"none", "sent"} \cup Landed]
    BY <1>0, <1>2 DEF Land, Confirm, Landed
  <2>3. \A p \in Quotes :
           /\ chain[p] \in {"error", "finalized"} => chain'[p] = chain[p]
           /\ chain[p] = "confirmed" => chain'[p] \in {"confirmed", "finalized"}
           /\ chain'[p] # "none" => chain[p] # "none"
    BY <1>0, <1>2 DEF Land, Confirm
  <2> QED BY <1>0, <2>1, <2>2, <2>3, ClusterMoves
<1>3. ASSUME NEW k \in Keys, NEW n \in Auths, DaemonFences(k, n) \/ DaemonSigns(k, n)
      PROVE  Inv'
  <2>1. UNCHANGED <<ex, approval, issued, chain, call>>
    BY <1>3 DEF DaemonFences, DaemonSigns, rows, cluster
  <2>2. PICK s \in {"expired", "fenced", "signed", "lost"} :
          daemon' = [daemon EXCEPT ![k][n] = s] /\ daemon[k][n] # "absent"
    BY <1>3 DEF DaemonFences, DaemonSigns
  <2>3. /\ daemon' \in Daemon
        /\ \A j \in Keys, m \in Auths : daemon'[j][m] # "absent" => daemon[j][m] # "absent"
    BY <1>0, <2>2 DEF Daemon
  <2> QED BY <1>0, <2>1, <2>3, SignerMoves
<1> QED BY <1>1, <1>2, <1>3 DEF Environment

\* Every step keeps the invariant.
LEMMA InvStep == Inv /\ [Next]_vars => Inv'
<1> SUFFICES ASSUME Inv, [Next]_vars PROVE Inv'
  OBVIOUS
<1>0. call \in [Calls -> Call] /\ issued \in [Keys -> 0..MaxAuths] /\ daemon \in Daemon
  BY DEF Inv, Typed
<1>1. ASSUME NEW c \in Calls, Refused(c) PROVE Inv'
  BY <1>1, Returning DEF Refused, rows, signer, cluster
<1>2. ASSUME NEW h \in Hosts, Crash(h) PROVE Inv'
  BY <1>0, <1>2, GoneAgrees, SignerMoves DEF Crash, rows, signer, cluster
<1>3. CASE UNCHANGED vars
  BY <1>0, <1>3, SignerMoves DEF vars
<1> QED
  BY <1>1, <1>2, <1>3, ExecuteStep, SubmitStep, RecoverStep, DecideStep, EnvironmentStep
  DEF Next

\* The invariant holds throughout.
LEMMA AlwaysInv == Spec => []Inv
BY InitInv, InvStep, PTL DEF Spec

-----------------------------------------------------------------------------

\* Whatever submits, recoveries and crashes interleave, the signer signs only executions
\* whose approval was given and consumed.
THEOREM SignsOnlyApproved == Spec => []SignedOnlyApproved
<1>1. Inv => SignedOnlyApproved
  BY DEF Inv, RowAgrees, SignedOnlyApproved, Signed
<1> QED BY <1>1, AlwaysInv, PTL

\* What reached the cluster is in a row with its signature: a crash is recovered by
\* looking the signature up and never by signing again.
THEOREM SentStaysRecorded == Spec => []SentIsRecorded
<1>1. Inv => SentIsRecorded
  BY DEF Inv
<1> QED BY <1>1, AlwaysInv, PTL

\* expire burns no execution that another operation has been signing and broadcasting
\* since it was read.
THEOREM BurnsOnlyUnsent == Spec => []ExpiredNeverSent
<1>1. Inv => ExpiredNeverSent
  BY DEF Inv, RowAgrees, ExpiredNeverSent, Sent
<1> QED BY <1>1, AlwaysInv, PTL

\* What a drop relies on: the height was read past the last valid one before the
\* reservation was released, and a blockhash does not come back.
DropAgrees ==
  /\ \A c \in Calls : call[c].at = "drop" => ex[call[c].key].quote \in dead
  /\ \A k \in Keys : ex[k].state = "dropped" => ex[k].quote \in dead

\* A row keeps its quote, and becomes dropped only by the last step of a reconciliation.
RowMoves ==
  \A k \in Keys :
    /\ ex[k].state # "absent" => ex'[k].quote = ex[k].quote
    /\ ex'[k].state = "dropped" =>
         ex[k].state = "dropped" \/ \E c \in Calls : call[c].at = "drop" /\ call[c].key = k
CallMoves ==
  \A c \in Calls : call'[c].at = "drop" =>
    /\ call'[c].key = call[c].key
    /\ call[c].at = "drop" \/ (call[c].at = "tip" /\ QuoteOf(c) \in dead)

\* A compare-and-set of a row keeps its quote.
LEMMA MoveMoves ==
  ASSUME Inv, NEW k \in Keys, NEW from, NEW to, ex' = Move(k, from, to), to # "dropped"
  PROVE  RowMoves
<1>1. ex \in [Keys -> Execution] /\ ex[k] \in Execution
  BY DEF Inv, Typed
<1> QED BY <1>1 DEF Move, RowMoves, Execution

\* An operation that goes anywhere but to the drop, or returns, or dies.
LEMMA CallLeaves ==
  ASSUME Inv, NEW c \in Calls,
         \/ Return(c) \/ Gone(HostOf[c])
         \/ \E place \in Places \ {"drop"} : Go(c, place) \/ Ask(c, place)
  PROVE  CallMoves
<1>1. call \in [Calls -> Call] /\ Idle.at = "idle"
  BY DEF Inv, Typed, Idle
<1>2. CASE Return(c)
  BY <1>1, <1>2 DEF Return, CallMoves
<1>3. CASE Gone(HostOf[c])
  BY <1>1, <1>3 DEF Gone, CallMoves
<1>4. ASSUME NEW place \in Places \ {"drop"}, Go(c, place) \/ Ask(c, place) PROVE CallMoves
  <2>1. PICK x \in Call : call' = [call EXCEPT ![c] = x] /\ x.at = place
    BY <1>4, GoesOn
  <2> QED BY <1>1, <2>1 DEF CallMoves
<1> QED BY <1>2, <1>3, <1>4

\* execute makes rows and drops none.
LEMMA ExecuteMoves ==
  ASSUME Inv, NEW c \in Calls, ExecuteCall(c)
  PROVE  RowMoves /\ CallMoves /\ dead' = dead
<1>0. /\ call \in [Calls -> Call] /\ ex \in [Keys -> Execution]
      /\ {"simulate", "risk", "create"} \subseteq Places \ {"drop"}
  BY DEF Inv, Typed, Places
<1>1. ASSUME NEW k \in Keys, NEW q \in Quotes, ExecuteStart(c, k, q)
      PROVE  RowMoves /\ CallMoves /\ dead' = dead
  <2> DEFINE x == [Idle EXCEPT !.at = "simulate", !.key = k, !.quote = q]
  <2>1. x.at = "simulate"
    BY DEF Idle
  <2>2. call' = [call EXCEPT ![c] = x] /\ ex' = ex /\ dead' = dead
    BY <1>1 DEF ExecuteStart, rows, cluster
  <2> QED BY <1>0, <2>1, <2>2 DEF RowMoves, CallMoves
<1>2. ASSUME ExecuteDry(c) PROVE RowMoves /\ CallMoves /\ dead' = dead
  <2>1. CallMoves /\ dead' = dead
    BY <1>2, CallLeaves DEF ExecuteDry, cluster
  <2>2. call[c].key \in Keys
    BY <1>2 DEF ExecuteDry, At, Inv, CallAgrees
  <2> QED BY <1>0, <1>2, <2>1, <2>2 DEF ExecuteDry, RowMoves, Absent
<1>3. ASSUME ExecuteSimulated(c) PROVE RowMoves /\ CallMoves /\ dead' = dead
  <2>1. PICK same \in BOOLEAN :
          call' = [call EXCEPT ![c].at = "risk", ![c].same = same,
                               ![c].alive = call[c].quote \notin dead]
    BY <1>3 DEF ExecuteSimulated
  <2>2. call[c] \in Call /\ dead' = dead /\ ex' = ex
    BY <1>0, <1>3 DEF ExecuteSimulated, rows, cluster
  <2>3. call'[c].at = "risk" /\ \A d \in Calls \ {c} : call'[d] = call[d]
    BY <1>0, <2>1, <2>2 DEF Call
  <2> QED BY <2>2, <2>3 DEF RowMoves, CallMoves
<1>4. ASSUME ExecuteReserve(c) PROVE RowMoves /\ CallMoves /\ dead' = dead
  <2>1. Go(c, "create") /\ ex' = ex /\ dead' = dead
    BY <1>4 DEF ExecuteReserve, cluster
  <2> QED BY <1>0, <2>1, CallLeaves DEF RowMoves
<1>5. ASSUME ExecuteCreate(c) \/ ExecuteDies(c) PROVE RowMoves /\ CallMoves /\ dead' = dead
  <2>1. CallMoves /\ dead' = dead
    BY <1>5, CallLeaves DEF ExecuteCreate, ExecuteDies, cluster
  <2>2. call[c].key \in Keys
    BY <1>5 DEF ExecuteCreate, ExecuteDies, At, Inv, CallAgrees
  <2> QED
    BY <1>0, <1>5, <2>1, <2>2 DEF ExecuteCreate, ExecuteDies, RowMoves, Created, Absent
<1> QED BY <1>1, <1>2, <1>3, <1>4, <1>5 DEF ExecuteCall

\* submit drops no row.
LEMMA SubmitMoves ==
  ASSUME Inv, NEW c \in Calls, SubmitCall(c)
  PROVE  RowMoves /\ CallMoves /\ dead' = dead
<1> DEFINE k == call[c].key
<1>0. /\ call \in [Calls -> Call] /\ ex \in [Keys -> Execution]
      /\ {"height", "consume", "issue", "broadcast", "expire", "answer", "record", "burn"}
           \subseteq Places \ {"drop"}
  BY DEF Inv, Typed, Places
<1>1. ASSUME NEW j \in Keys, Submit(c, j) PROVE RowMoves /\ CallMoves /\ dead' = dead
  <2>1. Submitting(j).at = "height"
    BY DEF Submitting, Idle
  <2>2. call' = [call EXCEPT ![c] = Submitting(j)] /\ ex' = ex /\ dead' = dead
    BY <1>1 DEF Submit, rows, cluster
  <2> QED BY <1>0, <2>1, <2>2 DEF RowMoves, CallMoves
<1>2. ASSUME SubmitHeight(c) \/ Broadcast(c) \/ BroadcastAnswer(c) \/ Expire(c)
      PROVE  RowMoves /\ CallMoves /\ dead' = dead
  <2>1. ex' = ex /\ dead' = dead
    BY <1>2 DEF SubmitHeight, Broadcast, BroadcastAnswer, Expire, rows, cluster
  <2>2. Return(c) \/ \E place \in Places \ {"drop"} : Go(c, place)
    BY <1>0, <1>2 DEF SubmitHeight, Broadcast, BroadcastAnswer, Expire
  <2> QED BY <2>1, <2>2, CallLeaves DEF RowMoves
<1>3. ASSUME SubmitConsume(c) \/ SubmitDies(c) PROVE RowMoves /\ CallMoves /\ dead' = dead
  <2>1. k \in Keys /\ dead' = dead
    BY <1>3 DEF SubmitConsume, SubmitDies, At, Inv, CallAgrees, cluster
  <2>2. CallMoves
    BY <1>0, <1>3, CallLeaves DEF SubmitConsume, SubmitDies
  <2>3. \/ ex' = ex \/ ex' = Move(k, "approved", "signing")
        \/ ex' = Move(k, "submitting", "reconciliation-required")
    BY <1>3 DEF SubmitConsume, SubmitDies, Caught
  <2> QED BY <2>1, <2>2, <2>3, MoveMoves DEF RowMoves
<1>4. ASSUME Issue(c) PROVE RowMoves /\ CallMoves /\ dead' = dead
  <2>1. k \in Keys /\ dead' = dead /\ ex[k] \in Execution /\ call[c] \in Call
    BY <1>0, <1>4 DEF Issue, At, Inv, CallAgrees, cluster
  <2>2. CASE ex[k].state = "signing"
    <3>1. call'[c].at = "sign" /\ \A d \in Calls \ {c} : call'[d] = call[d]
      BY <1>0, <1>4, <2>1, <2>2 DEF Issue, Call
    <3>2. RowMoves
      BY <1>0, <1>4, <2>1, <2>2 DEF Issue, RowMoves, Execution
    <3> QED BY <2>1, <3>1, <3>2 DEF CallMoves
  <2>3. CASE ex[k].state # "signing"
    BY <1>4, <2>1, <2>3, CallLeaves, MoveMoves DEF Issue, Caught
  <2> QED BY <2>2, <2>3
<1>5. ASSUME SubmitFails(c) \/ BroadcastFails(c) \/ BroadcastRecord(c) \/ ExpireBurn(c)
      PROVE  RowMoves /\ CallMoves /\ dead' = dead
  <2>1. k \in Keys /\ dead' = dead /\ Return(c)
    BY <1>5 DEF SubmitFails, BroadcastFails, BroadcastRecord, ExpireBurn, At, Inv, CallAgrees,
                cluster
  <2>2. \/ ex' = ex
        \/ \E from, to : to # "dropped" /\ ex' = Move(k, from, to)
    BY <1>5 DEF SubmitFails, BroadcastFails, BroadcastRecord, ExpireBurn, Caught
  <2> QED BY <2>1, <2>2, CallLeaves, MoveMoves DEF RowMoves
<1>6. ASSUME SignAnswer(c) PROVE RowMoves /\ CallMoves /\ dead' = dead
  <2>1. k \in Keys /\ dead' = dead /\ ex[k] \in Execution
    BY <1>0, <1>6 DEF SignAnswer, At, Inv, CallAgrees, cluster
  <2>2. CASE ex[k].state = "signing"
    BY <1>0, <1>6, <2>1, <2>2, CallLeaves DEF SignAnswer, Stored, RowMoves, Execution
  <2>3. CASE ex[k].state # "signing"
    BY <1>6, <2>1, <2>3, CallLeaves, MoveMoves DEF SignAnswer, Caught
  <2> QED BY <2>2, <2>3
<1> QED BY <1>1, <1>2, <1>3, <1>4, <1>5, <1>6 DEF SubmitCall

\* reconcile drops a row in its last step, after a height past the last valid one.
LEMMA RecoverMoves ==
  ASSUME Inv, NEW c \in Calls, RecoverCall(c)
  PROVE  RowMoves /\ CallMoves /\ dead' = dead
<1> DEFINE k == call[c].key
<1>0. /\ call \in [Calls -> Call] /\ ex \in [Keys -> Execution]
      /\ {"result", "recovered", "expire", "broadcast", "tip"} \subseteq Places \ {"drop"}
      /\ Idle.at = "idle"
  BY DEF Inv, Typed, Places, Idle
<1>a. \A j \in Keys : Reconciling(j).at # "drop" /\ Submitting(j).at # "drop"
  BY DEF Reconciling, Submitting, Idle
<1>1. ASSUME NEW j \in Keys, RecoverList(c, j) PROVE RowMoves /\ CallMoves /\ dead' = dead
  <2> DEFINE x == [Idle EXCEPT !.at = "row", !.key = j, !.saw = ex[j].state,
                               !.auth = ex[j].auth, !.recovering = TRUE]
  <2>1. x.at = "row"
    BY DEF Idle
  <2>2. call' = [call EXCEPT ![c] = x] /\ ex' = ex /\ dead' = dead
    BY <1>1 DEF RecoverList, rows, cluster
  <2> QED BY <1>0, <2>1, <2>2 DEF RowMoves, CallMoves
<1>2. ASSUME NEW j \in Keys, Reconcile(c, j) PROVE RowMoves /\ CallMoves /\ dead' = dead
  BY <1>0, <1>a, <1>2 DEF Reconcile, rows, cluster, RowMoves, CallMoves
<1>3. ASSUME RecoverRow(c) PROVE RowMoves /\ CallMoves /\ dead' = dead
  <2>1. k \in Keys /\ dead' = dead
    BY <1>3 DEF RecoverRow, At, Inv, CallAgrees, cluster
  <2>2. CASE ex' = Caught(k) /\ Return(c)
    BY <2>1, <2>2, CallLeaves, MoveMoves DEF Caught
  <2>3. CASE ex' = ex /\ Go(c, "result")
    BY <1>0, <2>1, <2>3, CallLeaves DEF RowMoves
  <2>4. CASE /\ ex' = ex
             /\ \E x \in {Reconciling(k), Submitting(k), Idle} : call' = [call EXCEPT ![c] = x]
    BY <1>0, <1>a, <2>1, <2>4 DEF RowMoves, CallMoves
  <2> QED BY <1>3, <2>2, <2>3, <2>4 DEF RecoverRow
<1>4. ASSUME RecoverResult(c) PROVE RowMoves /\ CallMoves /\ dead' = dead
  BY <1>0, <1>4, CallLeaves DEF RecoverResult, rows, cluster, RowMoves
<1>5. ASSUME Recovered(c) PROVE RowMoves /\ CallMoves /\ dead' = dead
  <2>1. k \in Keys /\ dead' = dead /\ ex[k] \in Execution /\ CallMoves
    BY <1>0, <1>5, CallLeaves DEF Recovered, At, Inv, CallAgrees, cluster
  <2> QED BY <1>0, <1>5, <2>1 DEF Recovered, Stored, RowMoves, Execution
<1>6. ASSUME ReconcileStatus(c) PROVE RowMoves /\ CallMoves /\ dead' = dead
  <2>1. k \in Keys /\ dead' = dead /\ CallMoves
    BY <1>0, <1>6, CallLeaves DEF ReconcileStatus, At, Inv, CallAgrees, cluster
  <2>2. \/ ex' = ex
        \/ \E from, to : to # "dropped" /\ ex' = Move(k, from, to)
    BY <1>6 DEF ReconcileStatus, SettledAs
  <2> QED BY <2>1, <2>2, MoveMoves DEF RowMoves
<1>7. ASSUME ReconcileDead(c) PROVE RowMoves /\ CallMoves /\ dead' = dead
  <2>1. Go(c, "drop") /\ ex' = ex /\ dead' = dead /\ call[c].at = "tip" /\ QuoteOf(c) \in dead
    BY <1>7 DEF ReconcileDead, At, cluster
  <2>2. PICK x \in Call : call' = [call EXCEPT ![c] = x] /\ x.key = call[c].key
    BY <2>1, GoesOn DEF Places
  <2> QED BY <1>0, <2>1, <2>2 DEF RowMoves, CallMoves
<1>8. ASSUME ReconcileLater(c) PROVE RowMoves /\ CallMoves /\ dead' = dead
  <2>1. k \in Keys /\ dead' = dead /\ Return(c)
    BY <1>8 DEF ReconcileLater, At, Inv, CallAgrees, cluster
  <2> QED BY <1>8, <2>1, CallLeaves, MoveMoves DEF ReconcileLater
<1>9. ASSUME ReconcileDrop(c) PROVE RowMoves /\ CallMoves /\ dead' = dead
  <2>1. k \in Keys /\ dead' = dead /\ CallMoves /\ ex[k] \in Execution /\ call[c].at = "drop"
    BY <1>0, <1>9, CallLeaves DEF ReconcileDrop, At, Inv, CallAgrees, cluster
  <2> QED BY <1>0, <1>9, <2>1 DEF ReconcileDrop, Move, RowMoves, Execution
<1> QED BY <1>1, <1>2, <1>3, <1>4, <1>5, <1>6, <1>7, <1>8, <1>9 DEF RecoverCall

\* Everything else leaves the operations alone.
LEMMA DropMoves ==
  ASSUME Inv, [Next]_vars
  PROVE  RowMoves /\ CallMoves /\ dead \subseteq dead'
<1>0. call \in [Calls -> Call] /\ ex \in [Keys -> Execution] /\ Idle.at = "idle"
  BY DEF Inv, Typed, Idle
<1>1. ASSUME NEW c \in Calls, Refused(c) PROVE RowMoves /\ CallMoves /\ dead' = dead
  BY <1>1, CallLeaves DEF Refused, rows, cluster, RowMoves
<1>2. ASSUME NEW h \in Hosts, Crash(h) PROVE RowMoves /\ CallMoves /\ dead' = dead
  BY <1>0, <1>2 DEF Crash, Gone, rows, cluster, RowMoves, CallMoves
<1>3. ASSUME NEW k \in Keys, Decide(k) PROVE RowMoves /\ CallMoves /\ dead' = dead
  <2>1. dead' = dead /\ call' = call
    BY <1>3 DEF Decide, cluster
  <2>2. ASSUME NEW d \in {"approved", "denied"}, ex' = [ex EXCEPT ![k].state = d] \/ ex' = ex
        PROVE  RowMoves
    <3>1. ex[k] \in Execution
      BY <1>0
    <3> QED BY <1>0, <2>2, <3>1 DEF RowMoves, Execution
  <2> QED BY <1>3, <2>1, <2>2 DEF Decide, CallMoves
<1>4. ASSUME Environment PROVE ex' = ex /\ call' = call /\ dead \subseteq dead'
  BY <1>4 DEF Environment, QuoteExpires, ReservationExpires, BlockhashDies, Land, Confirm, Forget,
              DaemonFences, DaemonSigns, rows, cluster
<1>5. CASE UNCHANGED vars
  BY <1>5 DEF vars, RowMoves, CallMoves
<1>6. CASE Environment
  BY <1>4, <1>6 DEF RowMoves, CallMoves
<1> QED
  BY <1>1, <1>2, <1>3, <1>5, <1>6, ExecuteMoves, SubmitMoves, RecoverMoves DEF Next

\* A drop stays right.
LEMMA DropStep == Inv /\ DropAgrees /\ [Next]_vars => DropAgrees'
<1> SUFFICES ASSUME Inv, DropAgrees, [Next]_vars PROVE DropAgrees'
  OBVIOUS
<1>1. ASSUME NEW c \in Calls, call'[c].at = "drop" PROVE ex'[call'[c].key].quote \in dead'
  <2>1. /\ call'[c].key = call[c].key
        /\ call[c].at = "drop" \/ (call[c].at = "tip" /\ QuoteOf(c) \in dead)
    BY <1>1, DropMoves DEF CallMoves
  <2>2. call[c].key \in Keys /\ ex[call[c].key].signature
    BY <2>1 DEF Inv, CallAgrees
  <2>3. ex[call[c].key].state # "absent"
    BY <2>2 DEF Inv, RowAgrees, Sent
  <2>4. ex[call[c].key].quote \in dead
    BY <2>1 DEF DropAgrees, QuoteOf
  <2> QED BY <2>1, <2>2, <2>3, <2>4, DropMoves DEF RowMoves
<1>2. ASSUME NEW k \in Keys, ex'[k].state = "dropped" PROVE ex'[k].quote \in dead'
  <2>1. ex[k].state # "absent" /\ ex[k].quote \in dead
    <3>1. CASE ex[k].state = "dropped"
      BY <3>1 DEF DropAgrees
    <3>2. ASSUME NEW c \in Calls, call[c].at = "drop", call[c].key = k
          PROVE  ex[k].state # "absent" /\ ex[k].quote \in dead
      BY <3>2 DEF DropAgrees, Inv, CallAgrees, RowAgrees, Sent
    <3> QED BY <1>2, <3>1, <3>2, DropMoves DEF RowMoves
  <2> QED BY <2>1, DropMoves DEF RowMoves
<1> QED BY <1>1, <1>2 DEF DropAgrees

\* reconcile settles a row as finalized or failed only if the cluster says so, and as
\* dropped only once the transaction can never land, whichever reconciliation comes last.
THEOREM SettlesAsCluster == Spec => []SettledAgrees
<1>1. Init => DropAgrees
  BY DEF Init, DropAgrees, Idle, Absent
<1>2. Inv /\ DropAgrees => SettledAgrees
  BY DEF Inv, DropAgrees, SettledAgrees
<1> QED BY <1>1, <1>2, AlwaysInv, DropStep, PTL DEF Spec
=============================================================================
