------------------------------ MODULE Channels ------------------------------
(***************************************************************************)
(* The two ways in from outside: the Telegram poller                       *)
(* (src/telegram/runner.ts, src/gateway/channels/index.ts), and the        *)
(* gateway core's request frames (src/gateway/core/index.ts).              *)
(***************************************************************************)
EXTENDS Integers, FiniteSets

CONSTANTS
  Updates,      \* update id -> [text, user, chat]; ids may have gaps
  AllowedUsers, AllowedChats,
  Frames,       \* request frames: [method, body, key, principal, session]
  Methods,      \* registered ones
  Clients,      \* concurrent callers
  Sessions, Principals, ChannelAccounts,
  MaxFailures

\* Update ids are positive integers
ASSUME UpdatesAssumption == DOMAIN Updates \subseteq Nat \ {0}

VARIABLES
  offset,       \* the offset file
  acked,        \* what Telegram holds for confirmed: ids below the offsets it was asked with
  poll,         \* the poller: [phase, cur, left]
  seen,         \* the channel's set, in memory
  handled,      \* update id -> times its text was acted upon
  unread,       \* update id -> times an offset saved beyond it could not be read (history)
  failures,
  client,       \* client -> [phase, frame, answer]
  memo,         \* the gateway's answers: <<principal, session, key>> -> [hash, answer]
  owner,        \* session -> [principal, account]
  ran           \* times a handler ran, per memo key
channelVars == <<offset, acked, poll, seen, handled, unread, failures, client, memo, owner, ran>>

telegramVars == <<offset, acked, poll, seen, handled, unread, failures>>
gatewayVars == <<client, memo, owner, ran>>

-----------------------------------------------------------------------------
(* Telegram *)

Waiting == [phase |-> "waiting", cur |-> 0, left |-> {}]

Fails == failures < MaxFailures /\ failures' = failures + 1

\* load: a file that is missing, unreadable or malformed answers 0
Load(readable) == IF readable THEN offset ELSE 0

\* getUpdates answers with the first updates from the offset on that have not been
\* confirmed; an offset confirms what is below it
Batches(from) ==
  LET due == {u \in DOMAIN Updates : u >= from /\ u >= acked}
  IN  {b \in SUBSET due : \A u \in b, v \in due : v < u => v \in b}

\* pollOnce up to the answer; a 429 or an error changes nothing
Poll(readable, batch) ==
  LET from == Load(readable)
  IN  /\ poll.phase = "waiting"
      /\ batch \in Batches(from)
      /\ poll' = IF batch = {} THEN Waiting ELSE [Waiting EXCEPT !.phase = "save", !.left = batch]
      /\ acked' = IF from > acked THEN from ELSE acked
      /\ IF readable THEN UNCHANGED <<failures, unread>>
         ELSE /\ Fails
              /\ unread' = [u \in DOMAIN Updates |-> IF u < offset THEN unread[u] + 1 ELSE unread[u]]
      /\ UNCHANGED <<offset, seen, handled, gatewayVars>>

\* The updates of a batch are taken in their order
First(u) == u \in poll.left /\ \A v \in poll.left : u <= v

\* The loop turns to u, after it has saved an offset for it
Turn(u) == poll' = [phase |-> "receive", cur |-> u, left |-> poll.left \ {u}]

\* Fault: the next poll starts at the update itself
SaveOwnId(u) ==
  /\ poll.phase = "save" /\ First(u)
  /\ offset' = u
  /\ Turn(u)
  /\ UNCHANGED <<acked, seen, handled, unread, failures, gatewayVars>>

\* The offset is saved before the update is looked at, a lower one than before too; a
\* failure throws out of the loop
SaveOffset(u) ==
  /\ poll.phase = "save" /\ First(u)
  /\ offset' = u + 1
  /\ Turn(u)
  /\ UNCHANGED <<acked, seen, handled, unread, failures, gatewayVars>>
SaveFails ==
  /\ poll.phase = "save" /\ Fails /\ poll' = Waiting
  /\ UNCHANGED <<offset, acked, seen, handled, unread, gatewayVars>>

\* receive: an update of a kind that is not text, seen before, or from somebody else
Accepted(u) ==
  /\ u \notin seen /\ Updates[u].text
  /\ Updates[u].user \in AllowedUsers
  /\ AllowedChats # {} => Updates[u].chat \in AllowedChats

\* On to the next update of the batch
After == IF poll.left = {} THEN Waiting ELSE [poll EXCEPT !.phase = "save"]

Receive ==
  /\ poll.phase = "receive"
  /\ seen' = seen \cup {poll.cur}
  /\ poll' = IF Accepted(poll.cur) THEN [poll EXCEPT !.phase = "act"] ELSE After
  /\ UNCHANGED <<offset, acked, handled, unread, failures, gatewayVars>>

\* dispatch, or approval for a command; then the reply.  Either may throw, which
\* leaves the rest of the batch to the next poll.
Act(ok) ==
  /\ poll.phase = "act"
  /\ handled' = [handled EXCEPT ![poll.cur] = @ + 1]
  /\ IF ok THEN poll' = After /\ UNCHANGED failures ELSE poll' = Waiting /\ Fails
  /\ UNCHANGED <<offset, acked, seen, unread, gatewayVars>>

\* The process dies and comes back: what it has seen is gone
RunnerCrash ==
  /\ Fails
  /\ poll' = Waiting /\ seen' = {}
  /\ UNCHANGED <<offset, acked, handled, unread, gatewayVars>>

-----------------------------------------------------------------------------
(* Gateway core *)

KeyOf(f) == <<f.principal, f.session, f.key>>
HashOf(f) == <<f.method, f.body>>

\* handle up to the handler: parsing, the version and authentication are awaited here
Arrive(c, f) ==
  /\ client[c].phase = "idle"
  /\ client' = [client EXCEPT ![c] = [phase |-> "authenticated", frame |-> f, answer |-> "none"]]
  /\ UNCHANGED <<memo, owner, ran, telegramVars>>

\* The memo is looked at, then the handler runs: its answer is awaited
Answered(c, a) == [client EXCEPT ![c] = [phase |-> "idle", frame |-> "none", answer |-> a]]
Look(c) ==
  LET f == client[c].frame
      k == KeyOf(f)
  IN  /\ client[c].phase = "authenticated"
      /\ IF f.method \notin Methods
         THEN client' = Answered(c, "METHOD_NOT_FOUND") /\ UNCHANGED ran
         ELSE IF k \in DOMAIN memo
         THEN /\ client' = Answered(c, IF memo[k].hash = HashOf(f) THEN memo[k].answer
                                       ELSE "IDEMPOTENCY_CONFLICT")
              /\ UNCHANGED ran
         ELSE /\ client' = [client EXCEPT ![c].phase = "running"]
              /\ ran' = [x \in DOMAIN ran \cup {k} |->
                           IF x \notin DOMAIN ran THEN 1 ELSE IF x = k THEN ran[x] + 1 ELSE ran[x]]
      /\ UNCHANGED <<memo, owner, telegramVars>>

\* The handler's answer is stored; one that throws is not
Finish(c, ok) ==
  LET f == client[c].frame
      k == KeyOf(f)
  IN  /\ client[c].phase = "running"
      /\ client' = Answered(c, IF ok THEN <<"done", c>> ELSE "error")
      /\ memo' = IF ~ok THEN memo
                 ELSE [x \in DOMAIN memo \cup {k} |->
                         IF x = k THEN [hash |-> HashOf(f), answer |-> <<"done", c>>] ELSE memo[x]]
      /\ IF ok THEN UNCHANGED failures ELSE Fails
      /\ UNCHANGED <<owner, ran, offset, acked, poll, seen, handled, unread>>

\* claimSession: the first principal keeps it, with the account it named; anyone else, or
\* another account, is refused (SESSION_ISOLATED)
ClaimSession(p, a, s) ==
  /\ s \in DOMAIN owner => owner[s] = [principal |-> p, account |-> a]
  /\ owner' = [x \in DOMAIN owner \cup {s} |->
                 IF x = s THEN [principal |-> p, account |-> a] ELSE owner[x]]
  /\ UNCHANGED <<client, memo, ran, telegramVars>>

ChannelInit ==
  /\ offset = 0 /\ acked = 0 /\ poll = Waiting /\ seen = {} /\ failures = 0
  /\ handled = [u \in DOMAIN Updates |-> 0] /\ unread = [u \in DOMAIN Updates |-> 0]
  /\ client = [c \in Clients |-> [phase |-> "idle", frame |-> "none", answer |-> "none"]]
  /\ memo = [k \in {} |-> "none"] /\ owner = [s \in {} |-> "none"] /\ ran = [k \in {} |-> 0]

TelegramNext ==
  \/ \E readable \in BOOLEAN, batch \in SUBSET DOMAIN Updates : Poll(readable, batch)
  \/ \E u \in DOMAIN Updates : SaveOffset(u)
  \/ SaveFails \/ Receive \/ RunnerCrash
  \/ \E ok \in BOOLEAN : Act(ok)

GatewayNext ==
  \/ \E c \in Clients :
       (\E f \in Frames : Arrive(c, f)) \/ Look(c) \/ (\E ok \in BOOLEAN : Finish(c, ok))
  \/ \E p \in Principals, a \in ChannelAccounts, s \in Sessions : ClaimSession(p, a, s)

\* The gateway's callers and the runner side by side
ChannelSpec == ChannelInit /\ [][TelegramNext \/ GatewayNext]_channelVars

-----------------------------------------------------------------------------
(* Properties *)

\* A message, an approval command above all, is acted upon at most once: a failed
\* reply, a failed dispatch or a restart in the middle of a batch never brings it back.
\* Once more only for each time the offset saved for it could not be read: load answers 0
\* then, Telegram hands out again what nobody has confirmed, and a restarted process
\* does not remember it.
ActedOnce == \A u \in DOMAIN Updates : handled[u] <= 1 + unread[u]
=============================================================================
