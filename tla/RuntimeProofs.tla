---------------------------- MODULE RuntimeProofs ----------------------------
(***************************************************************************)
(* Proofs about what surrounds the kernel: the Telegram runner, the        *)
(* operator console with the kernel's guards, the agent loop, the          *)
(* execution gateway with its simulation, and the session store.           *)
(***************************************************************************)
EXTENDS Channels, AgentRuntime, Sessions, Console, Simulation, DataTheorems, SequenceTheorems

-----------------------------------------------------------------------------
(* The Telegram runner.  The offset on disk is what survives a crash, so   *)
(* the invariant is about the offset: what lies from it on, from the first *)
(* of the batch on, and the update in hand have been acted upon no more    *)
(* often than an offset beyond them could not be read.                     *)

\* An update that may be acted upon once more
Spare(u) == handled[u] <= unread[u]

ChannelTyped ==
  /\ poll = [phase |-> poll.phase, cur |-> poll.cur, left |-> poll.left]
  /\ poll.left \subseteq DOMAIN Updates
  /\ offset \in Nat
  /\ handled \in [DOMAIN Updates -> Nat] /\ unread \in [DOMAIN Updates -> Nat]

\* What the offset says of the update in hand and of those to come
ChannelInv ==
  /\ ChannelTyped
  /\ poll.phase = "save" => \A u \in DOMAIN Updates : (\E v \in poll.left : v <= u) => Spare(u)
  /\ poll.phase \in {"receive", "act"} =>
       /\ poll.cur \in DOMAIN Updates /\ offset = poll.cur + 1 /\ Spare(poll.cur)
       /\ \A v \in poll.left : v > poll.cur
  /\ \A u \in DOMAIN Updates : u >= offset => Spare(u)
  /\ ActedOnce

\* A batch starts at the offset; one asked for with 0 in place of an offset that could
\* not be read has counted that against every update below it.
LEMMA PollStep ==
  ASSUME ChannelInv, NEW readable \in BOOLEAN, NEW batch \in SUBSET DOMAIN Updates,
         Poll(readable, batch)
  PROVE  ChannelInv'
<1>1. UNCHANGED <<offset, handled>> /\ offset \in Nat
  BY DEF Poll, ChannelInv, ChannelTyped
<1>2. \/ poll' = [phase |-> "waiting", cur |-> 0, left |-> {}]
      \/ poll' = [phase |-> "save", cur |-> 0, left |-> batch]
  BY DEF Poll, Waiting
<1>3. CASE readable
  <2>1. UNCHANGED unread /\ \A v \in batch : v >= offset
    BY <1>3 DEF Poll, Load, Batches
  <2>2. \A u \in DOMAIN Updates : (\E v \in batch : v <= u) => Spare(u)
    BY <1>1, <2>1, UpdatesAssumption DEF ChannelInv
  <2> QED BY <1>1, <1>2, <2>1, <2>2 DEF ChannelInv, ChannelTyped, ActedOnce, Spare
<1>4. CASE ~readable
  <2>1. unread' = [u \in DOMAIN Updates |-> IF u < offset THEN unread[u] + 1 ELSE unread[u]]
    BY <1>4 DEF Poll
  <2>2. unread' \in [DOMAIN Updates -> Nat]
    BY <2>1 DEF ChannelInv, ChannelTyped
  <2>3. \A u \in DOMAIN Updates : handled[u] <= unread'[u]
    BY <1>1, <2>1, UpdatesAssumption DEF ChannelInv, ChannelTyped, ActedOnce, Spare
  <2>4. \A u \in DOMAIN Updates : handled[u] <= 1 + unread'[u]
    BY <2>2, <2>3 DEF ChannelInv, ChannelTyped
  <2> QED BY <1>1, <1>2, <2>2, <2>3, <2>4 DEF ChannelInv, ChannelTyped, ActedOnce, Spare
<1> QED BY <1>3, <1>4

\* After an update the poller waits, or the rest of the batch lies from the offset on.
LEMMA AfterIs ==
  ASSUME ChannelInv, poll.phase \in {"receive", "act"}, poll' = After
  PROVE  /\ poll' = [phase |-> poll'.phase, cur |-> poll'.cur, left |-> poll'.left]
         /\ poll'.left \subseteq DOMAIN Updates
         /\ poll'.phase \in {"waiting", "save"}
         /\ poll'.phase = "save" => \A v \in poll'.left : v >= offset
<1>1. CASE poll.left = {}
  BY <1>1 DEF After, Waiting
<1>2. CASE poll.left # {}
  <2>1. poll' = [phase |-> "save", cur |-> poll.cur, left |-> poll.left]
    BY <1>2 DEF After, ChannelInv, ChannelTyped
  <2>2. \A v \in poll.left : v >= offset
    BY UpdatesAssumption DEF ChannelInv, ChannelTyped
  <2> QED BY <2>1, <2>2 DEF ChannelInv, ChannelTyped
<1> QED BY <1>1, <1>2

\* Every step of the runner, and of the gateway beside it, keeps the invariant.
LEMMA ChannelStep ==
  ASSUME ChannelInv, [TelegramNext \/ GatewayNext]_channelVars
  PROVE  ChannelInv'
<1>0. Waiting = [phase |-> "waiting", cur |-> 0, left |-> {}]
  BY DEF Waiting
<1>1. ASSUME NEW u \in DOMAIN Updates, SaveOffset(u) PROVE ChannelInv'
  <2>1. /\ poll.phase = "save" /\ u \in poll.left /\ \A v \in poll.left : u <= v
        /\ offset' = u + 1 /\ poll' = [phase |-> "receive", cur |-> u, left |-> poll.left \ {u}]
        /\ UNCHANGED <<handled, unread>>
    BY <1>1 DEF SaveOffset, First, Turn
  <2>2. u \in Nat /\ poll.left \subseteq Nat
    BY UpdatesAssumption DEF ChannelInv, ChannelTyped
  <2>3. \A v \in DOMAIN Updates : v >= u => Spare(v)
    BY <2>1, <2>2, UpdatesAssumption DEF ChannelInv
  <2>4. /\ \A v \in DOMAIN Updates : v >= u + 1 => Spare(v)
        /\ Spare(u)
    BY <2>2, <2>3, UpdatesAssumption
  <2>5. \A v \in poll.left \ {u} : v > u
    BY <2>1, <2>2
  <2> QED BY <2>1, <2>2, <2>4, <2>5 DEF ChannelInv, ChannelTyped, ActedOnce, Spare
<1>2. ASSUME SaveFails \/ RunnerCrash PROVE ChannelInv'
  <2>1. poll' = Waiting /\ UNCHANGED <<offset, handled, unread>>
    BY <1>2 DEF SaveFails, RunnerCrash
  <2> QED BY <1>0, <2>1 DEF ChannelInv, ChannelTyped, ActedOnce, Spare
<1>3. ASSUME Receive PROVE ChannelInv'
  <2>1. poll.phase = "receive" /\ UNCHANGED <<offset, handled, unread>>
    BY <1>3 DEF Receive
  <2>2. CASE poll' = After
    <3>1. /\ poll' = [phase |-> poll'.phase, cur |-> poll'.cur, left |-> poll'.left]
          /\ poll'.left \subseteq DOMAIN Updates
          /\ poll'.phase \in {"waiting", "save"}
          /\ poll'.phase = "save" => \A v \in poll'.left : v >= offset
      BY <2>1, <2>2, AfterIs
    <3>2. poll'.phase = "save" => \A u \in DOMAIN Updates : (\E v \in poll'.left : v <= u) => Spare(u)
      BY <3>1, UpdatesAssumption DEF ChannelInv, ChannelTyped
    <3> QED BY <2>1, <3>1, <3>2 DEF ChannelInv, ChannelTyped, ActedOnce, Spare
  <2>3. CASE poll' = [poll EXCEPT !.phase = "act"]
    <3>1. poll' = [phase |-> "act", cur |-> poll.cur, left |-> poll.left]
      BY <2>3 DEF ChannelInv, ChannelTyped
    <3> QED BY <2>1, <3>1 DEF ChannelInv, ChannelTyped, ActedOnce, Spare
  <2> QED BY <1>3, <2>2, <2>3 DEF Receive
<1>4. ASSUME NEW ok \in BOOLEAN, Act(ok) PROVE ChannelInv'
  <2> DEFINE h == poll.cur
  <2>1. /\ poll.phase = "act" /\ h \in DOMAIN Updates /\ offset = h + 1 /\ Spare(h)
        /\ UNCHANGED <<offset, unread>> /\ handled' = [handled EXCEPT ![h] = @ + 1]
    BY <1>4 DEF Act, ChannelInv
  <2>2. /\ handled \in [DOMAIN Updates -> Nat] /\ unread \in [DOMAIN Updates -> Nat]
        /\ h \in Nat /\ offset \in Nat
    BY <2>1, UpdatesAssumption DEF ChannelInv, ChannelTyped
  <2> HIDE DEF h
  <2>3. /\ handled' \in [DOMAIN Updates -> Nat]
        /\ handled'[h] <= 1 + unread[h]
        /\ \A u \in DOMAIN Updates : u # h => handled'[u] = handled[u]
    BY <2>1, <2>2 DEF Spare
  <2>4. \A u \in DOMAIN Updates : u >= offset => handled'[u] <= unread'[u]
    <3> SUFFICES ASSUME NEW u \in DOMAIN Updates, u >= offset PROVE handled'[u] <= unread'[u]
      OBVIOUS
    <3>1. u # h
      BY <2>1, <2>2, UpdatesAssumption
    <3> QED BY <2>1, <2>3, <3>1 DEF ChannelInv, Spare
  <2>5. ActedOnce'
    BY <2>1, <2>3 DEF ChannelInv, ActedOnce
  <2>6. CASE poll' = Waiting
    BY <1>0, <2>1, <2>2, <2>3, <2>4, <2>5, <2>6 DEF ChannelInv, ChannelTyped, Spare
  <2>7. CASE poll' = After
    <3>1. /\ poll' = [phase |-> poll'.phase, cur |-> poll'.cur, left |-> poll'.left]
          /\ poll'.left \subseteq DOMAIN Updates
          /\ poll'.phase \in {"waiting", "save"}
          /\ poll'.phase = "save" => \A v \in poll'.left : v >= offset
      BY <2>1, <2>7, AfterIs
    <3>2. poll'.phase = "save" =>
            \A u \in DOMAIN Updates : (\E v \in poll'.left : v <= u) => handled'[u] <= unread'[u]
      BY <2>2, <2>4, <3>1, UpdatesAssumption
    <3> QED BY <2>1, <2>2, <2>3, <2>4, <2>5, <3>1, <3>2 DEF ChannelInv, ChannelTyped, Spare
  <2> QED BY <1>4, <2>6, <2>7 DEF Act
<1>5. ASSUME UNCHANGED <<offset, poll, handled, unread>> PROVE ChannelInv'
  BY <1>5 DEF ChannelInv, ChannelTyped, Spare, ActedOnce
<1> QED
  BY <1>1, <1>2, <1>3, <1>4, <1>5, PollStep
  DEF TelegramNext, GatewayNext, channelVars, telegramVars, Arrive, Look, Finish, ClaimSession

\* A message, an approval command above all, is acted upon at most once, whatever ids
\* Telegram gives its updates: no failed reply, no failed dispatch and no restart in the
\* middle of a batch brings it back; only an offset file that cannot be read does, once
\* for each time.
THEOREM ActsOnce == ChannelSpec => []ActedOnce
<1>1. ChannelInit => ChannelInv
  BY UpdatesAssumption DEF ChannelInit, ChannelInv, ChannelTyped, Waiting, ActedOnce, Spare
<1>2. ChannelInv /\ [TelegramNext \/ GatewayNext]_channelVars => ChannelInv'
  BY ChannelStep
<1>3. ChannelInv => ActedOnce
  BY DEF ChannelInv
<1> QED BY <1>1, <1>2, <1>3, PTL DEF ChannelSpec

-----------------------------------------------------------------------------
(* The operator console.  What is last on a stream is only ever set while  *)
(* the stream is open, and both ways to end one clear it.                  *)

StreamsTyped ==
  /\ stream = [s \in Streams |-> stream[s]]
  /\ \A s \in Streams :
       stream[s] = [open |-> stream[s].open, building |-> stream[s].building, last |-> stream[s].last]

StreamInv == StreamsTyped /\ NoFrameAfterEnd

\* A step that gives one stream another record keeps the invariant if that record does.
LEMMA OneStream ==
  ASSUME StreamInv, NEW s \in Streams, NEW open, NEW building, NEW last, ~open => last = {},
         stream' = [stream EXCEPT ![s] = [open |-> open, building |-> building, last |-> last]]
  PROVE  StreamInv'
<1> DEFINE new == [open |-> open, building |-> building, last |-> last]
<1>1. /\ new.open = open /\ new.building = building /\ new.last = last
  OBVIOUS
<1> HIDE DEF new
<1>2. /\ stream' = [t \in Streams |-> stream'[t]]
      /\ \A t \in Streams : stream'[t] = IF t = s THEN new ELSE stream[t]
  BY DEF StreamInv, StreamsTyped, new
<1>3. new = [open |-> new.open, building |-> new.building, last |-> new.last]
  BY <1>1 DEF new
<1>4. StreamsTyped'
  BY <1>2, <1>3 DEF StreamInv, StreamsTyped
<1>5. NoFrameAfterEnd'
  BY <1>1, <1>2 DEF StreamInv, NoFrameAfterEnd
<1> QED BY <1>4, <1>5 DEF StreamInv

LEMMA StreamStep ==
  ASSUME StreamInv, [AccessNext \/ SnapshotNext]_consoleVars
  PROVE  StreamInv'
<1>1. ASSUME UNCHANGED stream PROVE StreamInv'
  BY <1>1 DEF StreamInv, StreamsTyped, NoFrameAfterEnd
<1>2. ASSUME NEW who, NEW s \in Streams, OpenStream(who, s) PROVE StreamInv'
  BY <1>2, OneStream DEF OpenStream
<1>3. ASSUME NEW s \in Streams, Tick(s) PROVE StreamInv'
  <2>1. ~stream[s].open => stream[s].last = {}
    BY DEF StreamInv, NoFrameAfterEnd
  <2>2. stream' = [stream EXCEPT ![s] =
                     [open |-> stream[s].open, building |-> stream[s].building \cup {Snapshot},
                      last |-> stream[s].last]]
    BY <1>3 DEF Tick
  <2> QED BY <2>1, <2>2, OneStream
<1>4. ASSUME NEW s \in Streams, NEW f, WriteFrame(s, f) PROVE StreamInv'
  <2>1. PICK said \in {f, Unavailable} :
          stream' = [stream EXCEPT ![s] =
                       [open |-> stream[s].open, building |-> stream[s].building \ {f},
                        last |-> IF stream[s].open THEN {said} ELSE stream[s].last]]
    BY <1>4 DEF WriteFrame
  <2> DEFINE last == IF stream[s].open THEN {said} ELSE stream[s].last
  <2>2. ~stream[s].open => last = {}
    BY DEF StreamInv, NoFrameAfterEnd
  <2>3. stream' = [stream EXCEPT ![s] =
                     [open |-> stream[s].open, building |-> stream[s].building \ {f}, last |-> last]]
    BY <2>1
  <2> HIDE DEF last
  <2> QED BY <2>2, <2>3, OneStream
<1>5. ASSUME NEW s \in Streams, CloseStream(s) PROVE StreamInv'
  BY <1>5, OneStream DEF CloseStream, Ended
<1>6. ASSUME Stop PROVE StreamInv'
  BY <1>6 DEF Stop, Ended, StreamInv, StreamsTyped, NoFrameAfterEnd
<1>7. ASSUME SwitchNext PROVE StreamInv'
  BY <1>1, <1>7 DEF SwitchNext, Switch
<1>8. ASSUME AccessNext PROVE StreamInv'
  BY <1>1, <1>7, <1>8 DEF AccessNext, Start, Wait, SignIn, SignOut
<1>9. ASSUME SnapshotNext PROVE StreamInv'
  BY <1>1, <1>2, <1>3, <1>4, <1>5, <1>6, <1>7, <1>9 
  DEF SnapshotNext, Start, JudgeTrade, NewTrade, TradeRefused, TradeMoves
<1>10. ASSUME UNCHANGED consoleVars PROVE StreamInv'
  BY <1>1, <1>10 DEF consoleVars
<1> QED BY <1>8, <1>9, <1>10

\* Nothing is written to a stream that has ended, for any streams and any number of
\* frames under way: a push that awaited the holdings looks again before it writes.
THEOREM NoFrameAfterTheEnd == ConsoleSpec => []NoFrameAfterEnd
<1>1. ConsoleInit => StreamInv
  BY DEF ConsoleInit, StreamInv, StreamsTyped, NoFrameAfterEnd, Closed
<1>2. StreamInv /\ [AccessNext \/ SnapshotNext]_consoleVars => StreamInv'
  BY StreamStep
<1> QED BY <1>1, <1>2, PTL DEF ConsoleSpec, StreamInv

-----------------------------------------------------------------------------
(* The kernel's static guards.  Both divisions of the code truncate; the   *)
(* property is the multiplication they stand for.                          *)

\* slippageBps within a bound bounds what is given up, without the division.
LEMMA SlippageMeans ==
  ASSUME NEW out \in Nat, NEW min \in Nat, NEW k \in Nat, SlippageBps(out, min) <= k
  PROVE  (out - min) * Scale < (k + 1) * (IF out > 0 THEN out ELSE 1)
<1> DEFINE base == IF out > 0 THEN out ELSE 1
<1>1. base \in Nat \ {0} /\ Scale \in Nat \ {0}
  BY GuardsAssumption
<1>2. (k + 1) * base \in Nat \ {0}
  BY <1>1, Z3
<1>3. CASE out <= min
  <2>1. (out - min) * Scale <= 0 /\ (out - min) * Scale \in Int
    BY <1>1, <1>3, Z3
  <2> HIDE DEF base
  <2>2. (out - min) * Scale < (k + 1) * base
    BY <1>2, <2>1
  <2> QED BY <2>2 DEF base
<1>4. CASE out > min
  <2>1. out \in Nat \ {0} /\ base = out
    BY <1>4
  <2> DEFINE a == (out - min) * Scale
  <2>2. a \in Nat
    BY <1>1, <1>4, Z3
  <2>3. a \div out <= k
    BY <1>4, <2>1 DEF SlippageBps
  <2> HIDE DEF a, base
  <2>4. a < (k + 1) * out
    BY <2>1, <2>2, <2>3, QuotientBelow
  <2> QED BY <2>1, <2>4 DEF a, base
<1> QED BY <1>3, <1>4

\* What passes the guards is within their limits.
LEMMA GuardedIsBounded ==
  ASSUME NEW i \in Intents, NEW confirmed, StaticGuards(KernelPolicy, i, FALSE, confirmed)
  PROVE  Bounded(i)
<1>1. /\ i.outAmount \in Nat /\ i.minOut \in Nat /\ i.amount \in Nat /\ i.fee \in Nat
      /\ Scale \in Nat \ {0} /\ Tolerance \in Nat
      /\ Limits.maxSlippage \in Nat /\ Limits.maxFeeBps \in Nat
  BY GuardsAssumption
<1>2. KernelPolicy.maxSlippage = Limits.maxSlippage /\ KernelPolicy.maxFeeBps = Limits.maxFeeBps
  BY GuardsAssumption DEF KernelPolicy
<1>3. /\ SlippageBps(i.outAmount, i.minOut) <= Limits.maxSlippage + Tolerance
      /\ i.mint \in {"sol", "usdc"} /\ i.amount > 0 => i.fee <= (i.amount * Limits.maxFeeBps) \div Scale
  BY <1>2 DEF StaticGuards, SlippageAllows, FeeAllows
<1>4. Limits.maxSlippage + Tolerance \in Nat /\ i.amount * Limits.maxFeeBps \in Nat
  BY <1>1, Z3
<1> QED BY <1>1, <1>3, <1>4, SlippageMeans, QuotientAbove DEF Bounded

\* True of an intent from the moment it passes the guards, whose answer is kept over awaits.
JudgedInv == \A i \in judged \cup reserved : Bounded(i)

\* For all amounts, limits and tolerances: an intent the kernel reserved for gives up at
\* most the slippage allowed and pays at most the fee share, whatever the operator
\* switches in between and however the divisions round.
THEOREM ReservedIsAlwaysBounded == ConsoleSpec => []ReservedIsBounded
<1>1. ConsoleInit => JudgedInv
  BY DEF ConsoleInit, JudgedInv
<1>2. ASSUME JudgedInv, [AccessNext \/ SnapshotNext]_consoleVars PROVE JudgedInv'
  <2>1. ASSUME UNCHANGED <<judged, reserved>> PROVE JudgedInv'
    BY <1>2, <2>1 DEF JudgedInv, Bounded
  <2>2. ASSUME NEW i \in Intents, NEW confirmed, JudgeTrade(i, confirmed) PROVE JudgedInv'
    <3>1. /\ judged' = judged \cup {i} /\ UNCHANGED reserved
          /\ StaticGuards(KernelPolicy, i, FALSE, confirmed)
      BY <2>2 DEF JudgeTrade
    <3> QED BY <1>2, <3>1, GuardedIsBounded DEF JudgedInv
  <2>3. ASSUME NEW i \in judged, NewTrade(i) \/ TradeRefused(i) PROVE JudgedInv'
    <3>1. judged' \cup reserved' \subseteq judged \cup reserved
      BY <2>3 DEF NewTrade, TradeRefused
    <3> QED BY <1>2, <3>1 DEF JudgedInv
  <2>4. ASSUME SwitchNext PROVE JudgedInv'
    BY <2>1, <2>4 DEF SwitchNext, Switch
  <2>5. ASSUME AccessNext PROVE JudgedInv'
    BY <2>1, <2>4, <2>5 DEF AccessNext, Start, Wait, SignIn, SignOut
  <2>6. ASSUME SnapshotNext PROVE JudgedInv'
    BY <2>1, <2>2, <2>3, <2>4, <2>6
    DEF SnapshotNext, Start, Stop, OpenStream, Tick, CloseStream, WriteFrame, TradeMoves
  <2> QED BY <1>2, <2>1, <2>5, <2>6 DEF consoleVars
<1>3. JudgedInv => ReservedIsBounded
  BY DEF JudgedInv, ReservedIsBounded
<1> QED BY <1>1, <1>2, <1>3, PTL DEF ConsoleSpec

-----------------------------------------------------------------------------
(* The agent loop.  What the loop holds in memory is tied to what is       *)
(* stored: from "plan" on the turn it works off is in the transcript, and  *)
(* an execution exists only after its "started" record.  Of trades the     *)
(* loop knows as much as it must: one that was dispatched is the current   *)
(* call or has set `side`, and with `side` set the provider asked is the   *)
(* one settled on.                                                         *)

LoopFields == {"phase", "iteration", "provider", "index", "walk", "count", "side", "repeated",
               "messages", "batch", "now", "aborted"}
RowFields == {"status", "first", "last"}

\* The assistant's turn is stored
HasTurn(it, calls) ==
  \E n \in DOMAIN transcript : transcript[n] = [role |-> "assistant", it |-> it, calls |-> calls]

\* What EffectsAreRecorded says of one execution
OnRecord(x) ==
  /\ \E n \in DOMAIN transcript :
       /\ transcript[n].role = "assistant" /\ transcript[n].it = x.it
       /\ \E k \in DOMAIN transcript[n].calls : transcript[n].calls[k] = x.call
  /\ [it |-> x.it, call |-> x.call, status |-> "started"] \in lifecycle

IsTrade(x) == Tools[x.call.name].effect = "trade"

\* The calls in hand
HasBatch ==
  run.phase \in {"assistant", "plan", "begin", "dispatched", "result", "tool"} =>
    /\ Len(run.batch) \in Nat /\ DOMAIN run.batch = 1..Len(run.batch)
    /\ run.now \in 1..Len(run.batch)

TurnStored ==
  run.phase \in {"plan", "begin", "dispatched", "result", "tool"} => HasTurn(run.iteration, run.batch)

TradeNoted ==
  (\E x \in executing \cup effects : IsTrade(x)) =>
    \/ run.side
    \/ run.phase \in {"dispatched", "result"} /\ Tools[Current.name].effect = "trade"

Settled == run.side \/ run.phase \notin {"request", "attempt"} => run.index = run.provider

AsksSettled == \A a \in asks : a.after => run.side /\ a.provider = run.provider

LoopInv ==
  /\ run = [f \in LoopFields |-> run[f]]
  /\ HasBatch /\ TurnStored /\ TradeNoted /\ Settled /\ AsksSettled

RowInv ==
  IF row.status = "none" THEN run = Idle /\ asks = {} /\ executing = {} /\ effects = {}
  ELSE row = [f \in RowFields |-> row[f]]

AgentInv ==
  /\ \E S : transcript \in Seq(S)
  /\ RowInv
  /\ run.phase # "idle" => row.status # "none" /\ LoopInv
  /\ \A x \in executing \cup effects : OnRecord(x)
  /\ NoFallbackAfterEffect

\* The durable records only grow
Grows ==
  /\ transcript' = transcript \/ \E m : transcript' = Append(transcript, m)
  /\ lifecycle \subseteq lifecycle'

LEMMA TranscriptGrows ==
  ASSUME AgentInv, Grows
  PROVE  /\ \E S : transcript' \in Seq(S)
         /\ DOMAIN transcript \subseteq DOMAIN transcript'
         /\ \A n \in DOMAIN transcript : transcript'[n] = transcript[n]
<1>1. PICK S : transcript \in Seq(S)
  BY DEF AgentInv
<1>2. CASE transcript' = transcript
  BY <1>1, <1>2
<1>3. CASE \E m : transcript' = Append(transcript, m)
  <2>1. PICK m : transcript' = Append(transcript, m)
    BY <1>3
  <2> DEFINE T == S \cup {m}
  <2>2. transcript \in Seq(T) /\ m \in T
    BY <1>1
  <2> HIDE DEF T
  <2>3. Append(transcript, m) \in Seq(T)
    BY <2>2
  <2>4. /\ DOMAIN transcript = 1..Len(transcript) /\ Len(transcript) \in Nat
        /\ DOMAIN Append(transcript, m) = 1..(Len(transcript) + 1)
        /\ \A n \in 1..Len(transcript) : Append(transcript, m)[n] = transcript[n]
    BY <2>2
  <2> QED BY <2>1, <2>3, <2>4
<1> QED BY <1>2, <1>3 DEF Grows

LEMMA RecordsStay ==
  ASSUME AgentInv, Grows
  PROVE  /\ \A it, calls : HasTurn(it, calls) => HasTurn(it, calls)'
         /\ \A x : OnRecord(x) => OnRecord(x)'
<1>1. /\ DOMAIN transcript \subseteq DOMAIN transcript'
      /\ \A n \in DOMAIN transcript : transcript'[n] = transcript[n]
  BY TranscriptGrows
<1>2. ASSUME NEW it, NEW calls, HasTurn(it, calls) PROVE HasTurn(it, calls)'
  BY <1>1, <1>2 DEF HasTurn
<1>3. ASSUME NEW x, OnRecord(x) PROVE OnRecord(x)'
  BY <1>1, <1>3 DEF OnRecord, Grows
<1> QED BY <1>2, <1>3

\* emit keeps the row's status.
LEMMA EmittedIs ==
  ASSUME NEW r, r = [f \in RowFields |-> r[f]], NEW n
  PROVE  /\ Emitted(r, n) = [f \in RowFields |-> Emitted(r, n)[f]]
         /\ Emitted(r, n).status = r.status
  BY DEF Emitted, RowFields

LEMMA EndedRow ==
  ASSUME AgentInv, run.phase # "idle", NEW status \in {"failed", "completed"}, End(status)
  PROVE  row' = [f \in RowFields |-> row'[f]] /\ row'.status # "none"
<1> DEFINE e == Emitted(row, 1)
           st == EndStatus(status)
<1>1. row' = [e EXCEPT !.status = st] /\ st # "none"
  BY DEF End, EndStatus
<1>2. e = [f \in RowFields |-> e[f]]
  <2>1. row = [f \in RowFields |-> row[f]]
    BY DEF AgentInv, RowInv
  <2> QED BY <2>1, EmittedIs
<1> HIDE DEF e, st
<1> QED BY <1>1, <1>2 DEF RowFields

\* A step that ends the run keeps the invariant.
LEMMA EndKeeps ==
  ASSUME AgentInv, run.phase # "idle", NEW status \in {"failed", "completed"}, End(status),
         Grows, UNCHANGED <<executing, effects, asks>>
  PROVE  AgentInv'
<1>1. run' = Idle /\ run'.phase = "idle"
  BY DEF End, Idle
<1>2. row' = [f \in RowFields |-> row'[f]] /\ row'.status # "none"
  BY EndedRow
<1>3. \A x \in executing' \cup effects' : OnRecord(x)'
  BY RecordsStay DEF AgentInv
<1>4. NoFallbackAfterEffect'
  BY DEF AgentInv, NoFallbackAfterEffect
<1> QED BY <1>1, <1>2, <1>3, <1>4, TranscriptGrows DEF AgentInv, RowInv

\* So does one that goes on within the loop's own invariant.
LEMMA LoopKeeps ==
  ASSUME AgentInv, run.phase # "idle", LoopInv', row' = row \/ row' = Emitted(row, 1),
         Grows, \A x \in executing' \cup effects' : OnRecord(x)', NoFallbackAfterEffect'
  PROVE  AgentInv'
<1>1. row = [f \in RowFields |-> row[f]] /\ row.status # "none"
  BY DEF AgentInv, RowInv
<1>2. row' = [f \in RowFields |-> row'[f]] /\ row'.status # "none"
  <2>1. CASE row' = row
    BY <1>1, <2>1
  <2>2. CASE row' = Emitted(row, 1)
    <3> DEFINE r == Emitted(row, 1)
    <3>1. r = [f \in RowFields |-> r[f]] /\ r.status = row.status
      BY <1>1, EmittedIs
    <3>2. row' = r
      BY <2>2
    <3> HIDE DEF r
    <3> QED BY <1>1, <3>1, <3>2
  <2> QED BY <2>1, <2>2
<1> QED BY <1>2, TranscriptGrows DEF AgentInv, RowInv

\* A step that leaves the records of executions and asks alone, and the loop going,
\* has only the loop's own fields to answer for.
LEMMA QuietKeeps ==
  ASSUME AgentInv, run.phase # "idle", Grows, UNCHANGED <<executing, effects, asks>>,
         row' = row \/ row' = Emitted(row, 1),
         run' = [f \in LoopFields |-> run'[f]], HasBatch', TurnStored', Settled',
         run'.side = run.side, run'.provider = run.provider \/ ~run.side,
         \/ run.phase \notin {"dispatched", "result"}
         \/ run'.phase \in {"dispatched", "result"} /\ run'.batch = run.batch /\ run'.now = run.now
  PROVE  AgentInv'
<1>1. TradeNoted /\ AsksSettled /\ \A x \in executing \cup effects : OnRecord(x)
  BY DEF AgentInv, LoopInv
<1>2. TradeNoted'
  BY <1>1 DEF TradeNoted, Current, IsTrade
<1>3. AsksSettled'
  BY <1>1 DEF AsksSettled
<1>4. \A x \in executing' \cup effects' : OnRecord(x)'
  BY <1>1, RecordsStay
<1>5. NoFallbackAfterEffect'
  BY DEF AgentInv, NoFallbackAfterEffect
<1> QED BY <1>2, <1>3, <1>4, <1>5, LoopKeeps DEF LoopInv

LEMMA SubmitKeeps == ASSUME AgentInv, Submit PROVE AgentInv'
<1>1. asks = {} /\ executing = {} /\ effects = {}
  BY DEF AgentInv, RowInv, Submit
<1>2. row' = [f \in RowFields |-> row'[f]] /\ row'.status # "none"
  BY DEF Submit, RowFields
<1>3. /\ run' = [f \in LoopFields |-> run'[f]]
      /\ run'.phase = "iterate" /\ run'.index = 1 /\ run'.provider = 1
  BY DEF Submit, LoopFields
<1>4. UNCHANGED <<transcript, lifecycle, executing, effects, asks>>
  BY DEF Submit
<1>5. LoopInv'
  BY <1>1, <1>3, <1>4 DEF LoopInv, HasBatch, TurnStored, TradeNoted, Settled, AsksSettled
<1>6. NoFallbackAfterEffect'
  BY <1>1, <1>4 DEF NoFallbackAfterEffect
<1>7. (\E S : transcript \in Seq(S)) => \E S : transcript' \in Seq(S)
  BY <1>4
<1> QED BY <1>1, <1>2, <1>4, <1>5, <1>6, <1>7 DEF AgentInv, RowInv

LEMMA IterateKeeps == ASSUME AgentInv, Iterate PROVE AgentInv'
<1>1. Grows /\ UNCHANGED <<executing, effects, asks>> /\ run.phase = "iterate"
  BY DEF Iterate, Grows
<1>2. CASE End("failed")
  BY <1>1, <1>2, EndKeeps
<1>3. CASE run' = [run EXCEPT !.phase = "request", !.index = run.provider] /\ row' = Emitted(row, 1)
  <2>1. run = [f \in LoopFields |-> run[f]]
    BY <1>1 DEF AgentInv, LoopInv
  <2>2. /\ run' = [f \in LoopFields |-> run'[f]] /\ run'.phase = "request"
        /\ run'.index = run.provider /\ run'.provider = run.provider /\ run'.side = run.side
    BY <1>3, <2>1 DEF LoopFields
  <2>3. HasBatch' /\ TurnStored' /\ Settled'
    BY <2>2 DEF HasBatch, TurnStored, Settled
  <2> QED BY <1>1, <1>3, <2>2, <2>3, QuietKeeps
<1> QED BY <1>2, <1>3 DEF Iterate

\* After a provider failed: the run ends, or the next is asked and nothing was traded.
LEMMA FailKeeps ==
  ASSUME AgentInv, run.phase \in {"request", "attempt"}, FailProvider,
         Grows, UNCHANGED <<executing, effects, asks>>
  PROVE  AgentInv'
<1>1. CASE End("failed")
  BY <1>1, EndKeeps
<1>2. CASE /\ ~run.side /\ row' = Emitted(row, 1)
           /\ run' = [run EXCEPT !.phase = "request", !.index = @ + 1]
  <2>1. run = [f \in LoopFields |-> run[f]]
    BY DEF AgentInv, LoopInv
  <2>2. /\ run' = [f \in LoopFields |-> run'[f]] /\ run'.phase = "request" /\ run'.side = run.side
    BY <1>2, <2>1 DEF LoopFields
  <2>3. HasBatch' /\ TurnStored' /\ Settled'
    BY <1>2, <2>2 DEF HasBatch, TurnStored, Settled
  <2> QED BY <1>2, <2>2, <2>3, QuietKeeps
<1> QED BY <1>1, <1>2 DEF FailProvider

\* A provider is asked: after a trade, the one settled on.
LEMMA RequestKeeps == ASSUME AgentInv, Request PROVE AgentInv'
<1> DEFINE ask == [provider |-> run.index, after |-> TradeDone]
<1>1. /\ run.phase = "request" /\ asks' = asks \cup {ask}
      /\ UNCHANGED <<transcript, lifecycle, executing, effects>>
  BY DEF Request
<1>2. /\ run = [f \in LoopFields |-> run[f]]
      /\ TradeNoted /\ Settled /\ AsksSettled /\ \A x \in executing \cup effects : OnRecord(x)
  BY <1>1 DEF AgentInv, LoopInv
<1>3. ask.after => run.side /\ ask.provider = run.provider
  <2>1. TradeDone => run.side
    BY <1>1, <1>2 DEF TradeNoted, TradeDone, IsTrade
  <2>2. run.side => run.index = run.provider
    BY <1>2 DEF Settled
  <2> QED BY <2>1, <2>2
<1> HIDE DEF ask
<1>4. \A a \in asks' : a.after => run.side /\ a.provider = run.provider
  BY <1>1, <1>2, <1>3 DEF AsksSettled
<1>5. NoFallbackAfterEffect'
  BY <1>4 DEF NoFallbackAfterEffect
<1>6. Grows /\ \A x \in executing' \cup effects' : OnRecord(x)'
  <2>1. Grows
    BY <1>1 DEF Grows
  <2> QED BY <1>1, <1>2, <2>1, RecordsStay
<1>7. ASSUME run' = [f \in LoopFields |-> run'[f]], run'.phase \in {"request", "attempt"},
             run'.side = run.side, run'.provider = run.provider,
             run.side => run'.index = run'.provider, row' = Emitted(row, 1)
      PROVE  AgentInv'
  <2>1. HasBatch' /\ TurnStored' /\ Settled' /\ AsksSettled'
    BY <1>4, <1>7 DEF HasBatch, TurnStored, Settled, AsksSettled
  <2>2. TradeNoted'
    BY <1>1, <1>2, <1>7 DEF TradeNoted, IsTrade
  <2> QED BY <1>1, <1>5, <1>6, <1>7, <2>1, <2>2, LoopKeeps DEF LoopInv
<1>8. CASE End("failed")
  <2>1. run' = Idle /\ run'.phase = "idle"
    BY <1>8 DEF End, Idle
  <2>2. row' = [f \in RowFields |-> row'[f]] /\ row'.status # "none"
    BY <1>1, <1>8, EndedRow
  <2> QED BY <1>5, <1>6, <2>1, <2>2, TranscriptGrows DEF AgentInv, RowInv
<1>9. CASE /\ ~run.side /\ row' = Emitted(row, 1)
           /\ run' = [run EXCEPT !.phase = "request", !.index = @ + 1]
  BY <1>2, <1>7, <1>9 DEF LoopFields
<1>10. ASSUME NEW walk, run' = [run EXCEPT !.phase = "attempt", !.walk = walk], row' = Emitted(row, 1)
       PROVE  AgentInv'
  <2>1. run.side => run.index = run.provider
    BY <1>2 DEF Settled
  <2> QED BY <1>2, <1>7, <1>10, <2>1 DEF LoopFields
<1> QED BY <1>8, <1>9, <1>10 DEF Request, FailProvider

\* What the runtime sees of a reply is a sequence.
LEMMA ParsedIs ==
  ASSUME NEW reply \in Replies
  PROVE  /\ Len(Parsed(reply)) \in Nat /\ DOMAIN Parsed(reply) = 1..Len(Parsed(reply))
         /\ Parsed(reply) # <<>> => 1 \in 1..Len(Parsed(reply))
<1> DEFINE m == Len(reply.calls)
           p == Parsed(reply)
           T == {p[n] : n \in 1..m}
<1>1. m \in Nat /\ DOMAIN reply.calls = 1..m
  BY RepliesAssumption
<1> HIDE DEF m
<1>2. DOMAIN p = 1..m /\ p = [n \in 1..m |-> p[n]]
  BY <1>1 DEF Parsed
<1> HIDE DEF p
<1>3. p \in [1..m -> T]
  BY <1>2
<1> HIDE DEF T
<1>4. p \in Seq(T) /\ Len(p) = m
  BY <1>1, <1>3
<1>5. p # <<>> => m # 0
  BY <1>4
<1> QED BY <1>1, <1>2, <1>4, <1>5 DEF p

\* A response ends the run, or a batch is taken from the provider that gave it.
LEMMA AttemptKeeps == ASSUME AgentInv, NEW reply \in Replies, Attempt(reply) PROVE AgentInv'
<1>1. /\ run.phase = "attempt" /\ UNCHANGED <<lifecycle, executing, effects, asks>>
  BY DEF Attempt
<1>2. run = [f \in LoopFields |-> run[f]] /\ Settled /\ AsksSettled
  BY <1>1 DEF AgentInv, LoopInv
<1>3. CASE Outcome(reply) = "ok"
  <2> DEFINE calls == Parsed(reply)
  <2>1. Respond(calls)
    BY <1>3 DEF Attempt
  <2>2. /\ Len(calls) \in Nat /\ DOMAIN calls = 1..Len(calls)
        /\ calls # <<>> => 1 \in 1..Len(calls)
    BY ParsedIs
  <2> HIDE DEF calls
  <2>3. Grows
    BY <1>1, <2>1 DEF Respond, Grows
  <2>4. CASE \E status \in {"failed", "completed"} : End(status)
    BY <1>1, <2>3, <2>4, EndKeeps
  <2>5. CASE /\ calls # <<>> /\ row' = Emitted(row, 1)
             /\ run' = [run EXCEPT !.phase = "assistant", !.provider = run.index,
                                   !.batch = calls, !.now = 1]
    <3>1. /\ run' = [f \in LoopFields |-> run'[f]] /\ run'.phase = "assistant"
          /\ run'.provider = run.index /\ run'.index = run.index /\ run'.side = run.side
          /\ run'.batch = calls /\ run'.now = 1
      BY <1>2, <2>5 DEF LoopFields
    <3>2. HasBatch'
      BY <2>2, <2>5, <3>1 DEF HasBatch
    <3>3. TurnStored' /\ Settled'
      BY <3>1 DEF TurnStored, Settled
    <3>4. run'.provider = run.provider \/ ~run.side
      BY <1>2, <3>1 DEF Settled
    <3> QED BY <1>1, <2>3, <2>5, <3>1, <3>2, <3>3, <3>4, QuietKeeps
  <2> QED BY <2>1, <2>4, <2>5 DEF Respond
<1>4. CASE Outcome(reply) # "ok"
  <2>1. UNCHANGED transcript /\ Grows
    BY <1>1, <1>4 DEF Attempt, Grows
  <2>2. CASE FailProvider
    BY <1>1, <2>1, <2>2, FailKeeps
  <2>3. ASSUME NEW after, run' = [run EXCEPT !.walk = after], UNCHANGED row PROVE AgentInv'
    <3>1. /\ run' = [f \in LoopFields |-> run'[f]] /\ run'.phase = run.phase
          /\ run'.provider = run.provider /\ run'.index = run.index /\ run'.side = run.side
      BY <1>2, <2>3 DEF LoopFields
    <3>2. HasBatch' /\ TurnStored' /\ Settled'
      BY <1>1, <1>2, <3>1 DEF HasBatch, TurnStored, Settled
    <3> QED BY <1>1, <2>1, <2>3, <3>1, <3>2, QuietKeeps
  <2> QED BY <1>4, <2>2, <2>3 DEF Attempt
<1> QED BY <1>3, <1>4

\* The turn is stored before the first of its calls is looked at.
LEMMA StoreAssistantKeeps ==
  ASSUME AgentInv, NEW stored \in BOOLEAN, StoreAssistant(stored) PROVE AgentInv'
<1>1. run.phase = "assistant" /\ UNCHANGED <<lifecycle, executing, effects, asks>>
  BY DEF StoreAssistant
<1>2. run = [f \in LoopFields |-> run[f]] /\ Settled /\ HasBatch
  BY <1>1 DEF AgentInv, LoopInv
<1>3. CASE End("failed") /\ UNCHANGED transcript
  BY <1>1, <1>3, EndKeeps DEF Grows
<1> DEFINE turn == [role |-> "assistant", it |-> run.iteration, calls |-> run.batch]
<1>4. ASSUME transcript' = Append(transcript, turn), UNCHANGED row,
             NEW log, run' = [run EXCEPT !.phase = "plan", !.messages = log]
      PROVE  AgentInv'
  <2>1. Grows
    BY <1>1, <1>4 DEF Grows
  <2>2. /\ run' = [f \in LoopFields |-> run'[f]] /\ run'.phase = "plan"
        /\ run'.provider = run.provider /\ run'.index = run.index /\ run'.side = run.side
        /\ run'.batch = run.batch /\ run'.now = run.now /\ run'.iteration = run.iteration
    BY <1>2, <1>4 DEF LoopFields
  <2>3. TurnStored'
    <3>1. PICK S : transcript \in Seq(S)
      BY DEF AgentInv
    <3>2. transcript \in Seq(S \cup {turn})
      BY <3>1
    <3> HIDE DEF turn
    <3>3. \E n \in DOMAIN transcript' : transcript'[n] = turn
      BY <1>4, <3>2
    <3> QED BY <2>2, <3>3 DEF TurnStored, HasTurn, turn
  <2>4. HasBatch' /\ Settled'
    BY <1>1, <1>2, <2>2 DEF HasBatch, Settled
  <2> QED BY <1>1, <1>4, <2>1, <2>2, <2>3, <2>4, QuietKeeps
<1> QED BY <1>3, <1>4 DEF StoreAssistant

\* Within a batch the loop's phase and counters move, and records are added.
LEMMA BatchKeeps ==
  ASSUME AgentInv, run.phase \in {"plan", "begin", "dispatched", "result"},
         run' = [f \in LoopFields |-> run'[f]],
         run'.phase \in {"plan", "begin", "dispatched", "result"},
         run.phase \in {"dispatched", "result"} => run'.phase \in {"dispatched", "result"},
         run'.provider = run.provider, run'.index = run.index, run'.side = run.side,
         run'.batch = run.batch, run'.now = run.now, run'.iteration = run.iteration,
         Grows, UNCHANGED <<executing, effects, asks>>, row' = row \/ row' = Emitted(row, 1)
  PROVE  AgentInv'
<1>1. HasBatch /\ TurnStored /\ Settled
  BY DEF AgentInv, LoopInv
<1>2. HasBatch' /\ Settled'
  BY <1>1 DEF HasBatch, Settled
<1>3. TurnStored'
  <2>1. HasTurn(run.iteration, run.batch)
    BY <1>1 DEF TurnStored
  <2>2. PICK it, calls : it = run.iteration /\ calls = run.batch
    OBVIOUS
  <2>3. HasTurn(it, calls)'
    BY <2>1, <2>2, RecordsStay
  <2> QED BY <2>2, <2>3 DEF TurnStored, HasTurn
<1> QED BY <1>2, <1>3, QuietKeeps

LEMMA PlanKeeps == ASSUME AgentInv, NEW stored \in BOOLEAN, Plan(stored) PROVE AgentInv'
<1>1. run.phase = "plan" /\ UNCHANGED <<transcript, executing, effects, asks>>
  BY DEF Plan
<1>2. Grows
  BY DEF Plan, Recorded, Grows
<1>3. CASE End("failed")
  BY <1>1, <1>2, <1>3, EndKeeps
<1>4. CASE /\ row' = Emitted(row, 1)
           /\ run' = [run EXCEPT !.phase = "begin", !.repeated[Current.name] = @ + 1]
  <2>1. run = [f \in LoopFields |-> run[f]]
    BY <1>1 DEF AgentInv, LoopInv
  <2>2. /\ run' = [f \in LoopFields |-> run'[f]] /\ run'.phase = "begin"
        /\ run'.provider = run.provider /\ run'.index = run.index /\ run'.side = run.side
        /\ run'.batch = run.batch /\ run'.now = run.now /\ run'.iteration = run.iteration
    BY <1>4, <2>1 DEF LoopFields
  <2> QED BY <1>1, <1>2, <1>4, <2>2, BatchKeeps
<1> QED BY <1>3, <1>4 DEF Plan

\* A call is dispatched with its "started" record and its turn in store.
LEMMA BeginKeeps == ASSUME AgentInv, NEW stored \in BOOLEAN, Begin(stored) PROVE AgentInv'
<1>1. run.phase = "begin" /\ UNCHANGED <<transcript, effects, asks>>
  BY DEF Begin
<1>2. Grows
  BY DEF Begin, Recorded, Grows
<1>3. CASE End("failed") /\ UNCHANGED executing
  BY <1>1, <1>2, <1>3, EndKeeps
<1>4. /\ run = [f \in LoopFields |-> run[f]]
      /\ HasBatch /\ TurnStored /\ Settled /\ TradeNoted /\ AsksSettled
      /\ \A x \in executing \cup effects : OnRecord(x)
  BY <1>1 DEF AgentInv, LoopInv
<1>5. CASE Rejected /\ run' = [run EXCEPT !.phase = "result"] /\ UNCHANGED <<executing, row>>
  <2>1. /\ run' = [f \in LoopFields |-> run'[f]] /\ run'.phase = "result"
        /\ run'.provider = run.provider /\ run'.index = run.index /\ run'.side = run.side
        /\ run'.batch = run.batch /\ run'.now = run.now /\ run'.iteration = run.iteration
    BY <1>4, <1>5 DEF LoopFields
  <2> QED BY <1>1, <1>2, <1>5, <2>1, BatchKeeps
<1>6. CASE /\ run' = [run EXCEPT !.phase = "dispatched"] /\ executing' = executing \cup {This}
           /\ UNCHANGED row /\ Recorded("started")
  <2>1. /\ run' = [f \in LoopFields |-> run'[f]] /\ run'.phase = "dispatched"
        /\ run'.provider = run.provider /\ run'.index = run.index /\ run'.side = run.side
        /\ run'.batch = run.batch /\ run'.now = run.now /\ run'.iteration = run.iteration
    BY <1>4, <1>6 DEF LoopFields
  <2>2. PICK x : x = This
    OBVIOUS
  <2>3. x.it = run.iteration /\ x.call = Current /\ executing' = executing \cup {x}
    BY <1>6, <2>2 DEF This
  <2>4. OnRecord(x)'
    <3>1. [it |-> x.it, call |-> x.call, status |-> "started"] \in lifecycle'
      BY <1>6, <2>3 DEF Recorded
    <3>2. HasTurn(run.iteration, run.batch) /\ run.now \in DOMAIN run.batch
      BY <1>1, <1>4 DEF TurnStored, HasBatch
    <3>3. PICK n \in DOMAIN transcript :
            transcript[n] = [role |-> "assistant", it |-> run.iteration, calls |-> run.batch]
      BY <3>2 DEF HasTurn
    <3>4. /\ transcript[n].role = "assistant" /\ transcript[n].it = x.it
          /\ \E k \in DOMAIN transcript[n].calls : transcript[n].calls[k] = x.call
      BY <2>3, <3>2, <3>3 DEF Current
    <3> QED BY <1>1, <3>1, <3>4 DEF OnRecord
  <2>5. \A y \in executing' \cup effects' : OnRecord(y)'
    BY <1>1, <1>2, <1>4, <2>3, <2>4, RecordsStay
  <2>6. TradeNoted'
    <3>1. Current' = Current
      BY <2>1 DEF Current
    <3>2. ASSUME NEW y \in executing' \cup effects', IsTrade(y)
          PROVE  run.side \/ Tools[Current.name].effect = "trade"
      BY <1>1, <1>4, <2>3, <3>2 DEF TradeNoted, IsTrade
    <3> QED BY <2>1, <3>1, <3>2 DEF TradeNoted, IsTrade
  <2>7. HasBatch' /\ Settled' /\ AsksSettled' /\ TurnStored'
    BY <1>1, <1>4, <2>1 DEF HasBatch, Settled, AsksSettled, TurnStored, HasTurn
  <2>8. NoFallbackAfterEffect'
    BY <1>1 DEF AgentInv, NoFallbackAfterEffect
  <2> QED BY <1>1, <1>2, <1>6, <2>1, <2>5, <2>6, <2>7, <2>8, LoopKeeps DEF LoopInv
<1> QED BY <1>3, <1>5, <1>6 DEF Begin

\* A tool that acts or returns, with or without somebody waiting.
LEMMA ToolKeeps ==
  ASSUME AgentInv, NEW x \in executing, TakeEffect(x) \/ ToolReturns(x) PROVE AgentInv'
<1>1. /\ UNCHANGED <<row, transcript, lifecycle, asks>>
      /\ executing' \cup effects' \subseteq executing \cup effects
  BY DEF TakeEffect, ToolReturns
<1>2. \/ run' = run
      \/ run.phase = "dispatched" /\ run' = [run EXCEPT !.phase = "result"]
  <2>1. CASE TakeEffect(x)
    BY <2>1 DEF TakeEffect
  <2>2. CASE ToolReturns(x)
    BY <2>2, Zenon DEF ToolReturns
  <2> QED BY <2>1, <2>2
<1>3. row.status # "none"
  BY DEF AgentInv, RowInv
<1>4. \A y \in executing' \cup effects' : OnRecord(y)'
  BY <1>1 DEF AgentInv, OnRecord
<1>5. NoFallbackAfterEffect'
  BY <1>1 DEF AgentInv, NoFallbackAfterEffect
<1>6. Grows
  BY <1>1 DEF Grows
<1>7. CASE run.phase = "idle"
  <2>1. run' = run
    BY <1>2, <1>7
  <2> QED BY <1>1, <1>3, <1>4, <1>5, <1>7, <2>1 DEF AgentInv, RowInv
<1>8. CASE run.phase # "idle"
  <2>1. /\ run = [f \in LoopFields |-> run[f]]
        /\ HasBatch /\ TurnStored /\ Settled /\ TradeNoted /\ AsksSettled
    BY <1>8 DEF AgentInv, LoopInv
  <2>2. /\ run' = [f \in LoopFields |-> run'[f]]
        /\ \/ run'.phase = run.phase
           \/ run.phase = "dispatched" /\ run'.phase = "result"
        /\ run'.provider = run.provider /\ run'.index = run.index /\ run'.side = run.side
        /\ run'.batch = run.batch /\ run'.now = run.now /\ run'.iteration = run.iteration
    BY <1>2, <2>1 DEF LoopFields
  <2>3. HasBatch' /\ Settled' /\ AsksSettled'
    BY <1>1, <2>1, <2>2 DEF HasBatch, Settled, AsksSettled
  <2>4. TurnStored'
    BY <1>1, <2>1, <2>2 DEF TurnStored, HasTurn
  <2>5. TradeNoted'
    BY <1>1, <2>1, <2>2 DEF TradeNoted, IsTrade, Current
  <2> QED BY <1>1, <1>4, <1>5, <1>6, <1>8, <2>2, <2>3, <2>4, <2>5, LoopKeeps DEF LoopInv
<1> QED BY <1>7, <1>8

LEMMA ToolTimeoutKeeps == ASSUME AgentInv, ToolTimeout PROVE AgentInv'
<1>1. /\ run.phase = "dispatched" /\ run' = [run EXCEPT !.phase = "result"]
      /\ UNCHANGED <<row, transcript, lifecycle, executing, effects, asks>>
  BY DEF ToolTimeout
<1>2. run = [f \in LoopFields |-> run[f]]
  BY <1>1 DEF AgentInv, LoopInv
<1>3. /\ run' = [f \in LoopFields |-> run'[f]] /\ run'.phase = "result"
      /\ run'.provider = run.provider /\ run'.index = run.index /\ run'.side = run.side
      /\ run'.batch = run.batch /\ run'.now = run.now /\ run'.iteration = run.iteration
  BY <1>1, <1>2 DEF LoopFields
<1>4. Grows
  BY <1>1 DEF Grows
<1> QED BY <1>1, <1>3, <1>4, BatchKeeps

\* The answer to a call that trades sets `side` before the loop goes on.
LEMMA TakeResultKeeps == ASSUME AgentInv, NEW stored \in BOOLEAN, TakeResult(stored) PROVE AgentInv'
<1>1. run.phase = "result" /\ UNCHANGED <<transcript, executing, effects, asks>>
  BY DEF TakeResult
<1>2. Grows
  BY DEF TakeResult, Recorded, Grows
<1>3. CASE End("failed")
  BY <1>1, <1>2, <1>3, EndKeeps
<1>4. CASE /\ UNCHANGED row
           /\ run' = [run EXCEPT !.phase = "tool", !.count = @ + 1,
                        !.side = @ \/ Tools[Current.name].effect = "trade"]
  <2>1. /\ run = [f \in LoopFields |-> run[f]]
        /\ HasBatch /\ TurnStored /\ Settled /\ TradeNoted /\ AsksSettled
        /\ \A x \in executing \cup effects : OnRecord(x)
    BY <1>1 DEF AgentInv, LoopInv
  <2>2. /\ run' = [f \in LoopFields |-> run'[f]] /\ run'.phase = "tool"
        /\ run'.provider = run.provider /\ run'.index = run.index
        /\ run'.batch = run.batch /\ run'.now = run.now /\ run'.iteration = run.iteration
    BY <1>4, <2>1 DEF LoopFields
  <2>3. run'.side = (run.side \/ Tools[Current.name].effect = "trade")
    BY <1>4, <2>1 DEF LoopFields
  <2>4. HasBatch' /\ Settled' /\ AsksSettled'
    BY <1>1, <2>1, <2>2, <2>3 DEF HasBatch, Settled, AsksSettled
  <2>5. TurnStored'
    BY <1>1, <2>1, <2>2 DEF TurnStored, HasTurn
  <2>6. TradeNoted'
    BY <1>1, <2>1, <2>2, <2>3 DEF TradeNoted, IsTrade
  <2>7. NoFallbackAfterEffect' /\ \A x \in executing' \cup effects' : OnRecord(x)'
    BY <1>1, <1>2, <2>1, RecordsStay DEF AgentInv, NoFallbackAfterEffect
  <2> QED BY <1>1, <1>2, <1>4, <2>2, <2>4, <2>5, <2>6, <2>7, LoopKeeps DEF LoopInv
<1> QED BY <1>3, <1>4 DEF TakeResult

LEMMA StoreResultKeeps == ASSUME AgentInv, NEW stored \in BOOLEAN, StoreResult(stored) PROVE AgentInv'
<1>1. run.phase = "tool" /\ UNCHANGED <<executing, effects, asks>>
  BY DEF StoreResult
<1>2. Grows
  BY DEF StoreResult, Recorded, Grows
<1>3. CASE End("failed")
  BY <1>1, <1>2, <1>3, EndKeeps
<1>4. ASSUME NEW log,
             run' = [run EXCEPT !.messages = log,
                       !.phase = IF run.now < Len(run.batch) THEN "plan" ELSE "iterate",
                       !.now = IF run.now < Len(run.batch) THEN @ + 1 ELSE @,
                       !.iteration = IF run.now < Len(run.batch) THEN @ ELSE @ + 1],
             row' = Emitted(row, 1)
      PROVE  AgentInv'
  <2>1. /\ run = [f \in LoopFields |-> run[f]]
        /\ HasBatch /\ TurnStored /\ Settled
    BY <1>1 DEF AgentInv, LoopInv
  <2>2. /\ run' = [f \in LoopFields |-> run'[f]]
        /\ run'.provider = run.provider /\ run'.index = run.index /\ run'.side = run.side
        /\ run'.batch = run.batch
    BY <1>4, <2>1 DEF LoopFields
  <2>3. IF run.now < Len(run.batch)
        THEN run'.phase = "plan" /\ run'.now = run.now + 1 /\ run'.iteration = run.iteration
        ELSE run'.phase = "iterate"
    BY <1>4, <2>1 DEF LoopFields
  <2>4. HasBatch' /\ Settled'
    BY <1>1, <2>1, <2>2, <2>3 DEF HasBatch, Settled
  <2>5. TurnStored'
    <3>1. HasTurn(run.iteration, run.batch)
      BY <1>1, <2>1 DEF TurnStored
    <3>2. PICK it, calls : it = run.iteration /\ calls = run.batch
      OBVIOUS
    <3>3. HasTurn(it, calls)'
      BY <1>2, <3>1, <3>2, RecordsStay
    <3> QED BY <2>2, <2>3, <3>2, <3>3 DEF TurnStored, HasTurn
  <2> QED BY <1>1, <1>2, <1>4, <2>2, <2>4, <2>5, QuietKeeps
<1> QED BY <1>3, <1>4 DEF StoreResult

LEMMA AbortKeeps == ASSUME AgentInv, NEW why, Abort(why) PROVE AgentInv'
<1>1. /\ run.phase # "idle" /\ run' = [run EXCEPT !.aborted = why]
      /\ UNCHANGED <<row, transcript, lifecycle, executing, effects, asks>>
  BY DEF Abort
<1>2. /\ run = [f \in LoopFields |-> run[f]]
      /\ HasBatch /\ TurnStored /\ Settled /\ TradeNoted /\ AsksSettled
  BY <1>1 DEF AgentInv, LoopInv
<1>3. /\ run' = [f \in LoopFields |-> run'[f]] /\ run'.phase = run.phase
      /\ run'.provider = run.provider /\ run'.index = run.index /\ run'.side = run.side
      /\ run'.batch = run.batch /\ run'.now = run.now /\ run'.iteration = run.iteration
  BY <1>1, <1>2 DEF LoopFields
<1>4. HasBatch' /\ Settled' /\ TurnStored' /\ Grows
  BY <1>1, <1>2, <1>3 DEF HasBatch, Settled, TurnStored, HasTurn, Grows
<1> QED BY <1>1, <1>3, <1>4, QuietKeeps

LEMMA AgentStep ==
  ASSUME AgentInv, [AgentNext]_agentVars
  PROVE  AgentInv'
<1>1. ASSUME UNCHANGED <<run, row, transcript, lifecycle, executing, effects, asks>> PROVE AgentInv'
  BY <1>1 DEF AgentInv, RowInv, LoopInv, HasBatch, TurnStored, TradeNoted, Settled, AsksSettled,
              HasTurn, OnRecord, Current, NoFallbackAfterEffect
<1>2. ASSUME Aborted PROVE AgentInv'
  BY <1>2, EndKeeps DEF Aborted, Grows
<1>3. ASSUME AgentCrash PROVE AgentInv'
  <2>1. /\ run.phase # "idle" /\ run' = Idle /\ run'.phase = "idle"
        /\ UNCHANGED <<row, transcript, lifecycle, executing, effects, asks>>
    BY <1>3 DEF AgentCrash, Idle
  <2>2. \A x \in executing \cup effects : OnRecord(x)'
    BY <2>1 DEF AgentInv, OnRecord
  <2> QED BY <2>1, <2>2 DEF AgentInv, RowInv, NoFallbackAfterEffect
<1>4. ASSUME NEW p \in 1..Providers, NEW c \in blocked[p], Heal(p, c) PROVE AgentInv'
  BY <1>1, <1>4 DEF Heal
<1> QED
  BY <1>1, <1>2, <1>3, <1>4, SubmitKeeps, IterateKeeps, RequestKeeps, ToolTimeoutKeeps,
     AttemptKeeps, StoreAssistantKeeps, PlanKeeps, BeginKeeps, TakeResultKeeps, StoreResultKeeps,
     ToolKeeps, AbortKeeps
  DEF AgentNext, SubmitAgain, agentVars

LEMMA AgentInitially == AgentInit => AgentInv
<1> SUFFICES ASSUME AgentInit PROVE AgentInv
  OBVIOUS
<1>1. /\ run = Idle /\ run.phase = "idle" /\ row.status = "none" /\ transcript = <<>>
      /\ executing = {} /\ effects = {} /\ asks = {}
  BY DEF AgentInit, Idle, NoRow
<1>2. transcript \in Seq({})
  BY <1>1
<1> QED BY <1>1, <1>2 DEF AgentInv, RowInv, NoFallbackAfterEffect

\* For any tools, replies and budgets, any number of crashes and tools that act as late
\* as they like: what a tool did is on record as something it may have done.
THEOREM EffectsAlwaysRecorded == AgentSpec => []EffectsAreRecorded
<1>1. AgentInv => EffectsAreRecorded
  BY DEF AgentInv, OnRecord, EffectsAreRecorded
<1>2. AgentInv /\ [AgentNext]_agentVars => AgentInv'
  BY AgentStep
<1> QED BY <1>1, <1>2, AgentInitially, PTL DEF AgentSpec

\* For any number of providers: once a trade took effect, every provider asked is the
\* one the runtime had settled on.
THEOREM NeverFallsBackAfterEffect == AgentSpec => []NoFallbackAfterEffect
<1>1. AgentInv => NoFallbackAfterEffect
  BY DEF AgentInv
<1>2. AgentInv /\ [AgentNext]_agentVars => AgentInv'
  BY AgentStep
<1> QED BY <1>1, <1>2, AgentInitially, PTL DEF AgentSpec

-----------------------------------------------------------------------------
(* The execution gateway.  The evidence a transaction is judged by stays   *)
(* what the node answered for the slot it names, since the chain only      *)
(* grows; and what is on the wire passed the signer's policy.              *)

EvidenceFields == {"phase", "tx", "current", "height", "pre", "slot", "post"}
Evident == sim.phase \in {"fee", "assess", "simulated"}

ChainSound ==
  /\ \E S : chain \in Seq(S)
  /\ \A k \in 1..Len(chain) : Succeeds(chain[k])

\* What is known of the call of prepare, phase by phase
CallSound ==
  /\ sim.phase # "idle" => sim.tx \in Prepared
  /\ sim.phase \in {"genesis", "tables", "pre"} =>
       sim = [phase |-> sim.phase, tx |-> sim.tx, current |-> sim.current, height |-> sim.height]
  /\ sim.phase \in {"sign", "check", "broadcast"} => sim = [phase |-> sim.phase, tx |-> sim.tx]
  /\ Evident =>
       /\ sim = [f \in EvidenceFields |-> sim[f]]
       /\ sim.slot \in 1..Len(chain)
       /\ sim.post = [a \in sim.tx.writable |-> RunAll(chain[sim.slot], sim.tx.wire)[a]]
  /\ sim.phase = "simulated" =>
       TokenDeltas \subseteq Allowed /\ \A a \in sim.tx.writable : ~IdentityChanged(a)
  /\ sim.phase \in {"check", "broadcast"} => EvaluatePolicy(file.policy, sim.tx.wire, Wallet)

WireSound ==
  \A t \in onWire : t \in Prepared /\ EvaluatePolicy(file.policy, t.wire, Wallet)

SimInv == file \in PolicyFiles /\ ChainSound /\ CallSound /\ WireSound

\* The signer's caps bound what all the instructions take together.
LEMMA CapsBoundTaken ==
  ASSUME NEW f \in PolicyFiles, NEW t \in Prepared, EvaluatePolicy(f.policy, t.wire, Wallet)
  PROVE  Taken(t) <= MostTaken(f.policy)
<1> DEFINE All == DOMAIN t.wire.instructions
           spent == Spending(f.policy, t.wire, Native)
           out == [n \in All |-> LamportsOut(t, n)]
           read == [n \in spent |-> Amount(f.policy, t.wire, n)]
           cap == IF Native \in DOMAIN f.policy.caps THEN f.policy.caps[Native] ELSE 0
<1>1. IsFiniteSet(All) /\ cap \in Nat
  BY PreparedAssumption
<1>2. spent \subseteq All
  BY DEF Spending, WithEffect
<1>3. InstructionsAllowed(f.policy, t.wire) /\ CapsAllow(f.policy, t.wire)
  BY DEF EvaluatePolicy
<1>4. \A n \in All :
        /\ LamportsOut(t, n) \in Int /\ Amount(f.policy, t.wire, n) \in Int
        /\ LamportsOut(t, n) <= IF n \in spent THEN Amount(f.policy, t.wire, n) ELSE 0
  BY <1>3, RulesAssumption
<1>5. /\ Taken(t) = SumFunctionOnSet(out, All) + Fee(t.wire)
      /\ Spend(f.policy, t.wire, Native) = SumFunctionOnSet(read, spent)
  BY Zenon DEF Taken, Spend
<1>6. ASSUME spent = {} PROVE SumFunctionOnSet(out, All) \in Int /\ SumFunctionOnSet(out, All) <= cap
  <2>1. \A n \in All : out[n] \in Int /\ out[n] <= 0
    BY <1>4, <1>6
  <2> DEFINE none == {}
  <2>2. SumFunctionOnSet(out, All) <= SumFunctionOnSet(out, none)
    <3>1. none \in SUBSET All /\ \A n \in All \ none : out[n] <= 0
      BY <2>1
    <3> HIDE DEF none, out, All
    <3> QED BY <1>1, <2>1, <3>1, SumBeyond
  <2>3. SumFunctionOnSet(out, none) = 0
    BY SumEmpty
  <2>4. SumFunctionOnSet(out, All) \in Int
    BY <1>1, <2>1, SumType
  <2> HIDE DEF out, All, none, cap
  <2> QED BY <1>1, <2>2, <2>3, <2>4
<1>7. ASSUME spent # {} PROVE SumFunctionOnSet(out, All) \in Int /\ SumFunctionOnSet(out, All) <= cap
  <2>1. Spend(f.policy, t.wire, Native) <= cap
    <3>1. PICK n \in spent : TRUE
      BY <1>7
    <3>2. Native \in Assets(f.policy, t.wire)
      BY <3>1 DEF Spending, Assets
    <3> QED BY <1>3, <3>2 DEF CapsAllow
  <2>2. /\ \A n \in All : out[n] \in Int
        /\ \A n \in All \ spent : out[n] <= 0
        /\ \A n \in spent : out[n] \in Int /\ read[n] \in Int /\ out[n] <= read[n]
    BY <1>2, <1>4
  <2>3. IsFiniteSet(spent)
    BY <1>1, <1>2, FS_Subset
  <2> HIDE DEF out, read, All, spent, cap
  <2>4. SumFunctionOnSet(out, All) <= SumFunctionOnSet(out, spent)
    BY <1>1, <1>2, <2>2, SumBeyond
  <2>5. SumFunctionOnSet(out, spent) <= SumFunctionOnSet(read, spent)
    BY <2>2, <2>3, SumMonotone
  <2>6. /\ SumFunctionOnSet(out, All) \in Int /\ SumFunctionOnSet(out, spent) \in Int
        /\ SumFunctionOnSet(read, spent) \in Int
    BY <1>1, <2>2, <2>3, SumType
  <2> QED BY <1>1, <1>5, <2>1, <2>4, <2>5, <2>6
<1> DEFINE priority == AskedFee(t.wire)
           signatures == BaseFee * t.wire.required
           most == BaseFee * f.policy.maxSignatures
<1>8. priority <= f.policy.maxFee
  <2>1. /\ Asking(t.wire, SetUnitLimit) = Setting(f.policy, t.wire, SetUnitLimit)
        /\ Asking(t.wire, SetUnitPrice) = Setting(f.policy, t.wire, SetUnitPrice)
    BY <1>3, RulesAssumption
  <2>2. PriorityFee(f.policy, t.wire) <= f.policy.maxFee
    BY DEF EvaluatePolicy, FeesAllowed
  <2> QED BY <2>1, <2>2, Zenon DEF PriorityFee, AskedFee
<1>9. signatures \in Nat /\ most \in Nat /\ signatures <= most
  <2>1. /\ BaseFee \in Nat /\ t.wire.required \in Nat /\ f.policy.maxSignatures \in Nat
        /\ t.wire.required <= f.policy.maxSignatures
    BY PreparedAssumption DEF EvaluatePolicy, EnvelopeAllowed
  <2>2. \A x, y, z \in Nat : y <= z => x * y \in Nat /\ x * z \in Nat /\ x * y <= x * z
    OBVIOUS
  <2> QED BY <2>1, <2>2
<1>10. /\ Fee(t.wire) = signatures + priority /\ MostTaken(f.policy) = cap + f.policy.maxFee + most
       /\ f.policy.maxFee \in Nat /\ priority \in Int
  BY PreparedAssumption DEF Fee, MostTaken
<1> DEFINE sum == SumFunctionOnSet(out, All)
<1>11. sum \in Int /\ sum <= cap
  BY <1>6, <1>7
<1> HIDE DEF sum, cap, priority, signatures, most
<1> QED BY <1>1, <1>5, <1>8, <1>9, <1>10, <1>11 DEF sum

\* What is known makes what is sent safe.
LEMMA SimInvIsSafe == ASSUME SimInv PROVE SentIsSafe
<1>1. \A t \in onWire : Taken(t) <= MostTaken(file.policy)
  BY CapsBoundTaken DEF SimInv, WireSound
<1>2. ASSUME sim.phase = "simulated", SameState, NEW a \in sim.tx.writable,
             NEW before, before = chain[sim.slot][a],
             NEW after, after = RunAll(chain[sim.slot], sim.tx.wire)[a],
             NEW mint \in {before.mint, after.mint} \ (Allowed \cup {"none"}),
             Holding(after, mint) # Holding(before, mint)
      PROVE  ~IsToken(after)
  <2> SUFFICES ASSUME IsToken(after) PROVE FALSE
    OBVIOUS
  <2>1. /\ sim.slot \in 1..Len(chain) /\ sim.tx \in Prepared /\ TokenDeltas \subseteq Allowed
        /\ ~IdentityChanged(a) /\ sim.post[a] = after
    BY <1>2 DEF SimInv, CallSound, Evident
  <2>2. sim.pre[a] = before
    BY <1>2 DEF SameState
  <2>3. ~IsToken(before) => before.amount = 0
    <3>1. a \in Addresses
      BY <1>2, <2>1, PreparedAssumption
    <3> QED BY <1>2, <2>1, <3>1 DEF SimInv, ChainSound, Succeeds, IsToken
  <2>4. after.mint = mint
    BY <1>2, <2>1, <2>2 DEF IdentityChanged, IsToken
  <2>5. after.amount # (IF IsToken(before) THEN before.amount ELSE 0)
    BY <1>2, <2>1, <2>2, <2>3, <2>4 DEF Holding, IdentityChanged, IsToken
  <2>6. sim.post[a].mint \in TokenDeltas
    BY <2>1, <2>2, <2>5 DEF TokenDeltas
  <2> QED BY <1>2, <2>1, <2>4, <2>6
<1> QED BY <1>1, <1>2, Zenon DEF SentIsSafe

\* A call that is given up leaves nothing to know.
LEMMA RefusedKeeps ==
  ASSUME SimInv, Refused, UNCHANGED <<chain, file>>, WireSound'
  PROVE  SimInv'
<1>1. sim'.phase = "idle"
  BY DEF Refused, Idling
<1> QED BY <1>1 DEF SimInv, ChainSound, CallSound, Evident

\* A call that goes on with the evidence it has.
LEMMA GoingKeeps ==
  ASSUME SimInv, sim.phase \in {"fee", "assess"}, NEW phase \in {"assess", "simulated"},
         Going(phase), UNCHANGED <<chain, file>>, WireSound',
         phase = "simulated" =>
           TokenDeltas \subseteq Allowed /\ \A a \in sim.tx.writable : ~IdentityChanged(a)
  PROVE  SimInv'
<1>1. /\ sim = [f \in EvidenceFields |-> sim[f]] /\ sim.tx \in Prepared
      /\ sim.slot \in 1..Len(chain)
      /\ sim.post = [a \in sim.tx.writable |-> RunAll(chain[sim.slot], sim.tx.wire)[a]]
  BY DEF SimInv, CallSound, Evident
<1>2. /\ sim' = [f \in EvidenceFields |-> sim'[f]] /\ sim'.phase = phase
      /\ sim'.tx = sim.tx /\ sim'.slot = sim.slot /\ sim'.pre = sim.pre /\ sim'.post = sim.post
  BY <1>1 DEF Going, EvidenceFields
<1>3. TokenDeltas' = TokenDeltas /\ \A a : IdentityChanged(a)' <=> IdentityChanged(a)
  BY <1>2 DEF TokenDeltas, IdentityChanged
<1>4. sim'.post = [a \in sim'.tx.writable |-> RunAll(chain'[sim'.slot], sim'.tx.wire)[a]]
  BY <1>1, <1>2
<1>5. CallSound'
  BY <1>1, <1>2, <1>3, <1>4 DEF CallSound, Evident
<1> QED BY <1>5 DEF SimInv, ChainSound

\* A call of execute knows its transaction.
LEMMA SigningKeeps ==
  ASSUME SimInv, NEW t \in Prepared, NEW phase \in {"sign", "check", "broadcast"},
         sim' = [phase |-> phase, tx |-> t], UNCHANGED <<chain, file>>, WireSound',
         phase # "sign" => EvaluatePolicy(file.policy, t.wire, Wallet)
  PROVE  SimInv'
<1>1. sim'.phase = phase /\ sim'.tx = t
  OBVIOUS
<1>2. CallSound'
  BY <1>1 DEF CallSound, Evident
<1> QED BY <1>2 DEF SimInv, ChainSound

\* The first requests: nothing is read from the chain yet.
LEMMA EarlyKeeps ==
  ASSUME SimInv, UNCHANGED <<chain, file, onWire>>,
         sim'.phase \in {"genesis", "tables", "pre", "simulate"}, sim'.tx \in Prepared,
         sim'.phase # "simulate" =>
           sim' = [phase |-> sim'.phase, tx |-> sim'.tx, current |-> sim'.current,
                   height |-> sim'.height]
  PROVE  SimInv'
<1>1. CallSound' /\ ChainSound'
  BY DEF SimInv, CallSound, ChainSound, Evident
<1> QED BY <1>1 DEF SimInv, WireSound

LEMMA ReadsKeep ==
  ASSUME SimInv, UNCHANGED <<chain, file, onWire>>,
         \/ \E t \in Prepared, height \in BOOLEAN : Prepare(t, height)
         \/ \E named \in {Cluster, "another"} : Genesis(named)
         \/ \E found \in BOOLEAN : ResolveTables(found)
         \/ \E slot \in 1..Slot, listed \in BOOLEAN : PreRead(slot, listed)
  PROVE  SimInv'
<1>0. WireSound'
  BY DEF SimInv, WireSound
<1>1. CASE Refused
  BY <1>0, <1>1, RefusedKeeps
<1>2. ASSUME NEW t \in Prepared, NEW height,
             sim' = [phase |-> "genesis", tx |-> t, current |-> Slot, height |-> height]
      PROVE  SimInv'
  BY <1>2, EarlyKeeps
<1>3. ASSUME sim.phase \in {"genesis", "tables"}, NEW phase \in {"tables", "pre"}, Going(phase)
      PROVE  SimInv'
  <2>1. /\ sim = [phase |-> sim.phase, tx |-> sim.tx, current |-> sim.current, height |-> sim.height]
        /\ sim.tx \in Prepared
    BY <1>3 DEF SimInv, CallSound
  <2>2. sim' = [phase |-> phase, tx |-> sim.tx, current |-> sim.current, height |-> sim.height]
    BY <1>3, <2>1 DEF Going
  <2> QED BY <1>3, <2>1, <2>2, EarlyKeeps
<1>4. ASSUME sim.phase = "pre", NEW slot, NEW pre,
             sim' = [phase |-> "simulate", tx |-> sim.tx, current |-> sim.current,
                     height |-> sim.height, preSlot |-> slot, pre |-> pre]
      PROVE  SimInv'
  <2>1. sim.tx \in Prepared
    BY <1>4 DEF SimInv, CallSound
  <2> QED BY <1>4, <2>1, EarlyKeeps
<1>5. ASSUME NEW t \in Prepared, NEW height, Prepare(t, height) PROVE SimInv'
  BY <1>1, <1>2, <1>5 DEF Prepare
<1>6. ASSUME NEW named, Genesis(named) PROVE SimInv'
  BY <1>1, <1>3, <1>6 DEF Genesis, Waits
<1>7. ASSUME NEW found, ResolveTables(found) PROVE SimInv'
  BY <1>1, <1>3, <1>7 DEF ResolveTables, Waits
<1>8. ASSUME NEW slot, NEW listed, PreRead(slot, listed) PROVE SimInv'
  BY <1>4, <1>8 DEF PreRead, Waits
<1> QED BY <1>5, <1>6, <1>7, <1>8

\* The simulation's answer is about the slot it names.
LEMMA SimulateKeeps ==
  ASSUME SimInv, NEW slot \in 1..Slot, NEW ans, SimulateAt(slot, ans)
  PROVE  SimInv'
<1>0. UNCHANGED <<chain, file, onWire>> /\ WireSound' /\ sim.phase = "simulate"
  BY DEF SimulateAt, Waits, SimInv, WireSound
<1>1. CASE Refused
  BY <1>0, <1>1, RefusedKeeps
<1> DEFINE post == [a \in sim.tx.writable |-> RunAll(chain[slot], sim.tx.wire)[a]]
           new == [phase |-> "fee", tx |-> sim.tx, current |-> sim.current,
                   height |-> sim.height, pre |-> sim.pre, slot |-> slot, post |-> post]
<1>2. CASE sim' = new
  <2>1. sim.tx \in Prepared
    BY <1>0 DEF SimInv, CallSound
  <2>2. post = [a \in sim.tx.writable |-> RunAll(chain'[slot], sim.tx.wire)[a]]
    BY <1>0
  <2> HIDE DEF post
  <2>3. /\ sim' = [f \in EvidenceFields |-> sim'[f]]
        /\ sim'.phase = "fee" /\ sim'.tx = sim.tx /\ sim'.slot = slot /\ sim'.post = post
    BY <1>2 DEF EvidenceFields
  <2>4. sim'.slot \in 1..Len(chain')
    BY <1>0, <2>3 DEF Slot
  <2>5. sim'.post = [a \in sim'.tx.writable |-> RunAll(chain'[sim'.slot], sim'.tx.wire)[a]]
    BY <2>2, <2>3
  <2>6. CallSound'
    BY <2>1, <2>3, <2>4, <2>5 DEF CallSound, Evident
  <2> QED BY <1>0, <2>6 DEF SimInv, ChainSound
<1> QED BY <1>1, <1>2 DEF SimulateAt

\* Judged, claimed, signed, sent: only what the signer's policy allows gets to the wire.
LEMMA ExecuteKeeps ==
  ASSUME SimInv,
         \/ FeeFor \/ Assess \/ RpcFails \/ HostDies
         \/ \E t \in Prepared : Claim(t)
         \/ \E same \in BOOLEAN : DaemonBroadcast(same)
         \/ \E sent \in BOOLEAN, ans \in {"same", "another", "throws"} : HostBroadcast(sent, ans)
  PROVE  SimInv'
<1>1. ASSUME UNCHANGED <<onWire, file>> PROVE WireSound'
  BY <1>1 DEF SimInv, WireSound
<1>2. ASSUME Refused, UNCHANGED <<chain, file, onWire>> PROVE SimInv'
  BY <1>1, <1>2, RefusedKeeps
<1>3. ASSUME FeeFor PROVE SimInv'
  <2>1. sim.phase = "fee" /\ UNCHANGED <<chain, file, onWire>>
    BY <1>3 DEF FeeFor, Waits
  <2>2. CASE Going("assess")
    BY <1>1, <2>1, <2>2, GoingKeeps
  <2> QED BY <1>2, <1>3, <2>1, <2>2 DEF FeeFor
<1>4. ASSUME Assess PROVE SimInv'
  <2>1. sim.phase = "assess" /\ UNCHANGED <<chain, file, onWire>>
    BY <1>4 DEF Assess, Waits
  <2>2. CASE /\ Going("simulated") /\ AssertSimulationSafe
             /\ \A a \in sim.tx.writable : ~IdentityChanged(a)
    <3>1. TokenDeltas \subseteq Allowed
      BY <2>2 DEF AssertSimulationSafe
    <3> QED BY <1>1, <2>1, <2>2, <3>1, GoingKeeps
  <2> QED BY <1>2, <1>4, <2>1, <2>2 DEF Assess
<1>5. ASSUME NEW t \in Prepared, Claim(t) PROVE SimInv'
  <2>1. UNCHANGED <<chain, file, onWire>> /\ sim' = [phase |-> "sign", tx |-> t]
    BY <1>5 DEF Claim
  <2> QED BY <1>1, <2>1, SigningKeeps
<1>6. ASSUME NEW sent, NEW ans, HostBroadcast(sent, ans) PROVE SimInv'
  <2>1. sim.phase = "broadcast" /\ Refused /\ UNCHANGED <<chain, file>>
    BY <1>6 DEF HostBroadcast, Steps
  <2>2. CASE UNCHANGED onWire
    BY <1>2, <2>1, <2>2
  <2>3. CASE Sent
    <3>1. sim.tx \in Prepared /\ EvaluatePolicy(file.policy, sim.tx.wire, Wallet)
      BY <2>1 DEF SimInv, CallSound
    <3>2. WireSound'
      BY <2>1, <2>3, <3>1 DEF SimInv, WireSound, Sent
    <3> QED BY <2>1, <3>2, RefusedKeeps
  <2> QED BY <1>6, <2>2, <2>3 DEF HostBroadcast
<1>7. ASSUME NEW same, DaemonBroadcast(same) PROVE SimInv'
  BY <1>2, <1>7 DEF DaemonBroadcast, Steps
<1>8. ASSUME RpcFails \/ HostDies PROVE SimInv'
  BY <1>2, <1>8 DEF RpcFails, HostDies
<1> QED BY <1>3, <1>4, <1>5, <1>6, <1>7, <1>8

LEMMA SignAnswerKeeps ==
  ASSUME SimInv, NEW ans, NEW daemonSent \in BOOLEAN, SignAnswer(ans, daemonSent)
  PROVE  SimInv'
<1> DEFINE allowed == PolicyLoads(file) /\ EvaluatePolicy(file.policy, sim.tx.wire, Wallet)
<1>1. sim.phase = "sign" /\ UNCHANGED <<chain, file>>
  BY DEF SignAnswer, Steps
<1>2. sim.tx \in Prepared /\ sim = [phase |-> "sign", tx |-> sim.tx]
  BY <1>1 DEF SimInv, CallSound
<1>3. WireSound'
  <2>1. CASE UNCHANGED onWire
    BY <1>1, <2>1 DEF SimInv, WireSound
  <2>2. CASE allowed /\ Sent
    BY <1>1, <1>2, <2>2 DEF SimInv, WireSound, Sent
  <2> QED BY <2>1, <2>2 DEF SignAnswer
<1>4. CASE Refused
  BY <1>1, <1>3, <1>4, RefusedKeeps
<1>5. CASE allowed /\ \E phase \in {"check", "broadcast"} : Going(phase)
  <2>1. PICK phase \in {"check", "broadcast"} : Going(phase)
    BY <1>5
  <2>2. sim' = [phase |-> phase, tx |-> sim.tx]
    BY <1>2, <2>1 DEF Going
  <2> QED BY <1>1, <1>2, <1>3, <1>5, <2>2, SigningKeeps
<1> QED BY <1>4, <1>5 DEF SignAnswer

\* The chain grows under the evidence, which stays about its slot.
LEMMA OtherKeeps == ASSUME SimInv, NEW does, OtherTransaction(does) PROVE SimInv'
<1> DEFINE next == Apply(chain[Slot], does)
<1>1. /\ chain' = Append(chain, next) /\ Succeeds(next)
      /\ UNCHANGED <<sim, onWire, file>>
  BY DEF OtherTransaction
<1> HIDE DEF next
<1>2. PICK S : chain \in Seq(S)
  BY DEF SimInv, ChainSound
<1> DEFINE T == S \cup {next}
<1>3. chain \in Seq(T) /\ next \in T
  BY <1>2
<1> HIDE DEF T
<1>4. /\ Append(chain, next) \in Seq(T)
      /\ Len(chain) \in Nat /\ Len(Append(chain, next)) = Len(chain) + 1
      /\ Append(chain, next)[Len(chain) + 1] = next
      /\ \A k \in 1..Len(chain) : Append(chain, next)[k] = chain[k]
  BY <1>3
<1>5. ChainSound'
  <2>1. \A k \in 1..(Len(chain) + 1) : Succeeds(chain'[k])
    BY <1>1, <1>4 DEF SimInv, ChainSound
  <2> QED BY <1>1, <1>4, <2>1 DEF ChainSound
<1>6. TokenDeltas' = TokenDeltas /\ \A a : IdentityChanged(a)' <=> IdentityChanged(a)
  BY <1>1 DEF TokenDeltas, IdentityChanged
<1>7. CallSound'
  <2>1. ASSUME Evident
        PROVE  /\ sim.slot \in 1..Len(chain') /\ chain'[sim.slot] = chain[sim.slot]
               /\ sim = [f \in EvidenceFields |-> sim[f]]
               /\ sim.post = [a \in sim.tx.writable |-> RunAll(chain[sim.slot], sim.tx.wire)[a]]
    BY <1>1, <1>4, <2>1 DEF SimInv, CallSound
  <2>2. ASSUME Evident
        PROVE  sim.post = [a \in sim.tx.writable |-> RunAll(chain'[sim.slot], sim.tx.wire)[a]]
    BY <2>1, <2>2
  <2> QED BY <1>1, <1>6, <2>1, <2>2 DEF SimInv, CallSound, Evident
<1> QED BY <1>1, <1>5, <1>7 DEF SimInv, WireSound

\* For any transactions, policies that describe the programs, with a cap on lamports or
\* without, and any course of the chain: what reaches the network takes no more than the
\* cap and the fee ceilings together, and prepare returns nothing that would change an
\* account's holding of a mint outside the allowed ones, unless it closes the account.
THEOREM SentIsAlwaysSafe == SimSpec => []SentIsSafe
<1>1. SimInit => SimInv
  <2> SUFFICES ASSUME SimInit PROVE SimInv
    OBVIOUS
  <2>1. /\ chain = <<Accounts0>> /\ sim.phase = "idle" /\ onWire = {} /\ file \in PolicyFiles
    BY DEF SimInit, Idling
  <2>2. chain \in Seq({Accounts0}) /\ Len(chain) = 1 /\ chain[1] = Accounts0
    BY <2>1
  <2>3. ChainSound
    <3>1. Succeeds(Accounts0)
      BY PreparedAssumption
    <3>2. \A k \in 1..Len(chain) : chain[k] = Accounts0
      BY <2>2
    <3> QED BY <2>2, <3>1, <3>2 DEF ChainSound
  <2>4. CallSound /\ WireSound
    BY <2>1 DEF CallSound, WireSound, Evident
  <2> QED BY <2>1, <2>3, <2>4 DEF SimInv
<1>2. ASSUME SimInv, [SimNext]_simVars PROVE SimInv'
  <2>1. ASSUME UNCHANGED simVars PROVE SimInv'
    <3>1. UNCHANGED <<chain, sim, onWire, file>>
      BY <2>1 DEF simVars
    <3>2. CallSound' /\ ChainSound' /\ WireSound'
      BY <1>2, <3>1 DEF SimInv, CallSound, ChainSound, WireSound, Evident, TokenDeltas,
                       IdentityChanged
    <3> QED BY <1>2, <3>1, <3>2 DEF SimInv
  <2>2. ASSUME \/ \E t \in Prepared, height \in BOOLEAN : Prepare(t, height)
               \/ \E named \in {Cluster, "another"} : Genesis(named)
               \/ \E found \in BOOLEAN : ResolveTables(found)
               \/ \E slot \in 1..Slot, listed \in BOOLEAN : PreRead(slot, listed)
        PROVE  SimInv'
    <3>1. UNCHANGED <<chain, file, onWire>>
      BY <2>2 DEF Prepare, Genesis, ResolveTables, PreRead, Waits
    <3> QED BY <1>2, <2>2, <3>1, ReadsKeep
  <2> QED BY <1>2, <2>1, <2>2, SimulateKeeps, ExecuteKeeps, SignAnswerKeeps, OtherKeeps DEF SimNext
<1>3. SimInv => SentIsSafe
  BY SimInvIsSafe
<1> QED BY <1>1, <1>2, <1>3, PTL DEF SimSpec

-----------------------------------------------------------------------------
(* The session store.  What a branch takes from its ancestors is cut at    *)
(* rows that are there, once, so rows added later lie past every cut, and  *)
(* a session added later is nobody's ancestor.                             *)

MessageRow == [id : MessageIds, session : SessionIds]

\* What the foreign keys and the unique ids make of a pair of tables
TablesSound(ss, ms) ==
  /\ DOMAIN ss \subseteq SessionIds
  /\ ms \in Seq(MessageRow)
  /\ \A i, j \in 1..Len(ms) : ms[i].id = ms[j].id => i = j
  /\ \A n \in 1..Len(ms) : ms[n].session \in DOMAIN ss
  /\ \A id \in DOMAIN ss : ss[id].parent # Root =>
       /\ ss[id].parent \in DOMAIN ss
       /\ \E n \in 1..Len(ms) : ms[n].id = ss[id].at /\ ms[n].session = ss[id].parent

StoreInv ==
  /\ TablesSound(sessions, messages)
  /\ \E S : saved \in Seq(S)
  /\ \A k \in 1..Len(saved) : TablesSound(saved[k][1], saved[k][2])

\* The function FromAncestors is defined by
Climbs(table, part, g) == g = [n \in 0..Cardinality(SessionIds) |-> Climbed(table, part, g, n)]

\* There is such a function: one for n ancestors, for every n.
LEMMA ClimbExists ==
  ASSUME NEW table, NEW part
  PROVE  \E g : Climbs(table, part, g)
<1> DEFINE Good == {n \in Nat : \E g : g = [i \in 0..n |-> Climbed(table, part, g, i)]}
<1>1. 0 \in Good
  <2> DEFINE g == [i \in 0..0 |-> [id \in DOMAIN table |-> <<>>]]
  <2>1. \A i \in 0..0 : Climbed(table, part, g, i) = [id \in DOMAIN table |-> <<>>]
    <3> SUFFICES ASSUME NEW i \in 0..0 PROVE Climbed(table, part, g, i) = [id \in DOMAIN table |-> <<>>]
      OBVIOUS
    <3>1. i = 0
      OBVIOUS
    <3> HIDE DEF g
    <3> QED BY <3>1, Zenon DEF Climbed
  <2>2. g = [i \in 0..0 |-> Climbed(table, part, g, i)]
    BY <2>1, Zenon
  <2> QED BY <2>2
<1>2. \A n \in Nat : n \in Good => n + 1 \in Good
  <2> SUFFICES ASSUME NEW n \in Nat, n \in Good PROVE n + 1 \in Good
    OBVIOUS
  <2>1. PICK g : g = [i \in 0..n |-> Climbed(table, part, g, i)]
    OBVIOUS
  <2> DEFINE h == [i \in 0..(n + 1) |-> Climbed(table, part, g, i)]
  <2>2. \A i \in 0..n : i \in 0..(n + 1)
    OBVIOUS
  <2>3. \A i \in 0..n : h[i] = g[i]
    <3>1. \A i \in 0..n : g[i] = Climbed(table, part, g, i)
      BY <2>1, Zenon
    <3> QED BY <2>2, <3>1, Zenon
  <2>4. \A i \in 0..(n + 1) : i # 0 => i - 1 \in 0..n
    OBVIOUS
  <2> HIDE DEF h
  <2>5. \A i \in 0..(n + 1) : Climbed(table, part, g, i) = Climbed(table, part, h, i)
    <3> SUFFICES ASSUME NEW i \in 0..(n + 1) PROVE Climbed(table, part, g, i) = Climbed(table, part, h, i)
      OBVIOUS
    <3>1. CASE i = 0
      BY <3>1, Zenon DEF Climbed
    <3>2. CASE i # 0
      <4>1. h[i - 1] = g[i - 1]
        BY <2>3, <2>4, <3>2, Zenon
      <4> QED BY <4>1, Zenon DEF Climbed
    <3> QED BY <3>1, <3>2
  <2>6. h = [i \in 0..(n + 1) |-> Climbed(table, part, h, i)]
    BY <2>5, Zenon DEF h
  <2>7. n + 1 \in Nat /\ \E x : x = [i \in 0..(n + 1) |-> Climbed(table, part, x, i)]
    BY <2>6
  <2> QED BY <2>7, Zenon
<1>3. Good = Nat
  <2>1. Good \in SUBSET Nat
    OBVIOUS
  <2> HIDE DEF Good
  <2> QED BY <1>1, <1>2, <2>1, SetInduction
<1>4. Cardinality(SessionIds) \in Good
  BY <1>3, SessionsAssumption, FS_CardinalityType
<1> QED BY <1>4, Zenon DEF Climbs

\* The equations of the function behind FromAncestors.
LEMMA ClimbEquations ==
  ASSUME NEW table, NEW part
  PROVE  \E g : /\ FromAncestors(table, part) = g[Cardinality(SessionIds)]
                /\ \A n \in 0..Cardinality(SessionIds), id \in DOMAIN table :
                     g[n][id] = IF n = 0 \/ table[id].parent = Root THEN <<>>
                                ELSE g[n - 1][table[id].parent] \o part[id]
<1> DEFINE g == CHOOSE f : Climbs(table, part, f)
<1>1. Climbs(table, part, g)
  BY ClimbExists, Zenon
<1>2. FromAncestors(table, part) = g[Cardinality(SessionIds)]
  BY Zenon DEF FromAncestors, Climbs
<1> HIDE DEF g
<1>3. \A n \in 0..Cardinality(SessionIds) : g[n] = Climbed(table, part, g, n)
  BY <1>1, Zenon DEF Climbs
<1>4. \A n \in 0..Cardinality(SessionIds), id \in DOMAIN table :
        g[n][id] = IF n = 0 \/ table[id].parent = Root THEN <<>>
                   ELSE g[n - 1][table[id].parent] \o part[id]
  BY <1>3, Zenon DEF Climbed
<1> QED BY <1>2, <1>4

\* What comes from the ancestors is a sequence of what the parts are made of.
LEMMA AncestorsType ==
  ASSUME NEW table, NEW part, NEW C,
         \A id \in DOMAIN table : table[id].parent # Root =>
           table[id].parent \in DOMAIN table /\ part[id] \in Seq(C)
  PROVE  \A id \in DOMAIN table : FromAncestors(table, part)[id] \in Seq(C)
<1> DEFINE N == Cardinality(SessionIds)
<1>1. N \in Nat
  BY SessionsAssumption, FS_CardinalityType
<1>2. PICK g : /\ FromAncestors(table, part) = g[N]
               /\ \A n \in 0..N, id \in DOMAIN table :
                    g[n][id] = IF n = 0 \/ table[id].parent = Root THEN <<>>
                               ELSE g[n - 1][table[id].parent] \o part[id]
  BY ClimbEquations
<1> HIDE DEF N
<1> DEFINE Good == {n \in Nat : n <= N => \A id \in DOMAIN table : g[n][id] \in Seq(C)}
<1>3. 0 \in Good
  <2>1. 0 \in 0..N
    BY <1>1
  <2>2. \A id \in DOMAIN table : g[0][id] = <<>>
    BY <1>2, <2>1, Zenon
  <2>3. <<>> \in Seq(C)
    OBVIOUS
  <2> QED BY <2>2, <2>3
<1>4. \A n \in Good : n + 1 \in Good
  <2> SUFFICES ASSUME NEW n \in Nat, n \in Good, n + 1 <= N, NEW id \in DOMAIN table
               PROVE  g[n + 1][id] \in Seq(C)
    OBVIOUS
  <2>1. n + 1 \in 0..N /\ n + 1 # 0 /\ (n + 1) - 1 = n /\ n <= N
    BY <1>1
  <2>2. CASE table[id].parent = Root
    BY <1>2, <2>1, <2>2
  <2>3. CASE table[id].parent # Root
    <3>1. g[n + 1][id] = g[(n + 1) - 1][table[id].parent] \o part[id]
      BY <1>2, <2>1, <2>3, Zenon
    <3>2. g[n][table[id].parent] \in Seq(C) /\ part[id] \in Seq(C)
      BY <2>1, <2>3
    <3>3. g[n + 1][id] = g[n][table[id].parent] \o part[id]
      BY <2>1, <3>1
    <3> QED BY <3>2, <3>3
  <2> QED BY <2>2, <2>3
<1>5. Good = Nat
  <2>1. Good \in SUBSET Nat
    OBVIOUS
  <2> HIDE DEF Good
  <2> QED BY <1>3, <1>4, <2>1, SetInduction
<1>6. \A id \in DOMAIN table : g[N][id] \in Seq(C)
  BY <1>1, <1>5
<1> QED BY <1>2, <1>6

\* More sessions leave the ancestors of those there were as they were.
LEMMA AncestorsKept ==
  ASSUME NEW table, NEW part, NEW table2, NEW part2,
         DOMAIN table \subseteq DOMAIN table2,
         \A id \in DOMAIN table : table2[id] = table[id] /\ part2[id] = part[id],
         \A id \in DOMAIN table : table[id].parent # Root => table[id].parent \in DOMAIN table
  PROVE  \A id \in DOMAIN table : FromAncestors(table2, part2)[id] = FromAncestors(table, part)[id]
<1> DEFINE N == Cardinality(SessionIds)
<1>1. N \in Nat
  BY SessionsAssumption, FS_CardinalityType
<1>2. PICK g : /\ FromAncestors(table, part) = g[N]
               /\ \A n \in 0..N, id \in DOMAIN table :
                    g[n][id] = IF n = 0 \/ table[id].parent = Root THEN <<>>
                               ELSE g[n - 1][table[id].parent] \o part[id]
  BY ClimbEquations
<1>3. PICK h : /\ FromAncestors(table2, part2) = h[N]
               /\ \A n \in 0..N, id \in DOMAIN table2 :
                    h[n][id] = IF n = 0 \/ table2[id].parent = Root THEN <<>>
                               ELSE h[n - 1][table2[id].parent] \o part2[id]
  BY ClimbEquations
<1> HIDE DEF N
<1> DEFINE Good == {n \in Nat : n <= N => \A id \in DOMAIN table : h[n][id] = g[n][id]}
<1>4. 0 \in Good
  BY <1>1, <1>2, <1>3
<1>5. \A n \in Good : n + 1 \in Good
  <2> SUFFICES ASSUME NEW n \in Nat, n \in Good, n + 1 <= N, NEW id \in DOMAIN table
               PROVE  h[n + 1][id] = g[n + 1][id]
    OBVIOUS
  <2>1. n + 1 \in 0..N /\ n + 1 # 0 /\ (n + 1) - 1 = n /\ n <= N
    BY <1>1
  <2>2. CASE table[id].parent = Root
    BY <1>2, <1>3, <2>1, <2>2
  <2>3. CASE table[id].parent # Root
    <3>1. g[n + 1][id] = g[(n + 1) - 1][table[id].parent] \o part[id]
      BY <1>2, <2>1, <2>3, Zenon
    <3>2. h[n + 1][id] = h[(n + 1) - 1][table2[id].parent] \o part2[id]
      BY <1>3, <2>1, <2>3, Zenon
    <3>3. h[n][table[id].parent] = g[n][table[id].parent]
      BY <2>1, <2>3
    <3> QED BY <2>1, <3>1, <3>2, <3>3, Zenon
  <2> QED BY <2>2, <2>3
<1>6. Good = Nat
  <2>1. Good \in SUBSET Nat
    OBVIOUS
  <2> HIDE DEF Good
  <2> QED BY <1>4, <1>5, <2>1, SetInduction
<1>7. \A id \in DOMAIN table : h[N][id] = g[N][id]
  BY <1>1, <1>6
<1> QED BY <1>2, <1>3, <1>7

\* A session's own rows: rows of the table, each once and none left out
OwnRows(ms, s, rows) ==
  /\ rows \in Seq(MessageRow)
  /\ \A k, l \in 1..Len(rows) : rows[k].id = rows[l].id => k = l
  /\ \A k \in 1..Len(rows) : \E i \in 1..Len(ms) : rows[k] = ms[i]
  /\ \A i \in 1..Len(ms) : ms[i].session = s => \E k \in 1..Len(rows) : rows[k] = ms[i]

\* The filter of getMessages gives them.
LEMMA RowsAre ==
  ASSUME NEW ms \in Seq(MessageRow), \A i, j \in 1..Len(ms) : ms[i].id = ms[j].id => i = j,
         NEW s
  PROVE  OwnRows(ms, s, Without(ms, OfOthers(s)))
<1>0. PICK rows : rows = Without(ms, OfOthers(s))
  OBVIOUS
<1>1. /\ rows \in Seq(MessageRow)
      /\ \A k \in 1..Len(rows) : \E i \in 1..Len(ms) : rows[k] = ms[i]
      /\ (\A i, j \in 1..Len(ms) : ms[i] = ms[j] => i = j) =>
           \A k, l \in 1..Len(rows) : rows[k] = rows[l] => k = l
  <2> USE DEF MessageRow
  <2>1. /\ Without(ms, OfOthers(s)) \in Seq(MessageRow)
        /\ \A k \in 1..Len(Without(ms, OfOthers(s))) :
              \E i \in 1..Len(ms) : Without(ms, OfOthers(s))[k] = ms[i] /\ ms[i] \notin OfOthers(s)
        /\ (\A i, j \in 1..Len(ms) : ms[i] = ms[j] => i = j) =>
              \A k, l \in 1..Len(Without(ms, OfOthers(s))) :
                Without(ms, OfOthers(s))[k] = Without(ms, OfOthers(s))[l] => k = l
    BY WithoutKeeps
  <2> HIDE DEF MessageRow
  <2> QED BY <1>0, <2>1, Zenon
<1>2. \A k, l \in 1..Len(rows) : rows[k] = rows[l] => k = l
  BY <1>1
<1>3. ASSUME NEW k \in 1..Len(rows), NEW l \in 1..Len(rows), rows[k].id = rows[l].id PROVE k = l
  <2>1. PICK i \in 1..Len(ms) : rows[k] = ms[i]
    BY <1>1
  <2>2. PICK j \in 1..Len(ms) : rows[l] = ms[j]
    BY <1>1
  <2>3. i = j
    BY <1>3, <2>1, <2>2
  <2> QED BY <1>2, <2>1, <2>2, <2>3
<1>4. ASSUME NEW i \in 1..Len(ms), ms[i].session = s PROVE \E k \in 1..Len(rows) : rows[k] = ms[i]
  <2>1. ms[i] \notin OfOthers(s)
    BY <1>4 DEF OfOthers
  <2> QED BY <1>0, <2>1, WithoutHas
<1> QED BY <1>0, <1>1, <1>3, <1>4 DEF OwnRows

\* The row of a message is where it is.
LEMMA PositionIs ==
  ASSUME NEW rows, NEW id, NEW p \in DOMAIN rows, rows[p].id = id,
         \A k \in DOMAIN rows : rows[k].id = id => k = p
  PROVE  PositionOf(id, rows) = p
BY Zenon DEF PositionOf

\* The part of a branch is a sequence of rows.
LEMMA PartType ==
  ASSUME TablesSound(sessions, messages), NEW id \in DOMAIN sessions, sessions[id].parent # Root
  PROVE  /\ Part(id) \in Seq(MessageRow)
         /\ \E p \in 1..Len(Rows(sessions[id].parent)) :
              /\ Rows(sessions[id].parent)[p].id = sessions[id].at
              /\ Part(id) = SubSeq(Rows(sessions[id].parent), 1, p)
<1> DEFINE up == sessions[id].parent
           rows == Rows(up)
<1>1. /\ messages \in Seq(MessageRow)
      /\ \A i, j \in 1..Len(messages) : messages[i].id = messages[j].id => i = j
  BY DEF TablesSound
<1>2. /\ rows \in Seq(MessageRow)
      /\ \A k, l \in 1..Len(rows) : rows[k].id = rows[l].id => k = l
      /\ \A i \in 1..Len(messages) : messages[i].session = up => \E k \in 1..Len(rows) : rows[k] = messages[i]
  <2>1. OwnRows(messages, up, rows)
    BY <1>1, RowsAre, Zenon DEF Rows
  <2> QED BY <2>1 DEF OwnRows
<1>3. PICK n \in 1..Len(messages) : messages[n].id = sessions[id].at /\ messages[n].session = up
  BY DEF TablesSound
<1>4. PICK p \in 1..Len(rows) : rows[p] = messages[n]
  BY <1>2, <1>3
<1>5. Part(id) = SubSeq(rows, 1, PositionOf(sessions[id].at, rows))
  BY DEF Part
<1> HIDE DEF rows
<1>6. DOMAIN rows = 1..Len(rows)
  BY <1>2
<1>7. PositionOf(sessions[id].at, rows) = p
  <2>1. p \in DOMAIN rows /\ rows[p].id = sessions[id].at
    BY <1>3, <1>4, <1>6
  <2>2. \A k \in DOMAIN rows : rows[k].id = sessions[id].at => k = p
    BY <1>2, <1>6, <2>1
  <2> QED BY <2>1, <2>2, PositionIs
<1>8. SubSeq(rows, 1, p) \in Seq(MessageRow)
  BY <1>2, <1>4
<1> QED BY <1>3, <1>4, <1>5, <1>7, <1>8 DEF rows

\* Every session shows a sequence of rows
AllShown ==
  \A id \in DOMAIN sessions :
    /\ FromAncestors(sessions, Cuts)[id] \in Seq(MessageRow)
    /\ Rows(id) \in Seq(MessageRow)

\* What a session shows is a sequence of rows.
LEMMA ShownType ==
  ASSUME TablesSound(sessions, messages), NEW id \in DOMAIN sessions
  PROVE  /\ FromAncestors(sessions, Cuts)[id] \in Seq(MessageRow)
         /\ Rows(id) \in Seq(MessageRow)
<1>1. \A x \in DOMAIN sessions : sessions[x].parent # Root =>
        sessions[x].parent \in DOMAIN sessions /\ Cuts[x] \in Seq(MessageRow)
  <2> SUFFICES ASSUME NEW x \in DOMAIN sessions, sessions[x].parent # Root
               PROVE  sessions[x].parent \in DOMAIN sessions /\ Cuts[x] \in Seq(MessageRow)
    OBVIOUS
  <2>1. Cuts[x] = Part(x)
    BY DEF Cuts
  <2>2. Part(x) \in Seq(MessageRow)
    BY PartType
  <2> QED BY <2>1, <2>2 DEF TablesSound
<1>2. FromAncestors(sessions, Cuts)[id] \in Seq(MessageRow)
  BY <1>1, AncestorsType
<1>3. /\ messages \in Seq(MessageRow)
      /\ \A i, j \in 1..Len(messages) : messages[i].id = messages[j].id => i = j
  BY DEF TablesSound
<1>4. Rows(id) \in Seq(MessageRow)
  <2>1. OwnRows(messages, id, Rows(id))
    BY <1>3, RowsAre, Zenon DEF Rows
  <2> QED BY <2>1 DEF OwnRows
<1> QED BY <1>2, <1>4

LEMMA ShownAll == TablesSound(sessions, messages) => AllShown
BY ShownType DEF AllShown

\* A message that was not there lengthens its session and no other, and lies past every cut.
LEMMA AppendShows ==
  ASSUME TablesSound(sessions, messages), NEW added \in MessageRow, UNCHANGED sessions,
         messages' = Append(messages, added),
         \A n \in 1..Len(messages) : messages[n].id # added.id
  PROVE  /\ Cuts' = Cuts
         /\ \A s \in SessionIds : Rows(s)' = Rows(s) \/ Rows(s)' = Append(Rows(s), added)
<1>1. /\ messages \in Seq(MessageRow)
      /\ \A i, j \in 1..Len(messages) : messages[i].id = messages[j].id => i = j
  BY DEF TablesSound
<1>2. \A s : Rows(s)' = IF added \in OfOthers(s) THEN Rows(s) ELSE Append(Rows(s), added)
  <2> SUFFICES ASSUME NEW s PROVE Rows(s)' = IF added \in OfOthers(s) THEN Rows(s) ELSE Append(Rows(s), added)
    OBVIOUS
  <2>1. Without(Append(messages, added), OfOthers(s)) =
          IF added \in OfOthers(s) THEN Without(messages, OfOthers(s))
          ELSE Append(Without(messages, OfOthers(s)), added)
    BY <1>1, WithoutAppend
  <2> QED BY <2>1, Zenon DEF Rows, OfOthers
<1>3. ASSUME NEW id \in DOMAIN sessions, sessions[id].parent # Root PROVE Part(id)' = Part(id)
  <2> DEFINE up == sessions[id].parent
  <2>1. PICK rows : rows = Rows(up)
    OBVIOUS
  <2>2. PICK more : more = Rows(up)'
    OBVIOUS
  <2>3. /\ rows \in Seq(MessageRow)
        /\ \A k, l \in 1..Len(rows) : rows[k].id = rows[l].id => k = l
        /\ \A k \in 1..Len(rows) : \E i \in 1..Len(messages) : rows[k] = messages[i]
    <3>1. OwnRows(messages, up, rows)
      BY <1>1, <2>1, RowsAre, Zenon DEF Rows
    <3> QED BY <3>1 DEF OwnRows
  <2>4. PICK p \in 1..Len(rows) : /\ rows[p].id = sessions[id].at
                                  /\ Part(id) = SubSeq(rows, 1, p)
    BY <1>3, <2>1, PartType
  <2>5. more = rows \/ more = Append(rows, added)
    BY <1>2, <2>1, <2>2, Zenon
  <2>6. \A k \in 1..Len(rows) : rows[k].id # added.id
    BY <2>3
  <2>7. /\ more \in Seq(MessageRow) /\ DOMAIN more = 1..Len(more) /\ p \in DOMAIN more
        /\ more[p].id = sessions[id].at
        /\ \A k \in DOMAIN more : more[k].id = sessions[id].at => k = p
    <3>1. CASE more = rows
      <4>1. DOMAIN rows = 1..Len(rows)
        BY <2>3
      <4>2. \A k \in 1..Len(rows) : rows[k].id = sessions[id].at => k = p
        BY <2>3, <2>4
      <4> QED BY <2>3, <2>4, <3>1, <4>1, <4>2, Zenon
    <3>2. CASE more = Append(rows, added)
      <4>1. /\ more \in Seq(MessageRow) /\ Len(more) = Len(rows) + 1
            /\ \A k \in 1..Len(rows) : more[k] = rows[k]
            /\ more[Len(rows) + 1] = added
        BY <2>3, <3>2
      <4>2. DOMAIN more = 1..(Len(rows) + 1) /\ Len(rows) \in Nat
        BY <2>3, <4>1
      <4>3. \A k \in DOMAIN more : k \in 1..Len(rows) \/ k = Len(rows) + 1
        BY <4>2
      <4>4. \A k \in DOMAIN more : more[k].id = sessions[id].at => k = p
        BY <2>3, <2>4, <2>6, <4>1, <4>3
      <4> QED BY <2>4, <4>1, <4>2, <4>4
    <3> QED BY <2>5, <3>1, <3>2
  <2>8. PositionOf(sessions[id].at, more) = p
    BY <2>7, PositionIs
  <2>9. SubSeq(more, 1, p) = SubSeq(rows, 1, p)
    <3>1. CASE more = Append(rows, added)
      BY <2>3, <2>4, <3>1
    <3> QED BY <2>5, <3>1
  <2>10. Part(id)' = SubSeq(more, 1, PositionOf(sessions[id].at, more))
    BY <2>2, Zenon DEF Part
  <2> QED BY <2>4, <2>8, <2>9, <2>10
<1>4. Cuts' = Cuts
  BY <1>3 DEF Cuts
<1> QED BY <1>2, <1>4, Zenon

\* A sequence in front of which the same is put starts as it did if it grew at its end.
LEMMA PrefixOfLonger ==
  ASSUME NEW C, NEW s \in Seq(C), NEW t \in Seq(C), NEW x \in C, NEW u, u = t \/ u = Append(t, x)
  PROVE  IsPrefix(s \o t, s \o u)
BY DEF IsPrefix

\* What is shown before a session exists is nothing.
LEMMA PrefixOfAny == ASSUME NEW C, NEW t \in Seq(C) PROVE IsPrefix(<<>>, t) /\ IsPrefix(t, t)
BY DEF IsPrefix

LEMMA AppendStable ==
  ASSUME StoreInv, NEW id \in MessageIds, NEW s \in SessionIds, NEW same \in BOOLEAN,
         AppendMessage(id, s, same), messages' # messages
  PROVE  /\ TablesSound(sessions, messages)'
         /\ \A x \in SessionIds : IsPrefix(Visible(x), Visible(x)')
<1> DEFINE added == [id |-> id, session |-> s]
<1>1. /\ Known(id) = {} /\ messages' = Append(messages, added) /\ s \in DOMAIN sessions
      /\ UNCHANGED sessions /\ added \in MessageRow /\ added.id = id /\ added.session = s
  BY DEF AppendMessage, MessageRow
<1>2. TablesSound(sessions, messages)
  BY DEF StoreInv
<1>3. messages \in Seq(MessageRow)
  BY <1>2 DEF TablesSound
<1>4. \A n \in 1..Len(messages) : messages[n].id # added.id
  BY <1>1, <1>3 DEF Known
<1> HIDE DEF added
<1>5. TablesSound(sessions, messages)'
  <2>1. /\ messages' \in Seq(MessageRow) /\ Len(messages') = Len(messages) + 1
        /\ \A n \in 1..Len(messages) : messages'[n] = messages[n]
        /\ messages'[Len(messages) + 1] = added
    BY <1>1, <1>3
  <2>2. \A i, j \in 1..Len(messages') : messages'[i].id = messages'[j].id => i = j
    BY <1>2, <1>3, <1>4, <2>1 DEF TablesSound
  <2>3. \A n \in 1..Len(messages') : messages'[n].session \in DOMAIN sessions
    BY <1>1, <1>2, <1>3, <2>1 DEF TablesSound
  <2>4. ASSUME NEW x \in DOMAIN sessions, sessions[x].parent # Root
        PROVE  /\ sessions[x].parent \in DOMAIN sessions
               /\ \E n \in 1..Len(messages') :
                    messages'[n].id = sessions[x].at /\ messages'[n].session = sessions[x].parent
    BY <1>2, <1>3, <2>1, <2>4 DEF TablesSound
  <2> QED BY <1>1, <1>2, <2>1, <2>2, <2>3, <2>4 DEF TablesSound
<1>6. /\ Cuts' = Cuts
      /\ \A x \in SessionIds : Rows(x)' = Rows(x) \/ Rows(x)' = Append(Rows(x), added)
  BY <1>1, <1>2, <1>4, AppendShows
<1>7. ASSUME NEW x \in SessionIds PROVE IsPrefix(Visible(x), Visible(x)')
  <2>1. CASE x \notin DOMAIN sessions
    <3>1. Visible(x) = <<>> /\ Visible(x)' = <<>>
      BY <1>1, <2>1, Zenon DEF Visible
    <3>2. <<>> \in Seq(MessageRow)
      OBVIOUS
    <3>3. IsPrefix(<<>>, <<>>)
      BY <3>2, PrefixOfAny
    <3> QED BY <3>1, <3>3, Zenon
  <2>2. CASE x \in DOMAIN sessions
    <3>1. PICK above : above = FromAncestors(sessions, Cuts)[x]
      OBVIOUS
    <3>2. PICK rows : rows = Rows(x)
      OBVIOUS
    <3>3. PICK more : more = Rows(x)'
      OBVIOUS
    <3>4. Visible(x) = above \o rows /\ Visible(x)' = above \o more
      BY <1>1, <1>6, <2>2, <3>1, <3>2, <3>3, Zenon DEF Visible
    <3>5. above \in Seq(MessageRow) /\ rows \in Seq(MessageRow)
      BY <1>2, <2>2, <3>1, <3>2, ShownType
    <3>6. more = rows \/ more = Append(rows, added)
      BY <1>6, <3>2, <3>3, Zenon
    <3> QED BY <1>1, <3>4, <3>5, <3>6, PrefixOfLonger
  <2> QED BY <2>1, <2>2
<1> QED BY <1>5, <1>7

LEMMA CreateStable ==
  ASSUME StoreInv, NEW id \in SessionIds, NEW parent, NEW at,
         CreateSession(id, parent, at), sessions' # sessions
  PROVE  /\ TablesSound(sessions, messages)'
         /\ \A x \in SessionIds : IsPrefix(Visible(x), Visible(x)')
<1>1. /\ id \notin DOMAIN sessions /\ UNCHANGED messages
      /\ parent = Root \/ \E n \in Known(at) : messages[n].session = parent
      /\ sessions' = [x \in DOMAIN sessions \cup {id} |->
                        IF x = id THEN [parent |-> parent, at |-> at] ELSE sessions[x]]
  BY DEF CreateSession
<1>2. /\ DOMAIN sessions' = DOMAIN sessions \cup {id}
      /\ sessions'[id] = [parent |-> parent, at |-> at]
      /\ \A x \in DOMAIN sessions : sessions'[x] = sessions[x]
  BY <1>1
<1>3. TablesSound(sessions, messages)
  BY DEF StoreInv
<1>4. TablesSound(sessions, messages)'
  <2>1. ASSUME parent # Root
        PROVE  /\ parent \in DOMAIN sessions
               /\ \E n \in 1..Len(messages) : messages[n].id = at /\ messages[n].session = parent
    <3>1. PICK n \in Known(at) : messages[n].session = parent
      BY <1>1, <2>1
    <3>2. n \in 1..Len(messages) /\ messages[n].id = at
      BY <1>3, <3>1 DEF Known, TablesSound
    <3> QED BY <1>3, <3>1, <3>2 DEF TablesSound
  <2>2. ASSUME NEW x \in DOMAIN sessions', sessions'[x].parent # Root
        PROVE  /\ sessions'[x].parent \in DOMAIN sessions'
               /\ \E n \in 1..Len(messages) :
                    messages[n].id = sessions'[x].at /\ messages[n].session = sessions'[x].parent
    <3>1. CASE x = id
      BY <1>2, <2>1, <2>2, <3>1
    <3>2. CASE x \in DOMAIN sessions
      BY <1>2, <1>3, <2>2, <3>2 DEF TablesSound
    <3> QED BY <1>2, <3>1, <3>2
  <2>3. DOMAIN sessions' \subseteq SessionIds
    BY <1>2, <1>3 DEF TablesSound
  <2> QED BY <1>1, <1>3, <2>2, <2>3 DEF TablesSound
<1>5. \A s : Rows(s)' = Rows(s)
  BY <1>1 DEF Rows, OfOthers
<1>6. \A x \in DOMAIN sessions : Cuts'[x] = Cuts[x]
  <2> SUFFICES ASSUME NEW x \in DOMAIN sessions PROVE Cuts'[x] = Cuts[x]
    OBVIOUS
  <2>1. Part(x)' = Part(x)
    BY <1>2, <1>5, Zenon DEF Part
  <2> QED BY <1>2, <2>1 DEF Cuts
<1>7. ASSUME NEW x \in DOMAIN sessions
      PROVE  FromAncestors(sessions, Cuts)[x] = FromAncestors(sessions', Cuts')[x]
  <2>1. PICK table, part, table2, part2 :
          table = sessions /\ part = Cuts /\ table2 = sessions' /\ part2 = Cuts'
    OBVIOUS
  <2>2. \A y \in DOMAIN table : table[y].parent # Root => table[y].parent \in DOMAIN table
    BY <1>3, <2>1 DEF TablesSound
  <2>3. /\ DOMAIN table \subseteq DOMAIN table2
        /\ \A y \in DOMAIN table : table2[y] = table[y] /\ part2[y] = part[y]
    BY <1>2, <1>6, <2>1
  <2>4. \A y \in DOMAIN table : FromAncestors(table2, part2)[y] = FromAncestors(table, part)[y]
    BY <2>2, <2>3, AncestorsKept
  <2> QED BY <2>1, <2>4, Zenon
<1>8. ASSUME NEW x \in SessionIds PROVE IsPrefix(Visible(x), Visible(x)')
  <2>1. CASE x \in DOMAIN sessions
    <3>1. Visible(x)' = Visible(x)
      BY <1>2, <1>5, <1>7, <2>1, Zenon DEF Visible
    <3>2. Visible(x) \in Seq(MessageRow)
      BY <1>3, <2>1, ShownType DEF Visible
    <3> QED BY <3>1, <3>2, PrefixOfAny
  <2>2. CASE x \notin DOMAIN sessions
    <3>1. Visible(x) = <<>>
      BY <2>2 DEF Visible
    <3>2. Visible(x)' \in Seq(MessageRow)
      <4>1. CASE x = id
        <5>1. AllShown'
          BY <1>4, ShownAll, PTL
        <5>2. x \in DOMAIN sessions'
          BY <1>2, <4>1
        <5>3. /\ FromAncestors(sessions', Cuts')[x] \in Seq(MessageRow)
              /\ Rows(x)' \in Seq(MessageRow)
          BY <5>1, <5>2, Zenon DEF AllShown
        <5>4. Visible(x)' = FromAncestors(sessions', Cuts')[x] \o Rows(x)'
          BY <5>2, Zenon DEF Visible
        <5> QED BY <5>3, <5>4
      <4>2. CASE x # id
        BY <1>2, <2>2, <4>2 DEF Visible
      <4> QED BY <4>1, <4>2
    <3> QED BY <3>1, <3>2, PrefixOfAny
  <2> QED BY <2>1, <2>2
<1> QED BY <1>4, <1>8

\* With the open transactions as they were, only the current tables matter.
LEMMA SavedKept ==
  ASSUME StoreInv, TablesSound(sessions, messages)', UNCHANGED saved
  PROVE  StoreInv'
BY DEF StoreInv

LEMMA TransactionKeeps ==
  ASSUME StoreInv, TransactionNext
  PROVE  /\ StoreInv'
         /\ Len(saved') < Len(saved) \/ UNCHANGED <<sessions, messages>>
<1>1. PICK S : saved \in Seq(S)
  BY DEF StoreInv
<1>2. CASE Open
  <2>1. /\ saved' = Append(saved, Tables) /\ UNCHANGED <<sessions, messages>>
    BY <1>2 DEF Open
  <2>2. PICK t : t = Tables
    OBVIOUS
  <2>3. /\ saved' \in Seq(S \cup {t}) /\ Len(saved') = Len(saved) + 1
        /\ \A k \in 1..Len(saved) : saved'[k] = saved[k]
        /\ saved'[Len(saved) + 1] = t
    <3>1. saved \in Seq(S \cup {t})
      BY <1>1
    <3> QED BY <2>1, <2>2, <3>1
  <2>4. t[1] = sessions /\ t[2] = messages
    BY <2>2 DEF Tables
  <2>5. \A k \in 1..Len(saved') : TablesSound(saved'[k][1], saved'[k][2])
    <3> SUFFICES ASSUME NEW k \in 1..Len(saved') PROVE TablesSound(saved'[k][1], saved'[k][2])
      OBVIOUS
    <3>1. k \in 1..Len(saved) \/ k = Len(saved) + 1
      BY <1>1, <2>3
    <3> QED BY <2>3, <2>4, <3>1, Zenon DEF StoreInv
  <2>6. TablesSound(sessions, messages)'
    BY <2>1 DEF StoreInv, TablesSound
  <2> QED BY <2>1, <2>3, <2>5, <2>6, Zenon DEF StoreInv
<1>3. ASSUME saved # <<>>, saved' = Front(saved), TablesSound(sessions, messages)'
      PROVE  StoreInv' /\ Len(saved') < Len(saved)
  <2>1. /\ saved' \in Seq(S) /\ Len(saved') = Len(saved) - 1 /\ Len(saved) \in Nat
        /\ \A k \in 1..Len(saved') : k \in 1..Len(saved) /\ saved'[k] = saved[k]
    <3>1. Len(saved) \in Nat /\ Len(saved) # 0
      BY <1>1, <1>3
    <3>2. Len(saved) - 1 \in Nat
      BY <3>1
    <3>3. PICK m \in Nat : m = Len(saved) - 1
      BY <3>2
    <3>4. /\ SubSeq(saved, 1, m) \in Seq(S) /\ Len(SubSeq(saved, 1, m)) = m
          /\ \A k \in 1..m : k \in 1..Len(saved) /\ SubSeq(saved, 1, m)[k] = saved[k]
      BY <1>1, <3>1, <3>3
    <3>5. saved' = SubSeq(saved, 1, m)
      BY <1>3, <3>3 DEF Front
    <3> QED BY <3>1, <3>3, <3>4, <3>5
  <2>2. \A k \in 1..Len(saved') : TablesSound(saved'[k][1], saved'[k][2])
    BY <2>1, Zenon DEF StoreInv
  <2> QED BY <1>3, <2>1, <2>2 DEF StoreInv
<1>4. CASE Release
  <2>1. saved # <<>> /\ saved' = Front(saved) /\ UNCHANGED <<sessions, messages>>
    BY <1>4 DEF Release
  <2>2. TablesSound(sessions, messages)'
    BY <2>1 DEF StoreInv, TablesSound
  <2> QED BY <1>3, <2>1, <2>2
<1>5. CASE Rollback
  <2>1. /\ saved # <<>> /\ saved' = Front(saved)
        /\ sessions' = saved[Len(saved)][1] /\ messages' = saved[Len(saved)][2]
    BY <1>5 DEF Rollback, Last
  <2>2. Len(saved) \in 1..Len(saved)
    BY <1>1, <2>1
  <2>3. TablesSound(saved[Len(saved)][1], saved[Len(saved)][2])
    BY <2>2 DEF StoreInv
  <2>4. TablesSound(sessions', messages')
    BY <2>1, <2>3, Zenon
  <2>5. TablesSound(sessions, messages)'
    BY <2>4 DEF TablesSound
  <2> QED BY <1>3, <2>1, <2>5
<1> QED BY <1>2, <1>4, <1>5 DEF TransactionNext

\* The other records leave the two tables.
LEMMA RecordKeeps ==
  ASSUME RecordNext PROVE TransactionNext \/ UNCHANGED <<sessions, messages, saved>>
BY DEF RecordNext, CreateRun, FinishRun, RecordEvidence, RecordToolCall, RecordToolResult

LEMMA StoreStep ==
  ASSUME StoreInv, [HistoryNext \/ RecordNext]_storeVars
  PROVE  /\ StoreInv'
         /\ Len(saved') >= Len(saved) /\ (sessions' # sessions \/ messages' # messages) =>
              \A id \in SessionIds : IsPrefix(Visible(id), Visible(id)')
<1>1. ASSUME UNCHANGED <<sessions, messages, saved>>
      PROVE  StoreInv'
  <2>1. TablesSound(sessions, messages)'
    BY <1>1 DEF StoreInv, TablesSound
  <2> QED BY <1>1, <2>1, SavedKept
<1>2. CASE TransactionNext
  <2>1. Len(saved') < Len(saved) => ~(Len(saved') >= Len(saved))
    <3>1. Len(saved) \in Nat
      BY DEF StoreInv
    <3>2. Len(saved') \in Nat
      BY <1>2, TransactionKeeps DEF StoreInv
    <3> QED BY <3>1, <3>2
  <2> QED BY <1>2, <2>1, TransactionKeeps
<1>3. ASSUME NEW id \in SessionIds, NEW parent, NEW at, CreateSession(id, parent, at)
      PROVE  /\ StoreInv'
             /\ sessions' # sessions \/ messages' # messages =>
                  \A x \in SessionIds : IsPrefix(Visible(x), Visible(x)')
  <2>1. UNCHANGED <<messages, saved>>
    BY <1>3 DEF CreateSession
  <2>2. CASE sessions' = sessions
    BY <1>1, <2>1, <2>2
  <2>3. CASE sessions' # sessions
    BY <1>3, <2>1, <2>3, CreateStable, SavedKept
  <2> QED BY <2>2, <2>3
<1>4. ASSUME NEW id \in MessageIds, NEW s \in SessionIds, NEW same \in BOOLEAN, AppendMessage(id, s, same)
      PROVE  /\ StoreInv'
             /\ sessions' # sessions \/ messages' # messages =>
                  \A x \in SessionIds : IsPrefix(Visible(x), Visible(x)')
  <2>1. UNCHANGED <<sessions, saved>>
    BY <1>4 DEF AppendMessage
  <2>2. CASE messages' = messages
    BY <1>1, <2>1, <2>2
  <2>3. CASE messages' # messages
    BY <1>4, <2>1, <2>3, AppendStable, SavedKept
  <2> QED BY <2>2, <2>3
<1>5. CASE UNCHANGED storeVars
  BY <1>1, <1>5 DEF storeVars
<1>6. CASE RecordNext
  BY <1>1, <1>2, <1>6, RecordKeeps
<1>7. CASE HistoryNext
  BY <1>2, <1>3, <1>4, <1>7 DEF HistoryNext
<1> QED BY <1>5, <1>6, <1>7

\* For any sessions and messages and any nesting of transactions: what a session shows
\* only grows at its end, whatever its ancestors get after the branch and whatever
\* branches off it, a roll-back aside.
THEOREM BranchesStayStable == StoreSpec => BranchIsStable
<1>1. StoreInit => StoreInv
  <2> SUFFICES ASSUME StoreInit PROVE StoreInv
    OBVIOUS
  <2>1. sessions = Empty /\ messages = <<>> /\ saved = <<>>
    BY DEF StoreInit
  <2>2. DOMAIN sessions = {}
    BY <2>1 DEF Empty
  <2>3. TablesSound(sessions, messages)
    BY <2>1, <2>2 DEF TablesSound
  <2>4. saved \in Seq({}) /\ Len(saved) = 0
    BY <2>1
  <2> QED BY <2>3, <2>4 DEF StoreInv
<1>2. StoreInv /\ [HistoryNext \/ RecordNext]_storeVars =>
        /\ StoreInv'
        /\ [Len(saved') >= Len(saved) /\ (sessions' # sessions \/ messages' # messages) =>
              \A id \in SessionIds : IsPrefix(Visible(id), Visible(id)')]_storeVars
  BY StoreStep
<1> QED BY <1>1, <1>2, PTL DEF StoreSpec, BranchIsStable
=============================================================================
