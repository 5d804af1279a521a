# ari-os: models, checks and proofs

ari-os is a TypeScript agent operating system that trades on Solana. An agent
runtime proposes actions; durable queues, event buses and schedulers drive them;
an approval engine, a capital ledger, a live-trading orchestrator and a separate
signer process stand between a proposal and a broadcast transaction; a second,
smaller money path (the kernel) executes autonomous strategies under spend caps,
on swap, perps and liquidity venues.

This directory holds TLA+ modules of the parts whose correctness depends on the
order of steps: what several processes over one SQLite file, several awaits of
one event loop, a crash between two statements, a lost RPC answer or a market
that moves between a quote and its fill can do. TLC checks them on small
instances; TLAPS proves all of their safety properties for every instance. Paths below are relative to the repository's `src/`.

## 1. Inventory

| component | state it keeps | operations | what is hard | correct when |
|---|---|---|---|---|
| job queue (`autonomy/jobs`) and worker (`workers/jobs`) | tables `jobs`, `job_attempts` | enqueue, cancel, claim, heartbeat, complete, fail; the worker loop, drain | several slots share ONE worker id; stale leases; crash between claim and complete; backoff overflow | one linear, bounded life per job; stale leases harmless; everything settles |
| approval engine (`execution/approvals`) | requests, decisions, audit events | request, get, decide, revoke, consume | several processes; expiry read outside its transaction; operator roles change at restarts | quorum of distinct operators; the audit trail tells why a request ended |
| signer (`signer`, `bin/signer`) | replay store: one row per authorization | sign, result, broadcast, reconcile; decoder and policy | await between every check; crash between signing, storing, sending; two reconcilers | one signature per authorization; settled rows are right |
| live trading (`live-trading`, `execution/authorization`) | executions; approval, reservation and signer through their interfaces | execute, approve, deny, submit, recover, reconcile | every await; retries by the timer, the API and the CLI; blockhash and quote expiry | signed only if approved; whatever was sent is recorded and settles |
| reservation ledger, trading control (`execution/control`) | reservations, last reconcile status | reserveWithin, TradingControl.reserve, release, commit, reconcile, lazy expiry | rolling windows, rows that move in time, reconcile in two halves | caps hold in every window |
| kernel (`kernel`) | idempotency keys, trades, spends; the boot lock | execute, recover; acquire, release | spend and row written in separate statements; time read before awaits; recovery at boot | caps hold; one signature per key; spend agrees with row; one holder |
| event bus, triggers (`autonomy/events`) | outbox, offsets, retries, dead letters; seen, pending and fired triggers | publish, process, retry; evaluate, flush | handler awaited in an open transaction; publish overtakes a retry; crash inside flush | each event once and in order; one trigger per cooldown |
| scheduler and cron (`workers/jobs`, `autonomy/jobs`) | schedules with next fire time | tick, upsert, remove | crash between enqueue and update; upsert during a tick | every slot has its job, no key is poisoned |
| delegation (`autonomy/delegation`) | queue, running children, counts | delegate, cancel, answer, verify, announce | cancel against completion, deadline against late answer | lanes and counts given back exactly once |
| strategy runner (`strategy`) | strategy rows | step, pause, resume, cancel | row read before awaits and saved whole | every landed swap accounted for |
| agent runtime, model router, tools (`agent`) | run row and events, transcript, tool lifecycle, provider health | the loop, failover, retries, tool execution with timeout | a tool outlives its timeout or its run; a provider fails after a trade | effects are recorded; no second provider is asked after a trade |
| sessions (`storage`) | sessions, messages, runs, exchanges | nested transactional writes, branching | branch read while its ancestors grow; rollback | what a branch shows only grows at its end |
| gateway core, Telegram (`gateway`, `telegram`) | offset file, memo of answers, owners | poll, handle, dispatch | crash inside a batch; retry of a frame | a message is acted upon at most once |
| operator console (`control`) | sessions, throttle, live policy, streams | login, arm, kill, stream, push, stop | frames under way when a stream ends; policy switched in between | nothing after the end; reserved intents within limits |
| execution gateway (`execution/gateway`, `rpc-simulator`, `simulation`) | the call of prepare, the node's slots | simulate, judge, sign, send | the chain moves between requests, the node answers from any slot | what can reach the network is within the caps |
| pools (`pools`), perps (`perps`) | curve, positions, rebalance ledger, orders | guards, curve and bin arithmetic; open, adjust, close, buy, sell, rebalance | rounding; market moves while the transaction is built; two tools judged at once | a buy within its budget, dust neither lost nor invented, reduce-only |
| market data (`data`, `market`) | sockets, subscriptions, tape | watch, reconnect, watchdog, score | socket generations, launches during a reconnect | a dead feed comes back, or blocks buys |
| cognition, vault, chain client, risk and intelligence adapters, observability, MCP framing, CLI and web display | text, files, registries | – | – | see "Not modelled" |

Interactions: the worker runs handlers of the autonomy layer; the scheduler feeds
the queue through its idempotency keys; the orchestrator calls the approval engine,
the ledger, the authorization issuer and, over a socket, the signer; the signer and
the orchestrator both talk to the cluster; the recovery timer of `app` drives the
orchestrator; strategies and venue tools call the kernel's gateway; the agent's
intent tools are bridged to executions. The processes (API server, CLI, signer
daemon) share the data directory. `PROJECT.json` lists every component with its
status and every hazard with its line and the properties that watch it.

## 2. Modules

| module | models | instance |
|---|---|---|
| `JobLifecycle` | abstract: what a caller of the queue may observe | refined by `JobQueue` |
| `JobQueue` | both tables, every method, worker slots, crash, drain | `MCJobQueue` |
| `LiveTrading` | the orchestrator composed with the approval engine, the ledger, the signer and the cluster as it sees them | `MCLiveTrading` |
| `TradeSettlement` | abstract: how the money and the row of a trade are settled | refined by `KernelGateway` |
| `KernelGateway` | gateway, store and boot-time reconciler of the kernel | `MCKernelGateway` |
| `Approvals`, `Signer`, `ReservationLedger` | the three controls with their own databases | `MCControls` |
| `EventBus`, `MarketTriggers`, `Scheduler`, `Delegation`, `StrategyRunner` | the autonomy layer | `MCAutonomy` |
| `PerpsGuards` ⊂ `PerpsTrading`; `PoolGuards` ⊂ `BondingCurve`, `Liquidity`; `MarketFeed` | venues: pure guards and arithmetic, extended by the tools that use them and the market around them | `MCVenues` |
| `ModelRouter` ⊂ `AgentRuntime`; `Sessions`; `SignPolicy` ⊂ `Console`, `Simulation`; `Channels` | runtime, stores, console, channels, execution gateway | `MCRuntime` |
| `ProcessLock` | the kernel's boot lock | `MCProcessLock` |
| `Filters`, `Units` | what the others share: dropping elements from a queue or a batch; base units and basis points | |
| `JobQueueProofs`, `KernelGatewayProofs`, `LiveTradingProofs`, `ControlsProofs`, `AutonomyProofs`, `RuntimeProofs`, `VenueProofs` | the theorems, one module per MC module | |
| `DataTheorems` | lemmas on sums over finite sets, on filters of sequences and on quotients, used by the proofs | |

(A ⊂ B: B extends A.) The MC modules of the last four groups hold components with
databases of their own that meet only through interfaces the models contain. A
variable `focus` picks the component a behaviour moves, so that the state space is
the sum and not the product of the components'; the others stay in their initial
states. An MC module extends its components, so that a run and a theorem speak of one
definition and TLC evaluates the assumptions the theorems rest on. `MCControls`' symmetry sets are used by more than one component, which is
sound because only one of them moves.

Conventions. An action is one transaction, one autocommitted statement or the
code between two awaits; where a handler awaits, its continuation is a record
(`call`, `rec`, `lease`, `peek`, `step`) that carries exactly what the code keeps in
local variables, so that stale reads are stale in the model too. Refusals that change
nothing are not steps; a refusal that commits something (an expiry, a swept
lease) is. Time is one integer clock; the processes run on one machine.
Definitions whose comment begins with *Fault* are plausible bugs: the mutants put
them in place of the definition that follows and the named property must break.

**JobQueue.** `row` is table `jobs`, `attempt` is `job_attempts`, `lease` the
`Lease` object a `runOnce` works under. `claim` first recovers every expired lease
and may hand out a recovered job in the same transaction; both outcomes are the
actions `Claim` and `ClaimNothing`. Slots of one worker share the worker id, so
that only the fencing token separates their leases. Payload validation and
canonical JSON are reduced to the identity of the job (its idempotency key). `fail`
that overflows the safe-integer range throws; the rejected `runOnce` ends the
process (`BackoffOverflow`).

**Approvals.** `decide`, `revoke` and `consume` are transactions; `request` writes row
and audit event separately; `get` reads before it opens the transaction that
expires. Proof verification, challenge and binding comparison are guards whose
failure changes nothing. `Restart` replaces the operators a process is configured
with.

**Signer.** `call` is a sign request between its awaits (verification, height,
fence, send), `rec` a reconciliation of one listed row. Envelope and policy checks
are one guard here; what they compute is `SignPolicy`. Answers of `sendTransaction`
may be lost or name another signature. The cluster does not abandon processed
transactions.

**LiveTrading.** One row per idempotency key, one continuation per operation in
flight. A block height is sampled by the node at any time between request and
answer: a call notes whether the blockhash was alive when it asked (`alive`) and may
be told so later. Risk and simulation hashes are memory of one process (`known`).
The approval is requested with execute-time evidence and consumed with the quote's;
`same` records whether they agree. Recovery takes the first `Limit` rows (100 in the code) of
those it lists, in the order of their insertion (`before`); `timer` holds the processes whose
`start()` came as far as the reconciliation timer, others recover only when the API asks.
`ReservationExpires` (one hour) fires only when the
quote (30 s) and the blockhash (about a minute) are long dead and nothing is in
flight. Not distinguished: forks, a policy without approvals, the revoke path.

**ReservationLedger.** `client` picks the front end; they do not share a ledger. The
quote value of a row is its amount. Rows inserted by `reconcile` are marked
`imported` and are not counted by the cap properties, since no cap is asked for them.
A request carries its caller's time, which stamps and expires rows and bounds `usage`; a
commit and a reconcile use the ledger's clock. A row is marked `skewed` when its caller's
clock was ahead of the ledger's or behind a row of the asset: such a request may exceed the
hour, and `HourlyHolds` sums the others. `Ttl <= Window` is assumed because both
default to 3600 s; `HourlyHolds` needs it.

**KernelGateway.** Every `execute` is a trade of its own. Steps end at awaits and
between separately autocommitted statements. `confirm` may answer *expired* while the
transaction is in flight (timeout); recovery may be told *unknown* for any
transaction (it left the recent cache). `Crash` is death, boot and the listing of
the rows in `sent`. `revived` marks a released spend that recovery consumed. The
guards before the reservation are one nondeterministic refusal; journal and
dry-run preview write nothing the properties read. `TradeSettlement` says what this
looks like from outside: no process, crash or recovery, and row and money change
together. The mapping (`SeenRow`, `SeenMoney`) counts the money of an open row as held,
whichever of its states has already been written, so the first of the two writes is a
stutter and the second one settles. A failed trade keeps its money spent only if it did
land (recovery was told *unknown* after the spend had been consumed).

**EventBus.** Deliveries of a process wait in one promise chain (`chain`). A handler
is awaited inside an open transaction of the only connection, so an event published
meanwhile is part of that transaction and is lost with it; AUTOINCREMENT hands out a
rolled-back cursor again. The attempt is counted before the transaction that dead-letters
the event, with a crash between the two (`CrashAfterCount`). A stored event that the present schemas refuse is left out of
a replay (`Stale`).

**MarketTriggers, Scheduler.** Thresholds, debounce and cooldown over the three trigger
tables, with a crash after each statement that commits. `tick` enqueues and moves each
due row in two statements; a crash between them repeats the slot, whose key the queue
knows. Cron fields keep their parts (range and step) and the day-of-month/weekday
rule; month, day, hour and minute are searched in a small calendar given by constants.

**Delegation.** `phase` says which of `#run`'s awaits a child is in; a late answer
after cancellation or deadline is a step that must change nothing. `#drain` is a
microtask.

**StrategyRunner.** A step carries the copy of the row that `due()` returned. The
kernel is seen through its idempotency keys `strat_<id>_<runs>`: a key it has met is answered
with an error. `lost` collects outcomes that a crash or an uncertain answer kept from the row;
a pause set while a step is under way is overwritten by the step's save.

**PerpsTrading.** The tool reads caches without giving way, waits for the transaction
to be built, then judges with the policy it finds. A tool call ends with its proposal, so
`Orders` are not callers but slots for all that is outstanding at once: calls that build, proposals
nobody has taken up, orders on the exchange. An order, at the market or at a limit, fills late,
in parts or not at all, and after `Settle` it rests with what is left of it until the
exchange ends it; no snapshot shows it. Ratios count in basis points, a missing price is 0 and fails closed. `lowest` is a
history variable: it records the lowest price a proposal to open has used of each market, and
no action reads it but to lower it. The owner trading elsewhere closes or turns a position;
what the owner adds outside the code is not held against its caps.
**BondingCurve**, **Liquidity.** Integer quotes with the code's roundings; the program on
the chain fills at the reserves it finds within the bound the transaction carries.
The Drift and Meteora SDKs and the on-chain programs are external.
**MarketFeed.** Socket generations with their late events, the watchdog, subscriptions,
the bounded tape and the rug-heat score in integers (the code's terms are rounded
percentages).

**AgentRuntime.** The loop with its three budgets, the durable row, the transcript
and the tool lifecycle records; tools keep executing after a timeout, a cancellation or
the end of the run. `persistMessage` and `persistToolLifecycle` are options of the
runtime that an application may leave out; the model is of a runtime that has them, and
`EffectsAreRecorded` is a statement about such a runtime. The router's
candidate order, retries and health are `ModelRouter`.

**Sessions.** Every write inside nested transactions (`saved` is the stack of
savepoints). **Console.** Login, throttling, arming ceiling, stream slots, snapshots
that await the wallet or cannot be built, shutdown; the trades beside it pass the kernel's
static guards of `SignPolicy` first and are reserved after awaits, when the policy is not
read again. **Simulation.** prepare (simulate and judge) and execute (claim, sign and send)
against a chain that moves: execute takes any transaction with an envelope, also one that
prepare never saw, and a caller of prepare may leave out the block height. An instruction's
`does` is what its program makes of the accounts, read by no code; the cluster charges the fee
payer. **Channels.** The offset is written before an update is acted upon; `load` answers
0 for a file it cannot read, and Telegram then hands out again what no offset has confirmed
(`acked`); update ids may have gaps. A frame is answered from the memo of its principal,
session and key; a session is claimed with an account.

**ProcessLock.** One system call per step; no code of the application takes the lock
yet.

## 3. Runs

| run | states | what it shows |
|---|---|---|
| `job_queue` | 73 k | `AttemptsAgree` (fencing, budget), `ResultOfOneAttempt`, the refinement `ImplementsLifecycle`; `EveryJobSettles` |
| `live_trading` | 2.04 M | `SignedOnlyApproved`, `SentIsRecorded`, `ExpiredNeverSent`, `SettledAgrees` |
| `live_trading_liveness` | 6.0 k | `BroadcastSettles` |
| `kernel` | 712 k | `CapHolds`, `SentIsRecorded`, `OneSignaturePerKey`, `ConfirmedIsCounted`, `FailedIsReleased`, the refinement `ImplementsSettlement` |
| `controls` | 422 k | `QuorumApproved`, `AuditTellsStatus`; `SignedAtMostOnce`, `SettledAgrees`, `DroppedStaysOut`; `CapHolds`, `HourlyHolds` |
| `autonomy` | 3.77 M | `OnceInOrder`, `FiresApart`, `SlotsCovered`, `SlotsReturned`, `CancelledNotAnnounced`, `TradesAccounted` |
| `venues` | 894 k | `OvershootBounded`, `ReduceOnlyShrinks`, `BuyWithinBudget`, `SplitIsExact`, `FeedFailsSafe` |
| `runtime` | 442 k | `EffectsAreRecorded`, `NoFallbackAfterEffect`, `BranchIsStable`, `NoFrameAfterEnd`, `ReservedIsBounded`, `ActedOnce`, `SentIsSafe` |
| `live_trading_counted`, `kernel_unwound`, `process_lock`, `strategy_replay` | violation | findings 1, 2, 3, 4 |

Each property's comment in its module says what it means for the code.

Bounds.

- `job_queue`: 1 job, 3 attempts, 2 workers (one of which may drain), 3 slots (two of one
  worker), lease 2, backoff 12, clock and safe integer 24: the first backoff fits, the second
  overflows at any time it can happen, and the last lease still ends in time.
- `live_trading`: 1 execution, 2 operations of any kind, 2 authorizations. Liveness:
  two executions with stored signatures, one that nobody reconciled in time and one about to be
  broadcast, a list of which one row is taken, one operation at a time, finality at `finalized`.
- `kernel`: 2 executes, 2 keys, amounts 0 (a sell), 1, 2; windows 1 and 2; clock 3.
- `controls`: 1 request, 3 operators, 2 processes, 3 nonces, clock 1 (before and after the deadline); 1 authorization,
  2 sign requests, 2 reconcilers, height 2; 3 reservations of one asset, amounts 1–2, one
  denomination and none, window and lifetime 2, clock 2, callers' clocks one ahead or behind,
  a snapshot of time and amounts 1.
- `autonomy`: 3 events (one refused by the schemas), 2 consumers, 2 attempts, batches of 2;
  6 market events, debounce 0 or 1, cooldown 2, clock 4; one schedule of kind at, every
  or cron, clock 12; 3 children, depth 2, 2 lanes; a dca (budget 5, steps of 2) and a
  trailing stop, 3 runs each.
- `venues`: 2 markets, prices 10 or 8 (mark 9), 2 orders outstanding at a time (one
  kind of them a limit order, the slots symmetric), 3 tool calls in all, and one
  step of the world by itself (a price or condition, a disconnect, a switch of the operator,
  a trade of the owner elsewhere); 2 curve calls at a time (sells of a
  share or of an amount, also of more than is held) with 2 trades of others; 2 positions, 2 tool
  calls and bins 0–4; 2 mints, 3 socket generations, clock 3.
- `runtime`: 2 providers, 3 iterations, 3 tool calls, 1 crash; 3 sessions, 3 messages, transactions
  not nested; 2 console sessions, 1 stream with 2 frames under way, 1 trade; 3 updates (ids 1, 2, 4) with 3 failures; 4
  frames; 5 composed transactions over 2 slots.

Why these bounds are enough. One job, request, authorization or execution suffices
where rows do not influence each other: all statements are keyed by the row, and
what crosses rows is tried with two or three of them (spends under one cap,
reservations of one asset, orders under one portfolio cap, children of one parent).
Two contenders are needed for every race and three slots for *same worker id, other
lease* next to *other worker*; three attempts, iterations, sessions or socket
generations give a first, a middle and a last one. The clocks allow a lease, a window
or a quote to end, and something to happen after it. The theorems below remove the
bounds for the properties they name. `CHECK_DEADLOCK FALSE` stands where the system may
stop: all jobs terminal, all requests ended, no operation left and the bounded clock at
its end.

Fairness. `JobQueue.FairSpec`: time passes, a worker that is not draining keeps
polling (`run`'s loop), no handler runs for ever. Crashes, cancellations and
heartbeats are not fair, so they may happen at any time or never. In the run one worker
may be drained and the other may not, since a drained fleet rightly leaves jobs waiting.
`LiveTrading.FairSpec`: awaits answer or time out, time passes, the cluster confirms
what it processed, and a process that has the recovery timer (`app`) takes up each row of
its list again and again: a pass goes through all of them, and the list is taken anew at the
next. Crashes and RPC failures interrupt a reconciliation any number of times
but not every single time: strong fairness of its steps. Neither the existence of a timer nor
a row's place in the list is assumed: `BroadcastSettles` promises the settlement to a row that
from some time on has both (`Attended`).

## 4. Findings

1. `LandedIsCounted` (`live_trading_counted`, `src/live-trading/index.ts:715`). `expire`
   releases the reservation before the compare-and-set that tells whether the row is
   still the one it read. A submit that saw `signing` can take the reservation of a
   trade another call has broadcast and that landed. README: "Reservations count
   pending exposure before another trade can pass policy."
2. `ConfirmedNotUnwound` (`kernel_unwound`, `src/kernel/trade-gateway.ts:324`). A failing
   balance read after a confirmed transaction fails the trade and releases its
   reservation; the comment of `#settle` calls exactly this "a lie" for the position
   read at the same point.
3. `OneHolder` (`process_lock`, `src/kernel/lock.ts:46`). A stale lock file is removed by
   its path after the check that found it stale, so the file of a process that
   created it meanwhile can be removed and both hold the lock; the same happens when
   the file is read between its creation and the write of the pid. The comment says
   the lock makes one writer per home directory "an enforced invariant".
4. `ReplayedNotRepeated` (`strategy_replay`, `src/strategy/runner.ts:161`). When the process dies
   between a swap and the save of the row, the step is repeated under the same key; the comment
   says the kernel "returns the original outcome instead of trading twice". The kernel answers
   `DUPLICATE_INTENT`, the executor reports a failure, the runner counts an error and a run
   without the progress, and the next step trades the same slice again under the next key: the
   schedule exceeds its budget. `TradesAccounted` says how much it can be: what the row never
   learned of.

Smaller disagreements between words and code, contained in the models and not the
subject of a run:

- `README.md:334` says "Retries are bounded, poison work is dead-lettered"; an event that waits
  for its retry is passed for good, neither retried nor dead-lettered, when an event
  published later commits first and moves the offset (`Skip`).
- `src/perps/tools/deps.ts:79` maps "EVERY failure" to a fail-closed snapshot; a position in a
  market without a usable oracle is left out of the positions instead, and of the
  exposure. `OvershootBounded` values such a position at nothing from then on.
- `src/perps/drift/drift-venue.ts:300` (`getPositions`) leaves out orders that rest on the exchange, and
  nothing bounds how many proposals and orders are outstanding: the portfolio cap of
  `src/perps/guards.ts:376` holds up to one order's cap for each of them (`OvershootBounded`).
- `tests/pools-tools.test.ts:589` calls the capped input leg the worst case, `max_sol_cost`; the
  spend cap of `guardCurveBuy` (`src/pools/tools/pumpfun.ts:242`) sees the nominal budget.
- `src/execution/rpc-simulator.ts:455`: a token account that the transaction closes has no
  state after it and yields no token delta, so that prepare passes a transaction that burns and
  closes an account of any mint. `SentIsSafe` names this as its one exception.
- `src/signer/policy.ts:73` calls a cap the "maximum total base units that may leave the wallet
  per tx"; the fee the wallet pays is held against `maxPriorityFeeLamports` only and never added
  to the native total (234-240), and the fee per signature against nothing. `SentIsSafe` states
  the bound that holds: the cap and the fee ceilings together.
- `src/agent/runtime/index.ts:272`: all calls of a turn are compared with the counts from
  before the turn, so that one turn may repeat a call beyond `maxRepeatedToolCalls`.
- `docs/TRADING.md` §10: rows imported by reconcile carry no valuation, are never removed
  once committed, and so block aggregate reservations for good.

Behaviour the models contain and no document contradicts: a kill switch engaged while an intent
that passed the guards awaits its mints or balances does not stop it
(`src/kernel/trade-gateway.ts:147`, 198); `usage` leaves out rows later than
the caller's time (`src/execution/control/index.ts:455`), so a request of a caller whose clock is
behind a commit stamped by the ledger's clock (431) can exceed the hourly limit; a Telegram message, an approval
command too, is acted upon again when the process restarts and the offset file cannot be read
before Telegram has been asked with an offset beyond the message; a trade can be recorded as
dropped although it landed (status read before the height, or status out of the recent
cache); an execution can be authorized twice when the signer's first answer is lost; a
row stays in `signing` after a restart because the hashes were in memory, and such rows keep
their places among the 100 that recovery takes; a process whose `start()` met a failing check
or first recovery has no reconciliation timer until it is restarted; a crash between
row and event of `request` leaves a live request without its `created` event; a claimed
authorization stays claimed when its process dies; a released kernel spend that recovery
finds confirmed comes on top of the cap (`revived`).

## 5. Proofs

Every theorem has the form `Spec => []P` (or `[][A]_vars`, or for the two refinements
`Spec => Abstract!Spec`), where `P` is the definition the run checks, and follows from an
inductive invariant. The constants are arbitrary but for
the named assumption of each module, which says what the code's configuration or its
validation guarantees; TLC evaluates it on the run's instance. The bounds on clocks and
counters are constants too, so a theorem holds for every bound.

| module | theorem | property | assumption |
|---|---|---|---|
| `JobQueueProofs` | `TypeCorrect`, `TablesAgree`, `SucceedsOnce`, `RefinesLifecycle` | `TypeOK`, `AttemptsAgree`, `ResultOfOneAttempt`, `ImplementsLifecycle` | `JobQueueAssumption` |
| `KernelGatewayProofs` | `CapsHold`, `SentAlwaysRecorded`, `KeySignsOnce`, `ConfirmedCounts`, `FailedReleases`, `RefinesSettlement`, `SettledForEver` | `CapHolds`, `SentIsRecorded`, `OneSignaturePerKey`, `ConfirmedIsCounted`, `FailedIsReleased`, `ImplementsSettlement`; `TerminalIsFinal` (stated with its proof) | `KernelAssumption` |
| `LiveTradingProofs` | `SignsOnlyApproved`, `SentStaysRecorded`, `BurnsOnlyUnsent`, `SettlesAsCluster` | `SignedOnlyApproved`, `SentIsRecorded`, `ExpiredNeverSent`, `SettledAgrees` | `LiveTradingAssumption` |
| `ControlsProofs` | `QuorumAlways`, `AuditAlways` | `QuorumApproved`, `AuditTellsStatus` | `ApprovalsAssumption` |
| | `LedgerCapHolds`, `LedgerHourlyHolds` | `CapHolds`, `HourlyHolds` | `LedgerAssumption` |
| | `SignsOnce`, `SettlesAsLanded`, `DropsForEver` | `SignedAtMostOnce`, `SettledAgrees`, `DroppedStaysOut` | `SignerAssumption` |
| `AutonomyProofs` | `OnceInOrderAlways` | `OnceInOrder` | `BusAssumption` |
| | `FiresApartAlways` | `FiresApart` | `TriggerAssumption` |
| | `SlotsAlwaysCovered` | `SlotsCovered` | `SchedulerAssumption` |
| | `SlotsAlwaysReturned`, `CancelledNeverAnnounced` | `SlotsReturned`, `CancelledNotAnnounced` | `DelegationAssumption` |
| | `AccountsAlways` | `TradesAccounted` | `StratAssumption` |
| `RuntimeProofs` | `EffectsAlwaysRecorded`, `NeverFallsBackAfterEffect` | `EffectsAreRecorded`, `NoFallbackAfterEffect` | `RepliesAssumption` |
| | `BranchesStayStable` | `BranchIsStable` | `SessionsAssumption` |
| | `NoFrameAfterTheEnd`, `ReservedIsAlwaysBounded` | `NoFrameAfterEnd`, `ReservedIsBounded` | `GuardsAssumption` |
| | `ActsOnce` | `ActedOnce` | `UpdatesAssumption` |
| | `SentIsAlwaysSafe` | `SentIsSafe` | `RulesAssumption`, `PreparedAssumption` |
| `VenueProofs` | `BuysStayWithinBudget` | `BuyWithinBudget` | `UnitsAssumption`, `CurveAssumption` |
| | `SplitsAreExact` | `SplitIsExact` | `UnitsAssumption`, `LpAssumption` |
| | `ReduceOnlyAlwaysShrinks`, `OvershootAlwaysBounded` | `ReduceOnlyShrinks`, `OvershootBounded` | `UnitsAssumption`, `PerpsAssumption` |
| | `FeedAlwaysFailsSafe` | `FeedFailsSafe` | `FeedAssumption` |

What makes the properties inductive:

- **Job queue.** The argument goes job by job: `Consistent(r, a, max)` relates one row to its
  attempts; closing the current attempt and the sweep preserve it; `claim` opens attempt
  `count + 1` of a job that has none open. As a consequence the queue's internal errors
  ("Expired attempt missing or already finalized", "Attempt finalization failed") are
  unreachable. For the refinement, each action moves each job by a step of `JobLifecycle` or
  not at all; since one claim may sweep many jobs, the abstract step moves any set of jobs.
- **Kernel.** A row's key is owned by its trade, each place of the continuation fixes which of
  its two writes an execute has made (`CallAgrees`), and recovery only holds rows in `sent`
  whose execute died with the process. For the cap, a reservation is checked against the sum
  of what is pending or consumed in the window: the sum only grows by the new amount, and
  time passing or a release only takes from it. For the refinement, a consumed spend has
  landed and an execute before its insert holds a spend that is none or reserved
  (`SpendAgrees`); then each action writes row and spend of one trade, and is a step of
  `TradeSettlement` or changes nothing that is seen (`ClosingSettles`, `StepSettles`).
- **Live trading.** A row with a signature never goes back to a state without (`RowAgrees`), so
  a burn decided before an await meets no such row when its compare-and-set comes
  (`CallAgrees`); nothing undoes a consumption of the approval. A drop is decided after a
  height past the last valid one and a blockhash does not come back (`DropAgrees`).
- **Approvals.** `decide` counts rows, the property counts people; they agree because an
  operator decides a request once (`Distinct`). The first denial ended the request
  (`DenialEnds`). Every transaction that moves a status appends its event at that revision.
- **Ledger.** The hourly limit is not inductive: `commit` moves a row into the hour that ends
  now. So the invariant counts open reservations there already (`BookedHolds`), which they are
  because a reservation does not outlive the window (`Timely`, `Ttl <= Window`); a request in
  step has every own row of its asset at or before its time, so it counts them all.
- **Signer.** A request past the claim owns its claimed row alone (`ClaimsApart`); a listed row
  moves only among the signed states; a status or height once read stays true, since the
  cluster only moves on (`RecAgrees`).
- **Event bus** (`BusInv`). Whatever a consumer committed or gave up is at or below its offset,
  and the open transaction is of a cursor beyond it. **Triggers** (`TriggerInv`): the stored last
  firing is the latest of its key, and every firing and every pending key has a seen event of
  its own. **Scheduler** (`SchedInv`): what a row and a tick in progress mean for the slots that
  have a job. **Delegation** (`DelInv`): which status, phase, count and announcement go
  together, and the queue names a queued child once. **Strategies** (`StratInv`): the copies of a
  pass are of different strategies and equal the stored rows but for the status.
- **Agent loop** (`AgentInv`). The turn that holds a call is in the transcript before the call
  starts, and once a trade may have run, the loop is past the point at which it changes
  providers. **Sessions** (`StoreInv`): the cut of a branch is at a row that exists once, also
  in every savepoint; a new row lies past every cut and a new session is nobody's ancestor.
  **Console** (`StreamInv`, `JudgedInv`): both ways to end a stream clear what was last on it; an
  intent is within the limits from the moment it passes the guards. **Execution gateway** (`SimInv`): evidence names a slot whose state the chain keeps, and what is
  on the wire passed the signer's policy. That the operator's rules describe what programs take
  and what the compute budget costs is `RulesAssumption`. **Channels**
  (`ChannelInv`): what lies from the offset on, from the first of the batch on, and the update in
  hand were acted upon no more often than an offset beyond them could not be read (`unread`).
- **Bonding curve** (`CurveInv`). The virtual reserves stay above the real ones, so no division
  is by zero; the round-up of the tokens makes the cost fit the net amount (`TokensFit`,
  `CostFits`), and the fee on it fits the rest. **Liquidity** (`LpInv`): the remainders of the
  floored shares add up to the shortfall times the sum of the weights, so the shortfall is
  less than the number of bins with a remainder, and ranks being different, exactly as many
  bins get one unit more (`RanksCount`, `DistributeExact`). **Perps** (`PerpInv`): an order of a
  reducing kind carries the flag and a side; the fill is bounded by the position it meets.
  For the overshoot (`OvershootInv`), an opening order that may still fill weighs what is left
  of it, in base units at the price it was sized at, settled or not; positions and weights
  together stay within the bound. A proposal that passes the caps has counted every position but
  for the rounding (`SnapshotCounts`) and the other orders weigh one cap each (`WeightSound`); a
  fill, in however many parts, turns weight into position (`FillWithinWeight`); what moves the prices moves neither,
  because positions are valued at the history variable `lowest`.
  **Feed** (`FeedInv`): at most one socket counts, the current one is watched once it is open
  and knows every subscription, and there is a timer exactly when there is none.

Induction over data. The library's induction theorems take an operator as a parameter, which
the provers cannot instantiate. `DataTheorems` does induction with a set instead: the numbers
for which a claim fails have a least one (`SetInduction`, `SubsetInduction`). From this it
derives that `SumFunctionOnSet` does not depend on the order of its fold or on what the
elements are called, is monotone, linear and counts, and what a filter keeps of a sequence.

Only model-checked:

- `EveryJobSettles` and `BroadcastSettles`: liveness under fairness is out of the prover's reach.
- The four runs of section 4, whose properties do not hold.

## 6. Not modelled

- Cognition (memory, skills, context): ranking and packing of text by floating-point
  scores and token counts; the stores' writes are single statements nobody races.
- Vault and keystore files, the chain client's encoding, log, metrics and audit output, HTTP,
  WebSocket and MCP framing, plugin registration, CLI and web display: formats and pure I/O
  without behaviour over time.
- Risk and intelligence adapters: stateless scoring of provider answers.
- `market/ohlcv.ts`: one request and its parsing.
- Web fixtures and the kernel's type declarations: data without behaviour.
- `HostAuthorizationVerifier` is not wired into the application.
