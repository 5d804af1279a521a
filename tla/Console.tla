------------------------------- MODULE Console -------------------------------
(***************************************************************************)
(* The operator console (src/control/): its sessions, the guards in front  *)
(* of its routes, the live policy it switches, the snapshots its streams   *)
(* push, and the start and stop of the application around it               *)
(* (src/app/index.ts).  Trades come and go by the kernel's doing.          *)
(***************************************************************************)
EXTENDS SignPolicy

CONSTANTS
  Configured,     \* a credential is configured
  Scopes,         \* the scopes it carries
  Boots,          \* [live, custody] a process may be booted with
  Cookies,        \* session ids
  MaxSessions, Ttl,
  MaxAttempts, Window,
  Streams, MaxStreams,
  MaxBuilding,    \* bound: frames of one stream under way at once
  Recent,         \* trades a snapshot looks at
  Intents, Limits, \* what is proposed to the kernel, and its policy's limits
  MaxTrades, MaxTime

\* Amounts are unsigned on the wire, the limits and the tolerance are not negative
ASSUME GuardsAssumption ==
  /\ Scale \in Nat \ {0} /\ Tolerance \in Nat
  /\ {Limits.maxFeeBps, Limits.maxSlippage} \subseteq Nat
  /\ \A i \in Intents : {i.outAmount, i.minOut, i.amount, i.fee} \subseteq Nat

VARIABLES
  boot, app,          \* how the process was booted; "new", "ready", "stopped"
  policy,             \* [kill, enabled], and whether a gateway reads it
  consoleSessions,    \* cookie -> expiry
  attempts,           \* of the one address: [n, start]
  clock,
  stream,             \* stream -> [open, building, last]
  trades,             \* states of the kernel's rows, oldest first
  judged,             \* intents past the guards, not yet reserved for
  reserved            \* the intents the rows were made for
consoleVars == <<boot, app, policy, consoleSessions, attempts, clock, stream, trades, judged, reserved>>

Live(c) == c \in DOMAIN consoleSessions /\ consoleSessions[c] > clock
Dropping(f, gone) == [c \in DOMAIN f \ gone |-> f[c]]

-----------------------------------------------------------------------------
(* Guards *)

HasScope(scope) == scope \in Scopes \/ "agent:admin" \in Scopes

\* guard: by cookie (or "token" for the bearer header)
Authenticated(who) == Configured /\ (who = "token" \/ Live(who))
Guard(who, scope) == Authenticated(who) /\ HasScope(scope)

\* writable: JSON, and from this origin when the browser says where from
Writable(request) == request.json /\ request.site \in {"same-origin", "none"}
Requests == [json : BOOLEAN, site : {"same-origin", "none", "cross-site"}]

\* verifySession drops the cookie it finds expired
Verified(who) ==
  IF who \in DOMAIN consoleSessions /\ ~Live(who) THEN Dropping(consoleSessions, {who})
  ELSE consoleSessions

-----------------------------------------------------------------------------
(* Sessions *)

\* The attempts of the address, this one included; those past the limit are alike
Counted ==
  IF attempts.n = 0 \/ clock - attempts.start >= Window THEN [n |-> 1, start |-> clock]
  ELSE [attempts EXCEPT !.n = IF @ > MaxAttempts THEN @ ELSE @ + 1]

\* createSession: expired ones go, and one more when there is no room
Pruned == {c \in DOMAIN consoleSessions : ~Live(c)}

Evict(kept) ==
  {CHOOSE c \in kept : \A d \in kept : consoleSessions[c] <= consoleSessions[d]}

SignIn(request, good, c) ==
  LET kept == DOMAIN consoleSessions \ Pruned
      gone == Pruned \cup (IF Cardinality(kept) >= MaxSessions THEN Evict(kept) ELSE {})
  IN  /\ app = "ready" /\ Writable(request) /\ Configured
      /\ c \notin DOMAIN consoleSessions
      /\ IF Counted.n > MaxAttempts \/ ~good
         THEN attempts' = Counted /\ UNCHANGED consoleSessions
         ELSE /\ attempts' = [n |-> 0, start |-> 0]
              /\ consoleSessions' = [x \in (DOMAIN consoleSessions \ gone) \cup {c} |->
                                      IF x = c THEN clock + Ttl ELSE consoleSessions[x]]
      /\ UNCHANGED <<boot, app, policy, clock, stream, trades, judged, reserved>>

SignOut(c) ==
  /\ app = "ready" /\ consoleSessions' = Dropping(consoleSessions, {c})
  /\ consoleSessions' # consoleSessions
  /\ UNCHANGED <<boot, app, policy, attempts, clock, stream, trades, judged, reserved>>

-----------------------------------------------------------------------------
(* The policy *)

\* kernelPolicyFor and the controller's ceiling: what the environment asked for
CanArm == boot.live

\* setKillSwitch: releasing one that nothing reads is refused
SetKillSwitch(engaged) ==
  IF engaged \/ policy.enforced THEN [policy EXCEPT !.kill = engaged] ELSE policy

\* setExecutionEnabled
SetExecutionEnabled(enabled) ==
  IF enabled => policy.enforced /\ CanArm THEN [policy EXCEPT !.enabled = enabled] ELSE policy

\* policyRoute
Switch(who, request, next) ==
  /\ app = "ready"
  /\ consoleSessions' = Verified(who)
  /\ policy' = IF Guard(who, "trading:execute") /\ Writable(request) THEN next ELSE policy
  /\ UNCHANGED <<boot, app, attempts, clock, stream, trades, judged, reserved>>

-----------------------------------------------------------------------------
(* Snapshots *)

\* buildSnapshot: in flight among the newest rows
InFlight ==
  {n \in DOMAIN trades : n > Len(trades) - Recent /\ trades[n] \in {"reserved", "sent"}}

\* phaseOf
Phase ==
  IF policy.kill \/ ~policy.enforced THEN "halted"
  ELSE IF \E n \in InFlight : trades[n] = "sent" THEN "settling"
  ELSE IF InFlight # {} THEN "executing"
  ELSE "idle"

\* What a frame tells: read before the holdings are awaited
Snapshot == [enabled |-> policy.enabled, kill |-> policy.kill, phase |-> Phase,
             pending |-> Cardinality(InFlight)]

Closed == [open |-> FALSE, building |-> {}, last |-> {}]
OpenStreams == {s \in Streams : stream[s].open}

\* GET /stream: the first frame is under way
OpenStream(who, s) ==
  /\ app = "ready" /\ Guard(who, "agent:read")
  /\ consoleSessions' = Verified(who)
  /\ stream[s] = Closed /\ Cardinality(OpenStreams) < MaxStreams
  /\ stream' = [stream EXCEPT ![s] = [open |-> TRUE, building |-> {Snapshot}, last |-> {}]]
  /\ UNCHANGED <<boot, app, policy, attempts, clock, trades, judged, reserved>>

\* The interval's push does not wait for the one before it
Tick(s) ==
  /\ stream[s].open /\ Cardinality(stream[s].building) < MaxBuilding
  /\ stream' = [stream EXCEPT ![s] = [open |-> @.open, building |-> @.building \cup {Snapshot},
                                       last |-> @.last]]
  /\ UNCHANGED <<boot, app, policy, consoleSessions, attempts, clock, trades, judged, reserved>>

\* Fault: the frame is written without looking whether the stream was stopped
WriteAnyway(s, frame) ==
  /\ frame \in stream[s].building
  /\ stream' = [stream EXCEPT ![s] = [open |-> @.open, building |-> @.building \ {frame},
                                       last |-> {frame}]]
  /\ UNCHANGED <<boot, app, policy, consoleSessions, attempts, clock, trades, judged, reserved>>

\* A frame is ready, or could not be built, which a comment says instead: either is
\* written unless the stream was stopped meanwhile
Unavailable == [phase |-> "unavailable"]
WriteFrame(s, frame) ==
  /\ frame \in stream[s].building
  /\ \E said \in {frame, Unavailable} :
       stream' = [stream EXCEPT ![s] = [open |-> @.open, building |-> @.building \ {frame},
                                         last |-> IF @.open THEN {said} ELSE @.last]]
  /\ UNCHANGED <<boot, app, policy, consoleSessions, attempts, clock, trades, judged, reserved>>

\* A stream that has ended, its frames under way apart
Ended(st) == [open |-> FALSE, building |-> st.building, last |-> {}]

\* The client goes
CloseStream(s) ==
  /\ stream[s].open
  /\ stream' = [stream EXCEPT ![s] = Ended(@)]
  /\ UNCHANGED <<boot, app, policy, consoleSessions, attempts, clock, trades, judged, reserved>>

-----------------------------------------------------------------------------
(* The application *)

\* createApplication and start: custody mounts the gateway, which reads the policy
Start ==
  /\ app = "new" /\ app' = "ready"
  /\ policy' = [kill |-> FALSE, enabled |-> boot.live, enforced |-> boot.custody]
  /\ UNCHANGED <<boot, consoleSessions, attempts, clock, stream, trades, judged, reserved>>

\* stop, and the onClose hook
Stop ==
  /\ app = "ready" /\ app' = "stopped"
  /\ stream' = [s \in Streams |-> Ended(stream[s])]
  /\ UNCHANGED <<boot, policy, consoleSessions, attempts, clock, trades, judged, reserved>>

\* The gateway's static guards read the same policy object the console switches
KernelPolicy ==
  [kill |-> policy.kill, enabled |-> policy.enabled, maxFee |-> Limits.maxFee,
   maxFeeBps |-> Limits.maxFeeBps, maxSlippage |-> Limits.maxSlippage, denied |-> Limits.denied,
   listed |-> Limits.listed, allowed |-> Limits.allowed]
JudgeTrade(i, confirmed) ==
  /\ Len(trades) + Cardinality(judged) < MaxTrades /\ app = "ready" /\ policy.enforced
  /\ StaticGuards(KernelPolicy, i, FALSE, confirmed)
  /\ judged' = judged \cup {i}
  /\ UNCHANGED <<boot, app, policy, consoleSessions, attempts, clock, stream, trades, reserved>>

\* The mints, the balances and the position were awaited since; the policy is not read
\* again, whatever the operator has switched
NewTrade(i) ==
  /\ i \in judged /\ app = "ready"
  /\ judged' = judged \ {i}
  /\ trades' = Append(trades, "reserved") /\ reserved' = reserved \cup {i}
  /\ UNCHANGED <<boot, app, policy, consoleSessions, attempts, clock, stream>>

\* A mint that is not supported, a cap, a balance, or a store closed by then
TradeRefused(i) ==
  /\ i \in judged /\ judged' = judged \ {i}
  /\ UNCHANGED <<boot, app, policy, consoleSessions, attempts, clock, stream, trades, reserved>>

TradeMoves(n) ==
  /\ trades[n] \in {"reserved", "sent"} /\ app = "ready"
  /\ trades' = [trades EXCEPT ![n] = IF @ = "reserved" THEN "sent" ELSE "done"]
  /\ UNCHANGED <<boot, app, policy, consoleSessions, attempts, clock, stream, judged, reserved>>

Wait ==
  /\ clock < MaxTime /\ clock' = clock + 1
  /\ UNCHANGED <<boot, app, policy, consoleSessions, attempts, stream, trades, judged, reserved>>

ConsoleInit ==
  /\ boot \in Boots /\ app = "new"
  /\ policy = [kill |-> FALSE, enabled |-> FALSE, enforced |-> FALSE]
  /\ consoleSessions = [c \in {} |-> 0] /\ attempts = [n |-> 0, start |-> 0] /\ clock = 0
  /\ stream = [s \in Streams |-> Closed] /\ trades = <<>>
  /\ judged = {} /\ reserved = {}

SwitchNext ==
  \E who \in Cookies \cup {"token"}, r \in Requests, on \in BOOLEAN :
    Switch(who, r, SetKillSwitch(on)) \/ Switch(who, r, SetExecutionEnabled(on))

AccessNext ==
  \/ Start \/ Wait \/ SwitchNext
  \/ \E r \in Requests, good \in BOOLEAN, c \in Cookies : SignIn(r, good, c)
  \/ \E c \in Cookies : SignOut(c)

SnapshotNext ==
  \/ Start \/ Stop \/ SwitchNext
  \/ \E i \in Intents, confirmed \in BOOLEAN : JudgeTrade(i, confirmed)
  \/ \E i \in judged : NewTrade(i) \/ TradeRefused(i)
  \/ \E who \in Cookies \cup {"token"}, s \in Streams : OpenStream(who, s)
  \/ \E s \in Streams : Tick(s) \/ CloseStream(s) \/ \E f \in stream[s].building : WriteFrame(s, f)
  \/ \E n \in DOMAIN trades : TradeMoves(n)

ConsoleSpec == ConsoleInit /\ [][AccessNext \/ SnapshotNext]_consoleVars

-----------------------------------------------------------------------------
(* Properties *)

\* Nothing is written to a stream that has ended, although its last frames may still
\* be awaiting the wallet's holdings when the client or the daemon goes
NoFrameAfterEnd == \A s \in Streams : ~stream[s].open => stream[s].last = {}

\* Within the policy's slippage, its tolerance and less than one basis point of rounding,
\* and within the fee share, computed without either division of the guards
Bounded(i) ==
  /\ (i.outAmount - i.minOut) * Scale
       < (Limits.maxSlippage + Tolerance + 1) * (IF i.outAmount > 0 THEN i.outAmount ELSE 1)
  /\ i.mint \in {"sol", "usdc"} /\ i.amount > 0 => i.fee * Scale <= i.amount * Limits.maxFeeBps

\* Whatever the operator switches while its mints and balances are awaited, an intent the
\* kernel reserved for gives up and pays no more than the policy's limits
ReservedIsBounded == \A i \in reserved : Bounded(i)
=============================================================================
