---------------------------- MODULE AgentRuntime ----------------------------
(***************************************************************************)
(* One run of the agent loop (src/agent/runtime/index.ts) over the model   *)
(* router and the tool registry (src/agent/tools/registry.ts), with its    *)
(* row in the run store (src/storage/run-store.ts, src/server.ts).  A tool *)
(* that timed out, or whose run was cancelled, keeps executing.  A call is *)
(* [id, name]; the name stands for its arguments too.                      *)
(***************************************************************************)
EXTENDS ModelRouter, Folds

CONSTANTS
  Providers,        \* how many model providers are configured
  Replies,          \* what the model endpoint may answer
  Tools,            \* name -> [effect, denied]; other names are not registered
  Granted,          \* the tools whose capabilities the run has
  MaxIterations, MaxToolCalls, MaxRepeated,
  Retention,        \* events a run keeps
  MaxCrashes

\* A reply's calls are a sequence
ASSUME RepliesAssumption ==
  \A r \in Replies : Len(r.calls) \in Nat /\ DOMAIN r.calls = 1..Len(r.calls)

VARIABLES
  run,         \* the loop's local state
  row,         \* the durable row: [status, key, events]
  blocked,     \* provider -> candidates its router's health tracker holds back
  transcript,  \* messages persistMessage stored
  lifecycle,   \* records persistToolLifecycle stored
  executing,   \* tool executions under way: [it, call]
  effects,     \* executions that did what they were asked
  asks,        \* [provider, after]: providers asked, and whether a trade had taken effect
  crashes
agentVars == <<run, row, blocked, transcript, lifecycle, executing, effects, asks, crashes>>

Idle == [phase |-> "idle"]

-----------------------------------------------------------------------------
(* The run store and POST /v1/runs *)

NoRow == [status |-> "none"]

\* emit: numbered from the largest kept, the oldest dropped
Emitted(r, n) == [r EXCEPT !.first = IF r.last + n - Retention + 1 > @
                                     THEN r.last + n - Retention + 1 ELSE @,
                           !.last = @ + n]

\* create, when the key has no run yet; the loop starts in a microtask
Submit ==
  /\ row.status = "none"
  /\ row' = [status |-> "running", first |-> 1, last |-> 1]
  /\ run' = [phase |-> "iterate", iteration |-> 1, provider |-> 1, index |-> 1, walk |-> Walk(<<>>),
             count |-> 0, side |-> FALSE, repeated |-> [t \in DOMAIN Tools |-> 0],
             messages |-> <<>>, batch |-> <<>>, now |-> 0, aborted |-> "no"]
  /\ UNCHANGED <<blocked, transcript, lifecycle, executing, effects, asks, crashes>>

\* The same key again is answered with the run that has it
SubmitAgain ==
  /\ row.status # "none"
  /\ UNCHANGED agentVars

-----------------------------------------------------------------------------
(* The loop *)

\* The terminal event, then setStatus; what follows a throw depends on the abort
EndStatus(status) ==
  IF run.aborted = "caller" /\ status # "completed" THEN "cancelled"
  ELSE IF run.aborted = "deadline" /\ status # "completed" THEN "failed"
  ELSE status
End(status) ==
  /\ run' = Idle
  /\ row' = [Emitted(row, 1) EXCEPT !.status = EndStatus(status)]

\* The top of an iteration
Iterate ==
  /\ run.phase = "iterate"
  /\ IF run.aborted # "no" THEN End("failed")
     ELSE /\ run' = [run EXCEPT !.phase = "request", !.index = run.provider]
          /\ row' = Emitted(row, 1)
  /\ UNCHANGED <<blocked, transcript, lifecycle, executing, effects, asks, crashes>>

\* Fault: the next provider is asked whatever has been done
FailProviderAlways ==
  IF run.index = Providers THEN End("failed")
  ELSE /\ run' = [run EXCEPT !.phase = "request", !.index = @ + 1]
       /\ row' = Emitted(row, 1)

\* The catch around a provider: the next one, unless there is none or a trade was made
FailProvider ==
  IF run.side \/ run.index = Providers THEN End("failed")
  ELSE /\ run' = [run EXCEPT !.phase = "request", !.index = @ + 1]
       /\ row' = Emitted(row, 1)

TradeDone == \E x \in effects : Tools[x.call.name].effect = "trade"

\* ModelRouterProvider.complete: the schemas the run may use go with the request
Request ==
  LET walk == Walk(Eligible([context |-> 0, output |-> 1, tools |-> Granted],
                            blocked[run.index]))
  IN  /\ run.phase = "request" /\ run.aborted = "no"
      /\ asks' = asks \cup {[provider |-> run.index, after |-> TradeDone]}
      /\ IF walk.left = <<>> THEN FailProvider
         ELSE /\ run' = [run EXCEPT !.phase = "attempt", !.walk = walk]
              /\ row' = Emitted(row, 1)
      /\ UNCHANGED <<blocked, transcript, lifecycle, executing, effects, crashes>>

\* deniedTool and classify, which throws for a name that is not registered
Unsafe(call) ==
  \/ call.name \notin DOMAIN Tools
  \/ Tools[call.name].effect \notin {"read", "trade"}
  \/ Tools[call.name].denied

\* The checks of a batch: each failure ends the run, only its code differs
Verdict(calls) ==
  IF run.iteration = MaxIterations THEN "ITERATION_BUDGET_EXCEEDED"
  ELSE IF run.count + Len(calls) > MaxToolCalls THEN "TOOL_BUDGET_EXCEEDED"
  ELSE IF \E n \in DOMAIN calls : Unsafe(calls[n]) THEN "UNSAFE_TOOL"
  ELSE IF \E n \in DOMAIN calls : run.repeated[calls[n].name] + 1 > MaxRepeated THEN "LOOP_DETECTED"
  ELSE "ok"

\* A response: the end of the run, a batch that is refused as a whole, or a batch
Respond(calls) ==
  IF calls = <<>>
  THEN \E stored \in BOOLEAN :
         /\ transcript' = IF stored THEN Append(transcript, [role |-> "final"]) ELSE transcript
         /\ End(IF stored THEN "completed" ELSE "failed")
  ELSE IF Verdict(calls) # "ok" THEN End("failed") /\ UNCHANGED transcript
  ELSE /\ run' = [run EXCEPT !.phase = "assistant", !.provider = run.index, !.batch = calls, !.now = 1]
       /\ row' = Emitted(row, 1)
       /\ UNCHANGED transcript

\* One attempt at the head of the walk comes back
Attempt(reply) ==
  LET c == Head(run.walk.left)
      error == Outcome(reply)
      after == AfterError(run.walk, error)
  IN  /\ run.phase = "attempt" /\ run.aborted = "no"
      /\ blocked' = [blocked EXCEPT ![run.index] = BlockedAfter(@, c, error)]
      /\ IF error = "ok" THEN Respond(Parsed(reply))
         ELSE /\ UNCHANGED transcript
              /\ IF after.left = <<>> THEN FailProvider
                 ELSE run' = [run EXCEPT !.walk = after] /\ UNCHANGED row
      /\ UNCHANGED <<lifecycle, executing, effects, asks, crashes>>

\* isHealthy again: the time of a rate limit has passed
Heal(p, c) ==
  /\ c \in blocked[p] /\ blocked' = [blocked EXCEPT ![p] = @ \ {c}]
  /\ UNCHANGED <<run, row, transcript, lifecycle, executing, effects, asks, crashes>>

\* persistMessage of the assistant's turn; a throw ends the run
StoreAssistant(stored) ==
  /\ run.phase = "assistant"
  /\ IF stored
     THEN /\ transcript' = Append(transcript, [role |-> "assistant", it |-> run.iteration,
                                               calls |-> run.batch])
          /\ run' = [run EXCEPT !.phase = "plan",
                       !.messages = Append(@, [role |-> "assistant", calls |-> run.batch])]
          /\ UNCHANGED row
     ELSE End("failed") /\ UNCHANGED transcript
  /\ UNCHANGED <<blocked, lifecycle, executing, effects, asks, crashes>>

\* The next call of the batch, or the next iteration
Current == run.batch[run.now]
This == [it |-> run.iteration, call |-> Current]
Recorded(status) == lifecycle' = lifecycle \cup {[it |-> run.iteration, call |-> Current, status |-> status]}

Plan(stored) ==
  /\ run.phase = "plan"
  /\ IF stored
     THEN /\ Recorded("planned")
          /\ run' = [run EXCEPT !.phase = "begin", !.repeated[Current.name] = @ + 1]
          /\ row' = Emitted(row, 1)
     ELSE End("failed") /\ UNCHANGED lifecycle
  /\ UNCHANGED <<blocked, transcript, executing, effects, asks, crashes>>

\* registry.invoke up to execute: a call that is not granted, unavailable or has bad input
\* is answered without being executed
Rejected == Current.name \notin Granted

\* Fault: the call is dispatched before it is on record
BeginUnrecorded(stored) ==
  /\ run.phase = "begin"
  /\ UNCHANGED <<lifecycle, row>>
  /\ run' = [run EXCEPT !.phase = IF Rejected THEN "result" ELSE "dispatched"]
  /\ executing' = IF Rejected THEN executing ELSE executing \cup {This}
  /\ UNCHANGED <<blocked, transcript, effects, asks, crashes>>

\* "started" is stored, then the call is dispatched: even when the run is aborted by
\* now, since dispatch comes before the signal is looked at
Begin(stored) ==
  /\ run.phase = "begin"
  /\ IF stored
     THEN /\ Recorded("started")
          /\ run' = [run EXCEPT !.phase = IF Rejected THEN "result" ELSE "dispatched"]
          /\ executing' = IF Rejected THEN executing ELSE executing \cup {This}
          /\ UNCHANGED row
     ELSE End("failed") /\ UNCHANGED <<lifecycle, executing>>
  /\ UNCHANGED <<blocked, transcript, effects, asks, crashes>>

\* The tool does what it was asked, whether or not somebody still waits for it
TakeEffect(x) ==
  /\ x \in executing /\ x \notin effects
  /\ effects' = effects \cup {x}
  /\ UNCHANGED <<run, row, blocked, transcript, lifecycle, executing, asks, crashes>>

\* execute returns or throws, after its effect or without one
ToolReturns(x) ==
  /\ x \in executing /\ executing' = executing \ {x}
  /\ run' = IF run.phase = "dispatched" /\ This = x THEN [run EXCEPT !.phase = "result"] ELSE run
  /\ UNCHANGED <<row, blocked, transcript, lifecycle, effects, asks, crashes>>

\* The registry's timer: the run gets TIMEOUT, the execution goes on
ToolTimeout ==
  /\ run.phase = "dispatched" /\ run.aborted = "no"
  /\ run' = [run EXCEPT !.phase = "result"]
  /\ UNCHANGED <<row, blocked, transcript, lifecycle, executing, effects, asks, crashes>>

\* The dispatch answered; "succeeded" is stored for any answer, a failure to store it
\* ends the run after "failed" has been stored
TakeResult(stored) ==
  /\ run.phase = "result" /\ run.aborted = "no"
  /\ IF stored
     THEN /\ Recorded("succeeded")
          /\ run' = [run EXCEPT !.phase = "tool", !.count = @ + 1,
                       !.side = @ \/ Tools[Current.name].effect = "trade"]
          /\ UNCHANGED row
     ELSE /\ \E again \in BOOLEAN : IF again THEN Recorded("failed") ELSE UNCHANGED lifecycle
          /\ End("failed")
  /\ UNCHANGED <<blocked, transcript, executing, effects, asks, crashes>>

\* persistMessage of the result; when it fails the call needs reconciliation
StoreResult(stored) ==
  LET answer == [role |-> "tool", id |-> Current.id]
  IN  /\ run.phase = "tool"
      /\ IF stored
         THEN /\ transcript' = Append(transcript, answer)
              /\ row' = Emitted(row, 1)
              /\ run' = [run EXCEPT !.messages = Append(@, answer),
                           !.phase = IF run.now < Len(run.batch) THEN "plan" ELSE "iterate",
                           !.now = IF run.now < Len(run.batch) THEN @ + 1 ELSE @,
                           !.iteration = IF run.now < Len(run.batch) THEN @ ELSE @ + 1]
              /\ UNCHANGED lifecycle
         ELSE /\ \E again \in BOOLEAN :
                   IF again THEN Recorded("reconciliation-required") ELSE UNCHANGED lifecycle
              /\ End("failed") /\ UNCHANGED transcript
      /\ UNCHANGED <<blocked, executing, effects, asks, crashes>>

\* abort: what is awaited through abortable ends the run at once, the rest goes on
Abort(why) ==
  /\ run.phase # "idle" /\ run.aborted = "no"
  /\ run' = [run EXCEPT !.aborted = why]
  /\ UNCHANGED <<row, blocked, transcript, lifecycle, executing, effects, asks, crashes>>

Aborted ==
  /\ run.phase \in {"request", "attempt", "dispatched", "result"} /\ run.aborted # "no"
  /\ End("failed")
  /\ UNCHANGED <<blocked, transcript, lifecycle, executing, effects, asks, crashes>>

\* The process dies: the row stays as it is, what was sent may still take effect
AgentCrash ==
  /\ crashes < MaxCrashes /\ run.phase # "idle"
  /\ crashes' = crashes + 1
  /\ run' = Idle /\ blocked' = [p \in 1..Providers |-> {}]
  /\ UNCHANGED <<row, transcript, lifecycle, executing, effects, asks>>

AgentInit ==
  /\ run = Idle /\ row = NoRow /\ blocked = [p \in 1..Providers |-> {}]
  /\ transcript = <<>> /\ lifecycle = {} /\ executing = {} /\ effects = {} /\ asks = {}
  /\ crashes = 0

AgentNext ==
  \/ Submit \/ SubmitAgain \/ Iterate \/ Request \/ ToolTimeout \/ Aborted \/ AgentCrash
  \/ \E reply \in Replies : Attempt(reply)
  \/ \E p \in 1..Providers : \E c \in blocked[p] : Heal(p, c)
  \/ \E stored \in BOOLEAN :
       StoreAssistant(stored) \/ Plan(stored) \/ Begin(stored) \/ TakeResult(stored)
         \/ StoreResult(stored)
  \/ \E x \in executing : TakeEffect(x) \/ ToolReturns(x)
  \/ \E why \in {"caller", "deadline"} : Abort(why)

AgentSpec == AgentInit /\ [][AgentNext]_agentVars

-----------------------------------------------------------------------------
(* Properties *)

\* Whatever a tool did, however late, after a cancellation or a crash, the durable
\* records show that it may have: the assistant's turn that asked for it is in the
\* transcript and a "started" record names the call.
EffectsAreRecorded ==
  \A x \in effects :
    /\ \E n \in DOMAIN transcript :
         /\ transcript[n].role = "assistant" /\ transcript[n].it = x.it
         /\ \E k \in DOMAIN transcript[n].calls : transcript[n].calls[k] = x.call
    /\ [it |-> x.it, call |-> x.call, status |-> "started"] \in lifecycle

\* Once a trade may have taken effect no provider further down the list is asked: the
\* one asked after it is the one the runtime had settled on.  (Its router may still try
\* another of that provider's models.)
NoFallbackAfterEffect ==
  \A a, b \in asks : a.after /\ b.after => a.provider = b.provider
=============================================================================
