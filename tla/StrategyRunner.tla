--------------------------- MODULE StrategyRunner ---------------------------
(***************************************************************************)
(* StrategyRunner, StrategyStore and gatewayExecutor (strategy): due rows  *)
(* are stepped one at a time, each step a plan, a swap through the kernel  *)
(* gateway under the key strat_<id>_<runs>, and one save of the whole row. *)
(*                                                                         *)
(* A step works on the copy of the row that due() returned, across the     *)
(* awaits of the price, the swap and the notifications; the operator sets  *)
(* the status of the stored row meanwhile.  The kernel is seen through its *)
(* idempotency keys: a key it has met is answered with an error.           *)
(***************************************************************************)
EXTENDS Integers, Sequences, FiniteSets

CONSTANTS
  Strategies,   \* strategy ids
  Kind,         \* Kind[s]: dca, twap, trailing_stop or take_profit
  Target,       \* Target[s]: budget of a dca (0 for none), slices of a twap
  Per,          \* amountUiPerStep of a dca
  Prices,       \* prices a feed may give
  Entry, GainPct, DropPct,
  MaxErrors,    \* MAX_CONSECUTIVE_ERRORS
  Interval,     \* seconds between runs, at least MIN_INTERVAL_SEC
  Uncertain,    \* whether a swap may land although the kernel reports a failure
  MaxStratTime, MaxRuns  \* bounds on the clock and on the run counter

\* Finitely many strategies, with the parameters a stored row has
ASSUME StratAssumption ==
  /\ IsFiniteSet(Strategies)
  /\ Kind \in [Strategies -> {"dca", "twap", "trailing_stop", "take_profit"}]
  /\ Target \in [Strategies -> Nat]
  /\ Per \in Nat /\ Prices \subseteq Nat /\ Interval \in Nat /\ MaxErrors \in Nat

VARIABLES
  sclock,       \* Date.now()
  store,        \* the strategies table
  todo,         \* rows tick still has to step, the head is being stepped
  phase,        \* the await the step is in
  price,        \* the price the plan has read, 0 for none
  keys,         \* idempotency keys the kernel has met
  landed,       \* landed[s]: amount of s's swaps that landed
  lost          \* lost[s]: amount landed whose success the row will never show

stratVars == <<sclock, store, todo, phase, price, keys, landed, lost>>

Row(s) == [id |-> s, status |-> "active", progress |-> 0, peak |-> 0,
           next |-> 0, runs |-> 0, errors |-> 0]

StratInit ==
  /\ sclock = 0
  /\ store = [s \in Strategies |-> Row(s)]
  /\ todo = <<>>
  /\ phase = "idle"
  /\ price = 0
  /\ keys = {}
  /\ landed = [s \in Strategies |-> 0]
  /\ lost = [s \in Strategies |-> 0]

Strat == Head(todo)
Exit(s) == Kind[s] \in {"trailing_stop", "take_profit"}

\* amountUi of the plan, in the units of the progress
Amount(s) == IF Kind[s] = "dca" THEN Per ELSE 1

\* due: active rows whose time has come, oldest first
Due == {s \in Strategies : store[s].status = "active" /\ store[s].next <= sclock}

\* tick: dropped while one is running; due() is read once for the whole pass
Tick ==
  /\ phase = "idle"
  /\ todo' \in {q \in [1..Cardinality(Due) -> {store[s] : s \in Due}] :
       /\ {q[i].id : i \in DOMAIN q} = Due
       /\ \A i, j \in DOMAIN q : i < j => q[i].next <= q[j].next}
  /\ todo' # <<>>
  /\ phase' = "plan"
  /\ UNCHANGED <<sclock, store, price, keys, landed, lost>>

\* The step is over: the copy is saved as a whole, the next row's turn
SaveAndGo(row) ==
  /\ store' = [store EXCEPT ![row.id] = row]
  /\ todo' = Tail(todo)
  /\ phase' = IF Len(todo) = 1 THEN "idle" ELSE "plan"
  /\ price' = 0

Reschedule(row) == [row EXCEPT !.next = sclock + Interval]

\* #plan: nothing is left to do
PlanDone(row) ==
  CASE Kind[row.id] = "dca" -> Target[row.id] > 0 /\ row.progress + Per > Target[row.id]
    [] Kind[row.id] = "twap" -> row.progress >= Target[row.id]
    [] OTHER -> FALSE

\* #plan of an exit: the price has fallen from its peak, or risen from the entry
PlanSells(row, p) ==
  CASE Kind[row.id] = "trailing_stop" ->
         p * 100 <= (IF row.peak > p THEN row.peak ELSE p) * (100 - DropPct)
    [] Kind[row.id] = "take_profit" -> p * 100 >= Entry * (100 + GainPct)
    [] OTHER -> TRUE

\* #plan of an exit awaits the price; none, or a failing feed, is met below
ReadPrice(p) ==
  /\ phase = "plan" /\ Exit(Strat.id) /\ price = 0
  /\ price' = p
  /\ todo' = [todo EXCEPT ![1].peak =
       IF Kind[Strat.id] = "trailing_stop" /\ p > @ THEN p ELSE @]
  /\ UNCHANGED <<sclock, store, phase, keys, landed, lost>>

\* plan "done"
StepDone ==
  /\ phase = "plan" /\ ~Exit(Strat.id)
  /\ PlanDone(Strat)
  /\ SaveAndGo([Strat EXCEPT !.status = "done"])
  /\ UNCHANGED <<sclock, keys, landed, lost>>

\* plan "skip": the exit is not due, or there is no price
StepSkip ==
  /\ phase = "plan" /\ Exit(Strat.id)
  /\ price = 0 \/ ~PlanSells(Strat, price)
  /\ SaveAndGo(Reschedule(Strat))
  /\ UNCHANGED <<sclock, keys, landed, lost>>

\* An error counts; the third in a row pauses the strategy
Errored(row) ==
  [row EXCEPT !.errors = @ + 1, !.status = IF row.errors + 1 >= MaxErrors THEN "paused" ELSE @]

\* The price feed rejects: the catch of #step
StepThrows ==
  /\ phase = "plan" /\ Exit(Strat.id) /\ price = 0
  /\ SaveAndGo(Reschedule(Errored(Strat)))
  /\ UNCHANGED <<sclock, keys, landed, lost>>

\* strat_<id>_<runs>
KeyOf(row) == <<row.id, row.runs>>

\* Fault: progress is recorded for a swap that failed
ProgressAnyway(row, ok) == [row EXCEPT !.progress = @ + Amount(row.id)]

\* #applyProgress; an exit is done after its swap
Applied(row, ok) ==
  IF ~ok THEN row
  ELSE IF Exit(row.id) THEN [row EXCEPT !.status = "done", !.progress = @ + Amount(row.id)]
       ELSE [row EXCEPT !.progress = @ + Amount(row.id)]

\* #isComplete
Complete(row) == ~Exit(row.id) /\ Target[row.id] > 0 /\ row.progress >= Target[row.id]

\* What #step makes of the row once the swap has answered
AfterSwap(row, ok) ==
  LET ran == [row EXCEPT !.runs = @ + 1]
      new == IF ok THEN Applied([ran EXCEPT !.errors = 0], ok) ELSE Applied(Errored(ran), ok)
  IN  IF new.status = "active" /\ Complete(new) THEN [new EXCEPT !.status = "done"] ELSE new

\* swap: the executor's answer.  `lands`: the transaction takes effect; `ok`: the
\* kernel says confirmed.  A key the kernel has met is an error, nothing lands.
Swap(lands, ok, claimed) ==
  LET s == Strat.id
  IN  /\ phase = "plan"
      /\ Strat.runs < MaxRuns
      /\ IF Exit(s) THEN price # 0 /\ PlanSells(Strat, price) ELSE ~PlanDone(Strat)
      /\ lands => claimed
      /\ ok => lands
      /\ lands /\ ~ok => Uncertain
      /\ KeyOf(Strat) \in keys => ~claimed
      /\ keys' = IF claimed THEN keys \cup {KeyOf(Strat)} ELSE keys
      /\ landed' = [landed EXCEPT ![s] = IF lands THEN @ + Amount(s) ELSE @]
      /\ lost' = [lost EXCEPT ![s] = IF lands /\ ~ok THEN @ + Amount(s) ELSE @]
      /\ todo' = [todo EXCEPT ![1] = AfterSwap(Strat, ok)]
      /\ phase' = IF ok THEN "swapped" ELSE "refused"
      /\ UNCHANGED <<sclock, store, price>>

\* The notifications are awaited, then the row is rescheduled and saved
StepSave ==
  /\ phase \in {"swapped", "refused"}
  /\ SaveAndGo(Reschedule(Strat))
  /\ UNCHANGED <<sclock, keys, landed, lost>>

\* The console's setStatus on the stored row
SetStatus(s, status) ==
  /\ store[s].status # status
  /\ store' = [store EXCEPT ![s].status = status]
  /\ UNCHANGED <<sclock, todo, phase, price, keys, landed, lost>>

\* The process dies; what the step had not saved is gone
StratCrash ==
  /\ phase # "idle"
  /\ lost' = IF phase = "swapped"
             THEN [lost EXCEPT ![Strat.id] = @ + Amount(Strat.id)] ELSE lost
  /\ todo' = <<>>
  /\ phase' = "idle"
  /\ price' = 0
  /\ UNCHANGED <<sclock, store, keys, landed>>

StratTime ==
  /\ sclock < MaxStratTime
  /\ sclock' = sclock + 1
  /\ UNCHANGED <<store, todo, phase, price, keys, landed, lost>>

StratNext ==
  \/ Tick \/ StepDone \/ StepSkip \/ StepThrows \/ StepSave \/ StratCrash \/ StratTime
  \/ \E p \in Prices : ReadPrice(p)
  \/ \E lands, ok, claimed \in BOOLEAN : Swap(lands, ok, claimed)
  \/ \E s \in Strategies : \E status \in {"active", "paused", "done"} : SetStatus(s, status)

StratSpec == StratInit /\ [][StratNext]_stratVars

-----------------------------------------------------------------------------

Inflight(s) == IF phase = "swapped" /\ Strat.id = s THEN Amount(s) ELSE 0

\* Every landed swap is accounted for: in the stored progress, in the step under way, or
\* in an outcome the row never learns, because the process died between the swap and the
\* save or the kernel's answer was uncertain.  A step that is repeated after that is
\* refused under its old key and then traded under a new one, so a schedule trades beyond
\* its budget by such outcomes, and by nothing else, however the operator pauses and
\* resumes it and whatever stale copy is saved over the row.
TradesAccounted ==
  \A s \in Strategies :
    /\ landed[s] = store[s].progress + Inflight(s) + lost[s]
    /\ Target[s] > 0 /\ ~Exit(s) => landed[s] <= Target[s] + lost[s]

-----------------------------------------------------------------------------
(* What the comments of the code say and the code does not do.             *)

\* "A crash between the swap and the save replays the SAME key: the kernel's
\* idempotency ledger returns the original outcome instead of trading twice" (#step).
\* With answers that can be relied on, no schedule trades beyond its budget.
ReplayedNotRepeated ==
  \A s \in Strategies :
    ~Uncertain /\ Target[s] > 0 /\ ~Exit(s) => landed[s] <= Target[s]
=============================================================================
