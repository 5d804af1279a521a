--------------------------- MODULE AutonomyProofs ---------------------------
(***************************************************************************)
(* Proofs about the parts of the autonomy layer, for every value of their  *)
(* constants.                                                              *)
(*                                                                         *)
(* The strategy runner: a step saves the copy due() gave it over the       *)
(* stored row.  What makes that harmless for the progress is that nobody   *)
(* else writes it: the invariant compares each copy with the stored row,   *)
(* and needs the copies of one pass to be of different strategies.         *)
(*                                                                         *)
(* The delegation manager: which status, phase, count and announcement go  *)
(* together in one child's row, and that the queue names each queued child *)
(* at most once, is what makes every lane and count come back once.        *)
(*                                                                         *)
(* The event bus, the triggers and the scheduler: what a consumer has been *)
(* given lies at or below its offset, in the order of the cursors; a fired *)
(* trigger is at least a cooldown after the one before it and has an event *)
(* of its own behind it; a slot before a row's next time has its job.      *)
(***************************************************************************)
EXTENDS EventBus, MarketTriggers, Scheduler, Delegation, StrategyRunner,
        DataTheorems, SequenceTheorems

-----------------------------------------------------------------------------
(* StrategyRunner *)

StratRows == [id : Strategies, status : {"active", "paused", "done"}, progress : Nat,
         peak : Nat, next : Nat, runs : Nat, errors : Nat]

StratTyped ==
  /\ sclock \in Nat
  /\ store \in [Strategies -> StratRows]
  /\ \A s \in Strategies : store[s].id = s
  /\ todo \in Seq(StratRows)
  /\ phase \in {"idle", "plan", "swapped", "refused"}
  /\ phase # "idle" => todo # <<>>
  /\ landed \in [Strategies -> Nat]
  /\ lost \in [Strategies -> Nat]

\* The progress of the swap that is not saved yet, in the copy at place i
Unsaved(i) == IF i = 1 /\ phase = "swapped" THEN Amount(todo[1].id) ELSE 0

\* The copies of a pass differ from the stored rows by the swap under way only
Copies ==
  /\ \A i, j \in 1..Len(todo) : todo[i].id = todo[j].id => i = j
  /\ \A i \in 1..Len(todo) :
       todo[i].progress = store[todo[i].id].progress + Unsaved(i)

StratInv == StratTyped /\ Copies /\ TradesAccounted

\* The amount of a plan is a number.
LEMMA AmountNat ==
  ASSUME NEW s \in Strategies
  PROVE  Amount(s) \in Nat
BY StratAssumption DEF Amount

\* Nothing has been traded at first.
LEMMA InitStrat ==
  ASSUME StratInit
  PROVE  StratInv
<1>1. \A s \in Strategies : Row(s) \in StratRows /\ Row(s).id = s /\ Row(s).progress = 0
  BY DEF Row, StratRows
<1>2. StratTyped
  BY <1>1, EmptySeq DEF StratInit, StratTyped
<1>3. Copies
  BY EmptySeq DEF StratInit, Copies
<1>4. TradesAccounted
  BY StratAssumption, <1>1 DEF StratInit, TradesAccounted, Inflight
<1> QED BY <1>2, <1>3, <1>4 DEF StratInv

\* The row in hand is of a strategy, and its copy carries what is not saved.
LEMMA HeadRow ==
  ASSUME StratInv, phase # "idle"
  PROVE  /\ Len(todo) \in Nat \ {0} /\ Strat = todo[1] /\ Strat \in StratRows /\ Strat.id \in Strategies
         /\ Strat.progress = store[Strat.id].progress + Inflight(Strat.id)
         /\ \A s \in Strategies : s # Strat.id => Inflight(s) = 0
         /\ \A s \in Strategies : Inflight(s) \in Nat
<1>1. todo \in Seq(StratRows) /\ todo # <<>>
  BY DEF StratInv, StratTyped
<1>2. Len(todo) \in Nat \ {0} /\ Strat \in StratRows /\ Strat = todo[1]
  BY <1>1, EmptySeq, HeadTailProperties DEF Strat
<1>3. Strat.id \in Strategies
  BY <1>2 DEF StratRows
<1>4. 1 \in 1..Len(todo)
  BY <1>2
<1>5. Strat.progress = store[Strat.id].progress + Unsaved(1)
  BY <1>2, <1>4 DEF StratInv, Copies
<1> QED BY <1>2, <1>3, <1>5, AmountNat DEF Unsaved, Inflight

\* A step saves its copy: the swap it has made moves into the stored progress, and the
\* copies that follow are of other strategies.
LEMMA SaveStep ==
  ASSUME StratInv, phase # "idle", NEW r \in StratRows,
         r.id = Strat.id, r.progress = Strat.progress,
         SaveAndGo(r), UNCHANGED <<sclock, landed, lost>>
  PROVE  StratInv'
<1>0. /\ Len(todo) \in Nat \ {0} /\ Strat = todo[1] /\ Strat.id \in Strategies
      /\ Strat.progress = store[Strat.id].progress + Inflight(Strat.id)
      /\ \A s \in Strategies : s # Strat.id => Inflight(s) = 0
  BY HeadRow
<1>1. /\ store \in [Strategies -> StratRows] /\ todo \in Seq(StratRows) /\ todo # <<>>
      /\ \A s \in Strategies : store[s].id = s
  BY DEF StratInv, StratTyped
<1>2. /\ store'[r.id] = r /\ \A s \in Strategies : s # r.id => store'[s] = store[s]
      /\ store' \in [Strategies -> StratRows]
  BY <1>0, <1>1 DEF SaveAndGo
<1>3. /\ todo' \in Seq(StratRows) /\ Len(todo') = Len(todo) - 1
      /\ \A i \in 1..Len(todo') : todo'[i] = todo[i + 1]
  BY <1>1, HeadTailProperties DEF SaveAndGo
<1>4. phase' \in {"idle", "plan"} /\ (phase' # "idle" => Len(todo) # 1)
  BY DEF SaveAndGo
<1>5. phase' # "idle" => todo' # <<>>
  <2>1. Len(<<>>) = 0
    BY EmptySeq
  <2> QED BY <1>0, <1>3, <1>4, <2>1
<1>6. StratTyped'
  BY <1>0, <1>1, <1>2, <1>3, <1>4, <1>5 DEF StratInv, StratTyped
<1>7. ASSUME NEW i \in 1..Len(todo')
      PROVE  /\ i + 1 \in 1..Len(todo) /\ i + 1 # 1 /\ todo'[i] = todo[i + 1]
             /\ todo'[i].id \in Strategies /\ todo'[i].id # r.id
             /\ todo'[i].progress = store[todo'[i].id].progress + 0
  <2>1. i + 1 \in 1..Len(todo) /\ i + 1 # 1 /\ 1 \in 1..Len(todo) /\ todo'[i] = todo[i + 1]
    BY <1>0, <1>3
  <2>2. todo'[i].id \in Strategies
    <3>1. todo'[i] \in StratRows
      BY <1>3, ElementOfSeq
    <3> QED BY <3>1 DEF StratRows
  <2>3. todo[i + 1].id # todo[1].id
    BY <2>1 DEF StratInv, Copies
  <2>4. todo[i + 1].progress = store[todo[i + 1].id].progress + 0
    BY <2>1 DEF StratInv, Copies, Unsaved
  <2> QED BY <1>0, <2>1, <2>2, <2>3, <2>4
<1>8. Copies'
  <2>1. \A i, j \in 1..Len(todo') : todo'[i].id = todo'[j].id => i = j
    <3> SUFFICES ASSUME NEW i \in 1..Len(todo'), NEW j \in 1..Len(todo'),
                        todo'[i].id = todo'[j].id
                 PROVE  i = j
      OBVIOUS
    <3>1. i + 1 = j + 1
      BY <1>7 DEF StratInv, Copies
    <3> QED BY <1>0, <1>3, <3>1
  <2>2. \A i \in 1..Len(todo') : todo'[i].progress = store'[todo'[i].id].progress + Unsaved(i)'
    BY <1>2, <1>4, <1>7 DEF Unsaved
  <2> QED BY <2>1, <2>2 DEF Copies
<1>9. \A s \in Strategies : Inflight(s)' = 0
  BY <1>4 DEF Inflight
<1>10. TradesAccounted'
  <2> SUFFICES ASSUME NEW s \in Strategies
               PROVE  /\ landed'[s] = store'[s].progress + Inflight(s)' + lost'[s]
                      /\ Target[s] > 0 /\ ~Exit(s) => landed'[s] <= Target[s] + lost'[s]
    BY DEF TradesAccounted, Exit
  <2>1. /\ landed[s] = store[s].progress + Inflight(s) + lost[s]
        /\ Target[s] > 0 /\ ~Exit(s) => landed[s] <= Target[s] + lost[s]
    BY DEF StratInv, TradesAccounted
  <2>2. store'[s].progress = store[s].progress + Inflight(s)
    <3>1. CASE s = r.id
      BY <1>0, <1>2, <3>1
    <3>2. CASE s # r.id
      <4>1. store[s].progress \in Nat
        BY <1>1 DEF StratRows
      <4> QED BY <1>0, <1>2, <3>2, <4>1
    <3> QED BY <3>1, <3>2
  <2>3. /\ landed'[s] = landed[s] /\ lost'[s] = lost[s] /\ lost[s] \in Nat
        /\ store'[s].progress \in Nat
    BY <1>2 DEF StratInv, StratTyped, StratRows
  <2> QED BY <1>9, <2>1, <2>2, <2>3
<1> QED BY <1>6, <1>8, <1>10 DEF StratInv

\* The copy in hand is written, its strategy and its progress kept.
LEMMA HeadWritten ==
  ASSUME StratInv, phase = "plan", NEW r \in StratRows,
         r.id = Strat.id, todo' = [todo EXCEPT ![1] = r]
  PROVE  /\ todo' \in Seq(StratRows) /\ Len(todo') = Len(todo) /\ todo' # <<>> /\ todo'[1] = r
         /\ \A i \in 2..Len(todo) : todo'[i] = todo[i]
         /\ \A i, j \in 1..Len(todo') : todo'[i].id = todo'[j].id => i = j
<1>0. Len(todo) \in Nat \ {0} /\ Strat = todo[1] /\ Strat.id \in Strategies
  BY HeadRow
<1>1. todo \in Seq(StratRows) /\ 1 \in 1..Len(todo)
  BY <1>0 DEF StratInv, StratTyped
<1>2. /\ todo' \in Seq(StratRows) /\ Len(todo') = Len(todo)
      /\ \A i \in 1..Len(todo) : todo'[i] = IF i = 1 THEN r ELSE todo[i]
  BY <1>1, ExceptSeq
<1>3. todo' # <<>>
  <2>1. Len(<<>>) = 0
    BY EmptySeq
  <2> QED BY <1>0, <1>2, <2>1
<1>4. \A i \in 1..Len(todo) : todo'[i].id = todo[i].id
  BY <1>0, <1>2
<1>5. \A i, j \in 1..Len(todo') : todo'[i].id = todo'[j].id => i = j
  BY <1>2, <1>4 DEF StratInv, Copies
<1>6. \A i \in 2..Len(todo) : i \in 1..Len(todo) /\ i # 1
  BY <1>0
<1> QED BY <1>1, <1>2, <1>3, <1>5, <1>6

\* due() lists each strategy once.
LEMMA TickStep ==
  ASSUME StratInv, Tick
  PROVE  StratInv'
<1> DEFINE n == Cardinality(Due)
           D == {store[s] : s \in Due}
<1>1. IsFiniteSet(Due) /\ n \in Nat /\ Due \subseteq Strategies
  BY StratAssumption, FS_Subset, FS_CardinalityType DEF Due
<1>2. store \in [Strategies -> StratRows] /\ \A s \in Strategies : store[s].id = s
  BY DEF StratInv, StratTyped
<1>3. todo' \in [1..n -> D] /\ {todo'[i].id : i \in DOMAIN todo'} = Due /\ todo' # <<>>
  BY DEF Tick
<1>4. D \subseteq StratRows /\ \A r \in D : r.id \in Strategies /\ r = store[r.id]
  BY <1>1, <1>2
<1> HIDE DEF n, D
<1>5. todo' \in [1..n -> StratRows] /\ DOMAIN todo' = 1..n
  BY <1>3, <1>4
<1>6. todo' \in Seq(StratRows) /\ Len(todo') = n
  BY <1>1, <1>5
<1>7. \A i \in 1..n : todo'[i].id \in Strategies /\ todo'[i] = store[todo'[i].id]
  BY <1>3, <1>4
<1>8. \A i, j \in 1..n : todo'[i].id = todo'[j].id => i = j
  <2> DEFINE f == [i \in 1..n |-> todo'[i].id]
  <2>1. f \in Surjection(1..n, Due)
    <3>1. f \in [1..n -> Due] /\ \A s \in Due : \E i \in 1..n : f[i] = s
      BY <1>3, <1>5
    <3> QED BY <3>1 DEF Surjection
  <2>2. IsFiniteSet(1..n) /\ Cardinality(1..n) = n
    BY <1>1, FS_Interval
  <2>3. f \in Injection(1..n, Due)
    BY <2>1, <2>2, FS_SurjSameCardinalityImpliesInj DEF n
  <2>4. \A i, j \in 1..n : f[i] = f[j] => i = j
    BY <2>3 DEF Injection, IsInjective
  <2> QED BY <2>4
<1>9. phase = "idle" /\ phase' = "plan" /\ UNCHANGED <<sclock, store, landed, lost>>
  BY DEF Tick
<1>10. StratTyped'
  BY <1>3, <1>6, <1>9 DEF StratInv, StratTyped
<1>11. Copies'
  <2>1. \A i \in 1..n : todo'[i].progress = store[todo'[i].id].progress + 0
    <3>1. \A s \in Strategies : store[s].progress = store[s].progress + 0
      BY <1>2 DEF StratRows
    <3> QED BY <1>7, <3>1
  <2> QED BY <1>6, <1>8, <1>9, <2>1 DEF Copies, Unsaved
<1>12. TradesAccounted'
  BY <1>9 DEF StratInv, TradesAccounted, Inflight
<1> QED BY <1>10, <1>11, <1>12 DEF StratInv

\* A copy is written before its swap: the price raises the peak.
LEMMA PriceStep ==
  ASSUME StratInv, NEW p \in Prices, ReadPrice(p)
  PROVE  StratInv'
<1>0. /\ phase = "plan" /\ UNCHANGED <<sclock, store, phase, landed, lost>>
      /\ todo \in Seq(StratRows)
  BY DEF ReadPrice, StratInv, StratTyped
<1>1. Len(todo) \in Nat \ {0} /\ Strat = todo[1] /\ Strat \in StratRows
  BY <1>0, HeadRow
<1>2. PICK r \in StratRows : /\ todo' = [todo EXCEPT ![1] = r]
                        /\ r.id = Strat.id /\ r.progress = Strat.progress
  <2> DEFINE x == IF Kind[Strat.id] = "trailing_stop" /\ p > Strat.peak THEN p ELSE Strat.peak
             r == [Strat EXCEPT !.peak = x]
  <2>1. p \in Nat /\ x \in Nat
    BY StratAssumption, <1>1 DEF StratRows
  <2>2. todo' = [todo EXCEPT ![1] = r]
    BY <1>1 DEF ReadPrice
  <2> HIDE DEF x
  <2>3. r \in StratRows /\ r.id = Strat.id /\ r.progress = Strat.progress
    BY <1>1, <2>1 DEF StratRows
  <2> QED BY <2>2, <2>3
<1>3. /\ todo' \in Seq(StratRows) /\ Len(todo') = Len(todo) /\ todo' # <<>> /\ todo'[1] = r
      /\ \A i \in 2..Len(todo) : todo'[i] = todo[i]
      /\ \A i, j \in 1..Len(todo') : todo'[i].id = todo'[j].id => i = j
  BY <1>0, <1>2, HeadWritten
<1>4. StratTyped'
  BY <1>0, <1>3 DEF StratInv, StratTyped
<1>5. \A i \in 1..Len(todo') : todo'[i].id = todo[i].id /\ todo'[i].progress = todo[i].progress
  <2>1. \A i \in 1..Len(todo') : i = 1 \/ i \in 2..Len(todo)
    BY <1>1, <1>3
  <2> QED BY <1>1, <1>2, <1>3, <2>1
<1>6. Copies'
  BY <1>0, <1>3, <1>5 DEF StratInv, Copies, Unsaved
<1>7. TradesAccounted'
  BY <1>0 DEF StratInv, TradesAccounted, Inflight
<1> QED BY <1>4, <1>6, <1>7 DEF StratInv

\* An error leaves the strategy and its progress alone.
LEMMA ErroredIs ==
  ASSUME NEW r \in StratRows
  PROVE  Errored(r) \in StratRows /\ Errored(r).id = r.id /\ Errored(r).progress = r.progress
<1> DEFINE e == r.errors + 1
           st == IF e >= MaxErrors THEN "paused" ELSE r.status
<1>1. e \in Nat /\ st \in {"active", "paused", "done"}
  BY DEF StratRows
<1>2. Errored(r) = [r EXCEPT !.errors = e, !.status = st]
  BY DEF Errored
<1> HIDE DEF e, st
<1> QED BY <1>1, <1>2 DEF StratRows

\* What a swap makes of its copy: only a success moves the progress, by the amount.
LEMMA AfterSwapIs ==
  ASSUME NEW r \in StratRows, NEW ok \in BOOLEAN
  PROVE  /\ AfterSwap(r, ok) \in StratRows /\ AfterSwap(r, ok).id = r.id
         /\ AfterSwap(r, ok).progress = r.progress + (IF ok THEN Amount(r.id) ELSE 0)
<1>0. r.id \in Strategies /\ Amount(r.id) \in Nat /\ r.progress \in Nat
  BY AmountNat DEF StratRows
<1> DEFINE ran == [r EXCEPT !.runs = @ + 1]
           fine == [ran EXCEPT !.errors = 0]
           bad == Errored(ran)
           new == IF ok THEN Applied(fine, ok) ELSE Applied(bad, ok)
<1>1. ran \in StratRows /\ ran.id = r.id /\ ran.progress = r.progress
  BY DEF StratRows
<1> HIDE DEF ran
<1>2. fine \in StratRows /\ fine.id = r.id /\ fine.progress = r.progress
  BY <1>1 DEF StratRows
<1>3. bad \in StratRows /\ bad.id = r.id /\ bad.progress = r.progress
  BY <1>1, ErroredIs
<1> HIDE DEF fine, bad
<1>4. /\ new \in StratRows /\ new.id = r.id
      /\ new.progress = r.progress + (IF ok THEN Amount(r.id) ELSE 0)
  <2>1. CASE ok
    <3>1. fine.progress + Amount(fine.id) \in Nat
      BY <1>0, <1>2
    <3> QED BY <1>0, <1>2, <2>1, <3>1 DEF Applied, StratRows
  <2>2. CASE ~ok
    BY <1>0, <1>3, <2>2 DEF Applied
  <2> QED BY <2>1, <2>2
<1>5. AfterSwap(r, ok) = new \/ AfterSwap(r, ok) = [new EXCEPT !.status = "done"]
  BY DEF AfterSwap, fine, bad, ran
<1> HIDE DEF new
<1>6. LET x == [new EXCEPT !.status = "done"]
      IN  x \in StratRows /\ x.id = new.id /\ x.progress = new.progress
  BY <1>4 DEF StratRows
<1> QED BY <1>4, <1>5, <1>6

\* A plan that is not done leaves room for its amount in the budget.
LEMMA RoomLeft ==
  ASSUME NEW r \in StratRows, ~PlanDone(r), ~Exit(r.id), Target[r.id] > 0
  PROVE  r.progress + Amount(r.id) <= Target[r.id]
<1>1. /\ r.id \in Strategies /\ r.progress \in Nat /\ Target[r.id] \in Nat /\ Per \in Nat
      /\ Kind[r.id] \in {"dca", "twap"}
  BY StratAssumption DEF StratRows, Exit
<1>2. CASE Kind[r.id] = "dca"
  BY <1>1, <1>2 DEF PlanDone, Amount
<1>3. CASE Kind[r.id] = "twap"
  <2>1. ~(r.progress >= Target[r.id])
    BY <1>3 DEF PlanDone
  <2> QED BY <1>1, <1>3, <2>1 DEF Amount
<1> QED BY <1>1, <1>2, <1>3

\* A swap: what lands is in the copy, or lost with a success the kernel never reported.
LEMMA SwapStep ==
  ASSUME StratInv, NEW lands \in BOOLEAN, NEW ok \in BOOLEAN, NEW claimed \in BOOLEAN,
         Swap(lands, ok, claimed)
  PROVE  StratInv'
<1>a. phase = "plan"
  BY DEF Swap
<1>b. PICK s \in Strategies : s = Strat.id
  BY <1>a, HeadRow
<1>c. PICK m \in Nat : m = Amount(s)
  BY AmountNat
<1> DEFINE r == AfterSwap(Strat, ok)
<1>0. /\ phase = "plan" /\ UNCHANGED <<sclock, store>> /\ (ok => lands)
      /\ IF Exit(s) THEN price # 0 /\ PlanSells(Strat, price) ELSE ~PlanDone(Strat)
      /\ phase' = IF ok THEN "swapped" ELSE "refused"
      /\ landed' = [landed EXCEPT ![s] = IF lands THEN @ + m ELSE @]
      /\ lost' = [lost EXCEPT ![s] = IF lands /\ ~ok THEN @ + m ELSE @]
      /\ todo' = [todo EXCEPT ![1] = r]
  BY <1>b, <1>c DEF Swap
<1>1. /\ Len(todo) \in Nat \ {0} /\ Strat = todo[1] /\ Strat \in StratRows /\ s \in Strategies
      /\ Strat.progress = store[s].progress + Inflight(s)
  BY <1>0, <1>b, HeadRow
<1>2. /\ r \in StratRows /\ r.id = s /\ m \in Nat
      /\ r.progress = Strat.progress + (IF ok THEN m ELSE 0)
  BY <1>1, <1>b, <1>c, AfterSwapIs
<1>3. /\ todo' \in Seq(StratRows) /\ Len(todo') = Len(todo) /\ todo' # <<>> /\ todo'[1] = r
      /\ \A i \in 2..Len(todo) : todo'[i] = todo[i]
      /\ \A i, j \in 1..Len(todo') : todo'[i].id = todo'[j].id => i = j
  BY <1>0, <1>2, <1>b, HeadWritten
<1>4. /\ landed \in [Strategies -> Nat] /\ lost \in [Strategies -> Nat]
      /\ store \in [Strategies -> StratRows] /\ store[s].progress \in Nat
  BY <1>1 DEF StratInv, StratTyped, StratRows
<1>5. \A z \in Strategies : Inflight(z) = 0
  BY <1>0 DEF Inflight
<1>6. /\ landed[s] = store[s].progress + lost[s]
      /\ Target[s] > 0 /\ ~Exit(s) => landed[s] <= Target[s] + lost[s]
  <2>1. /\ landed[s] = store[s].progress + Inflight(s) + lost[s]
        /\ Target[s] > 0 /\ ~Exit(s) => landed[s] <= Target[s] + lost[s]
    BY <1>1 DEF StratInv, TradesAccounted
  <2> QED BY <1>1, <1>4, <1>5, <2>1
<1>7. Target[s] > 0 /\ ~Exit(s) => store[s].progress + m <= Target[s]
  <2>1. Strat.progress = store[s].progress
    BY <1>1, <1>4, <1>5
  <2> QED BY <1>0, <1>1, <1>b, <1>c, <2>1, RoomLeft
<1>8. /\ landed' \in [Strategies -> Nat] /\ lost' \in [Strategies -> Nat]
      /\ landed'[s] = landed[s] + (IF lands THEN m ELSE 0)
      /\ lost'[s] = lost[s] + (IF lands /\ ~ok THEN m ELSE 0)
      /\ \A z \in Strategies : z # s => landed'[z] = landed[z] /\ lost'[z] = lost[z]
  <2> DEFINE a == IF lands THEN m ELSE 0
             b == IF lands /\ ~ok THEN m ELSE 0
  <2>1. landed[s] \in Nat /\ lost[s] \in Nat /\ a \in Nat /\ b \in Nat
    BY <1>1, <1>2, <1>4
  <2>2. /\ (IF lands THEN landed[s] + m ELSE landed[s]) = landed[s] + a
        /\ (IF lands /\ ~ok THEN lost[s] + m ELSE lost[s]) = lost[s] + b
    BY <2>1
  <2>3. /\ landed' = [landed EXCEPT ![s] = landed[s] + a]
        /\ lost' = [lost EXCEPT ![s] = lost[s] + b]
    BY <1>0, <2>2
  <2> HIDE DEF a, b
  <2>4. /\ landed' \in [Strategies -> Nat] /\ lost' \in [Strategies -> Nat]
        /\ landed'[s] = landed[s] + a /\ lost'[s] = lost[s] + b
        /\ \A z \in Strategies : z # s => landed'[z] = landed[z] /\ lost'[z] = lost[z]
    BY <1>1, <1>4, <2>1, <2>3
  <2> QED BY <2>4 DEF a, b
<1>9. StratTyped'
  BY <1>0, <1>3, <1>8 DEF StratInv, StratTyped
<1>10. \A i \in 1..Len(todo') : i # 1 => i \in 2..Len(todo) /\ i \in 1..Len(todo)
  <2>1. Len(todo) \in Nat /\ Len(todo') = Len(todo)
    BY <1>1, <1>3
  <2> QED BY <2>1
<1>11. Copies'
  <2>1. r.progress = store[s].progress + (IF ok THEN m ELSE 0)
    BY <1>1, <1>2, <1>4, <1>5
  <2>2. Unsaved(1)' = IF ok THEN m ELSE 0
    BY <1>0, <1>2, <1>3, <1>c DEF Unsaved, Amount
  <2>3. \A i \in 2..Len(todo) : Unsaved(i)' = 0 /\ Unsaved(i) = 0
    BY <1>1 DEF Unsaved
  <2>4. \A i \in 1..Len(todo') : todo'[i].progress = store'[todo'[i].id].progress + Unsaved(i)'
    <3> SUFFICES ASSUME NEW i \in 1..Len(todo')
                 PROVE  todo'[i].progress = store[todo'[i].id].progress + Unsaved(i)'
      BY <1>0
    <3>1. CASE i = 1
      BY <1>2, <1>3, <2>1, <2>2, <3>1
    <3>2. CASE i # 1
      <4>1. i \in 2..Len(todo) /\ i \in 1..Len(todo) /\ todo'[i] = todo[i]
        BY <1>3, <1>10, <3>2
      <4>2. todo[i].progress = store[todo[i].id].progress + Unsaved(i)
        BY <4>1 DEF StratInv, Copies
      <4> QED BY <2>3, <4>1, <4>2
    <3> QED BY <3>1, <3>2
  <2> QED BY <1>3, <2>4 DEF Copies
<1>12. TradesAccounted'
  <2>0. todo'[1] = Head(todo')
    BY <1>3, HeadTailProperties
  <2> SUFFICES ASSUME NEW z \in Strategies
               PROVE  /\ landed'[z] = store[z].progress + Inflight(z)' + lost'[z]
                      /\ Target[z] > 0 /\ ~Exit(z) => landed'[z] <= Target[z] + lost'[z]
    BY <1>0 DEF TradesAccounted, Exit
  <2>1. CASE z = s
    <3>1. Inflight(s)' = IF ok THEN m ELSE 0
      BY <1>0, <1>2, <1>3, <1>c, <2>0 DEF Inflight, Strat, Amount
    <3>2. landed'[s] = store[s].progress + Inflight(s)' + lost'[s]
      BY <1>0, <1>1, <1>2, <1>4, <1>6, <1>8, <3>1
    <3>3. Target[s] > 0 /\ ~Exit(s) => landed'[s] <= Target[s] + lost'[s]
      <4>1. Target[s] \in Nat /\ landed[s] \in Nat /\ lost[s] \in Nat
        BY StratAssumption, <1>1, <1>4
      <4>2. CASE ~lands
        BY <1>0, <1>6, <1>8, <4>1, <4>2
      <4>3. CASE lands /\ ok
        BY <1>4, <1>6, <1>7, <1>8, <4>1, <4>3
      <4>4. CASE lands /\ ~ok
        BY <1>6, <1>8, <4>1, <4>4
      <4> QED BY <4>2, <4>3, <4>4
    <3> QED BY <2>1, <3>2, <3>3
  <2>2. CASE z # s
    <3>1. Inflight(z)' = 0
      BY <1>2, <1>3, <2>0, <2>2 DEF Inflight, Strat
    <3>2. /\ landed[z] = store[z].progress + Inflight(z) + lost[z]
          /\ Target[z] > 0 /\ ~Exit(z) => landed[z] <= Target[z] + lost[z]
      BY DEF StratInv, TradesAccounted
    <3> QED BY <1>5, <1>8, <2>2, <3>1, <3>2
  <2> QED BY <2>1, <2>2
<1> QED BY <1>9, <1>11, <1>12 DEF StratInv

\* The operator sets a status, the process dies, time passes.
LEMMA OtherStep ==
  ASSUME StratInv,
         \/ \E s \in Strategies, status \in {"active", "paused", "done"} : SetStatus(s, status)
         \/ StratCrash \/ StratTime \/ UNCHANGED stratVars
  PROVE  StratInv'
<1>1. ASSUME NEW s \in Strategies, NEW status \in {"active", "paused", "done"},
             SetStatus(s, status)
      PROVE  StratInv'
  <2>1. /\ store' = [store EXCEPT ![s].status = status] /\ store \in [Strategies -> StratRows]
        /\ UNCHANGED <<sclock, todo, phase, landed, lost>>
    BY <1>1 DEF SetStatus, StratInv, StratTyped
  <2>2. /\ store' \in [Strategies -> StratRows]
        /\ \A z \in Strategies : store'[z].id = store[z].id /\ store'[z].progress = store[z].progress
    BY <2>1 DEF StratRows
  <2>3. \A i \in 1..Len(todo) : todo[i].id \in Strategies
    <3>1. todo \in Seq(StratRows)
      BY DEF StratInv, StratTyped
    <3>2. \A i \in 1..Len(todo) : todo[i] \in StratRows
      BY <3>1, ElementOfSeq
    <3> QED BY <3>2 DEF StratRows
  <2>4. StratTyped'
    BY <2>1, <2>2 DEF StratInv, StratTyped
  <2>5. Copies'
    BY <2>1, <2>2, <2>3 DEF StratInv, Copies, Unsaved
  <2>6. TradesAccounted'
    BY <2>1, <2>2 DEF StratInv, TradesAccounted, Inflight, Strat
  <2> QED BY <2>4, <2>5, <2>6 DEF StratInv
<1>2. ASSUME StratCrash PROVE StratInv'
  <2>0. /\ phase # "idle" /\ phase' = "idle" /\ todo' = <<>> /\ UNCHANGED <<sclock, store, landed>>
    BY <1>2 DEF StratCrash
  <2>1. /\ Strat.id \in Strategies /\ \A z \in Strategies : z # Strat.id => Inflight(z) = 0
        /\ \A z \in Strategies : Inflight(z) \in Nat /\ Inflight(z)' = 0
    BY <2>0, HeadRow DEF Inflight
  <2>2. lost \in [Strategies -> Nat] /\ store \in [Strategies -> StratRows]
    BY DEF StratInv, StratTyped
  <2>3. /\ lost' \in [Strategies -> Nat]
        /\ \A z \in Strategies : lost'[z] = lost[z] + Inflight(z)
    <3>1. CASE phase = "swapped"
      <4>1. Amount(Strat.id) \in Nat /\ Inflight(Strat.id) = Amount(Strat.id)
        BY <2>1, <3>1, AmountNat DEF Inflight
      <4>2. lost' = [lost EXCEPT ![Strat.id] = @ + Amount(Strat.id)]
        BY <1>2, <3>1 DEF StratCrash
      <4> QED BY <2>1, <2>2, <4>1, <4>2
    <3>2. CASE phase # "swapped"
      <4>1. lost' = lost /\ \A z \in Strategies : Inflight(z) = 0
        BY <1>2, <3>2 DEF StratCrash, Inflight
      <4> QED BY <2>2, <4>1
    <3> QED BY <3>1, <3>2
  <2>4. StratTyped'
    BY <2>0, <2>3, EmptySeq DEF StratInv, StratTyped
  <2>5. Copies'
    BY <2>0, EmptySeq DEF Copies
  <2>6. TradesAccounted'
    <3> SUFFICES ASSUME NEW z \in Strategies
                 PROVE  /\ landed[z] = store[z].progress + Inflight(z)' + lost'[z]
                        /\ Target[z] > 0 /\ ~Exit(z) => landed[z] <= Target[z] + lost'[z]
      BY <2>0 DEF TradesAccounted, Exit
    <3>1. /\ landed[z] = store[z].progress + Inflight(z) + lost[z]
          /\ Target[z] > 0 /\ ~Exit(z) => landed[z] <= Target[z] + lost[z]
      BY DEF StratInv, TradesAccounted
    <3>2. store[z].progress \in Nat /\ lost[z] \in Nat /\ Target[z] \in Nat /\ landed[z] \in Nat
      BY StratAssumption, <2>2 DEF StratInv, StratTyped, StratRows
    <3> QED BY <2>1, <2>3, <3>1, <3>2
  <2> QED BY <2>4, <2>5, <2>6 DEF StratInv
<1>3. ASSUME StratTime \/ UNCHANGED stratVars PROVE StratInv'
  <2>1. sclock' \in Nat /\ UNCHANGED <<store, todo, phase, landed, lost>>
    BY <1>3 DEF StratTime, stratVars, StratInv, StratTyped
  <2>2. StratTyped'
    BY <2>1 DEF StratInv, StratTyped
  <2>3. Copies' /\ TradesAccounted'
    BY <2>1 DEF StratInv, Copies, Unsaved, TradesAccounted, Inflight, Strat
  <2> QED BY <2>2, <2>3 DEF StratInv
<1> QED BY <1>1, <1>2, <1>3

\* Every step keeps the invariant.
LEMMA NextStrat ==
  ASSUME StratInv, [StratNext]_stratVars
  PROVE  StratInv'
<1>0. ASSUME phase # "idle" PROVE Strat \in StratRows /\ sclock + Interval \in Nat
  BY StratAssumption, <1>0, HeadRow DEF StratInv, StratTyped
<1>a. ASSUME NEW r \in StratRows, phase # "idle"
      PROVE  /\ Reschedule(r) \in StratRows /\ Reschedule(r).id = r.id
             /\ Reschedule(r).progress = r.progress
  BY <1>0, <1>a DEF Reschedule, StratRows
<1>1. ASSUME StepDone PROVE StratInv'
  <2>1. phase # "idle" /\ SaveAndGo([Strat EXCEPT !.status = "done"])
        /\ UNCHANGED <<sclock, landed, lost>>
    BY <1>1 DEF StepDone
  <2>2. LET r == [Strat EXCEPT !.status = "done"]
        IN  r \in StratRows /\ r.id = Strat.id /\ r.progress = Strat.progress
    BY <1>0, <2>1 DEF StratRows
  <2> QED BY <2>1, <2>2, SaveStep
<1>2. ASSUME StepSkip \/ StepSave PROVE StratInv'
  <2>1. phase # "idle" /\ SaveAndGo(Reschedule(Strat)) /\ UNCHANGED <<sclock, landed, lost>>
    BY <1>2 DEF StepSkip, StepSave
  <2> QED BY <1>0, <1>a, <2>1, SaveStep
<1>3. ASSUME StepThrows PROVE StratInv'
  <2>1. phase # "idle" /\ SaveAndGo(Reschedule(Errored(Strat))) /\ UNCHANGED <<sclock, landed, lost>>
    BY <1>3 DEF StepThrows
  <2>2. Errored(Strat) \in StratRows /\ Errored(Strat).id = Strat.id
        /\ Errored(Strat).progress = Strat.progress
    BY <1>0, <2>1, ErroredIs
  <2> QED BY <1>a, <2>1, <2>2, SaveStep
<1> QED
  BY <1>1, <1>2, <1>3, TickStep, PriceStep, SwapStep, OtherStep DEF StratNext

\* Whatever stale copy is saved over what the operator did, every landed swap is in the
\* progress, under way, or lost to a crash or an uncertain answer, and a schedule
\* exceeds its budget only by what was lost.
THEOREM AccountsAlways == StratSpec => []TradesAccounted
<1>1. StratInit => StratInv
  BY InitStrat
<1>2. StratInv /\ [StratNext]_stratVars => StratInv'
  BY NextStrat
<1>3. StratInv => TradesAccounted
  BY DEF StratInv
<1> QED BY <1>1, <1>2, <1>3, PTL DEF StratSpec

-----------------------------------------------------------------------------
(* DelegationManager *)

InRun == {"running", "answered", "verifying", "finishing"}
Unsettled == {"queued", "running"}

ChildRow ==
  [status : {"absent", "queued", "running"} \cup Terminal, parent : Sessions, depth : Nat,
   phase : {"none", "settled"} \cup InRun, aborted : BOOLEAN, late : BOOLEAN,
   counted : BOOLEAN, announce : BOOLEAN]

DelTyped ==
  /\ child \in [Children -> ChildRow]
  /\ queue \in Seq(Children)
  /\ counts \in [Sessions -> Nat] /\ active \in Nat /\ draining \in BOOLEAN

\* How a child's status, the await it is in and its count go together; what is
\* aborted while it is verified is late; only the end announces
RowCoherent(r) ==
  /\ r.status \in {"absent", "queued"} => r.phase = "none"
  /\ r.status = "running" => r.phase \in {"running", "answered", "verifying"}
  /\ r.status \in Terminal => r.phase \in {"finishing", "settled"}
  /\ r.counted <=> r.status \in Unsettled
  /\ r.phase = "verifying" /\ r.aborted => r.late
  /\ r.announce => r.status \in Terminal
  /\ r.aborted /\ ~r.late => ~r.announce

Coherent == \A c \in Children : RowCoherent(child[c])

\* The queue holds queued children, each once
Queued ==
  /\ \A i \in 1..Len(queue) : child[queue[i]].status = "queued"
  /\ \A i, j \in 1..Len(queue) : queue[i] = queue[j] => i = j

DelInv == DelTyped /\ Coherent /\ Queued /\ SlotsReturned

\* The children in #run, and the unsettled ones of a session, in a table
Lanes(tab) == {c \in Children : tab[c].phase \in InRun}
Open(tab, s) == {c \in Children : tab[c].parent = s /\ tab[c].status \in Unsettled}

-----------------------------------------------------------------------------

\* Two sets of children that differ in one child.
LEMMA CountOne ==
  ASSUME NEW P \in SUBSET Children, NEW Q \in SUBSET Children, NEW c \in Children,
         \A d \in Children \ {c} : d \in P <=> d \in Q
  PROVE  /\ Cardinality(P) \in Nat /\ Cardinality(Q) \in Nat
         /\ (c \in P <=> c \in Q) => Cardinality(Q) = Cardinality(P)
         /\ c \in P /\ c \notin Q => Cardinality(Q) = Cardinality(P) - 1
         /\ c \notin P /\ c \in Q => Cardinality(Q) = Cardinality(P) + 1
<1>1. IsFiniteSet(P) /\ IsFiniteSet(Q)
  BY DelegationAssumption, FS_Subset
<1>2. Cardinality(P) \in Nat /\ Cardinality(Q) \in Nat
  BY <1>1, FS_CardinalityType
<1>3. ASSUME c \in P <=> c \in Q PROVE Cardinality(Q) = Cardinality(P)
  <2>1. P = Q
    BY <1>3
  <2> QED BY <2>1, Zenon
<1>4. ASSUME c \in P, c \notin Q PROVE Cardinality(Q) = Cardinality(P) - 1
  <2>1. Q = P \ {c}
    BY <1>4
  <2>2. Cardinality(P \ {c}) = Cardinality(P) - 1
    BY <1>1, <1>4, FS_RemoveElement
  <2> QED BY <2>1, <2>2, Zenon
<1>5. ASSUME c \notin P, c \in Q PROVE Cardinality(Q) = Cardinality(P) + 1
  <2>1. Q = P \cup {c}
    BY <1>5
  <2>2. Cardinality(P \cup {c}) = Cardinality(P) + 1
    BY <1>1, <1>5, FS_AddElement
  <2> QED BY <2>1, <2>2, Zenon
<1> QED BY <1>2, <1>3, <1>4, <1>5

\* The invariant in terms of the sets.
LEMMA SlotsMean ==
  SlotsReturned <=> /\ active = Cardinality(Lanes(child)) /\ active <= Concurrency
                    /\ \A s \in Sessions : counts[s] = Cardinality(Open(child, s))
BY Zenon DEF SlotsReturned, Lanes, Open, InRun, Unsettled

\* No child runs at first.
LEMMA InitDel == DelInit => DelInv
<1> SUFFICES ASSUME DelInit PROVE DelInv
  OBVIOUS
<1>1. Absent \in ChildRow
  BY DEF Absent, ChildRow, Sessions
<1>2. DelTyped
  BY <1>1, EmptySeq DEF DelInit, DelTyped
<1>3. Coherent /\ Queued
  BY DEF DelInit, Coherent, RowCoherent, Queued, Absent, Unsettled, Terminal
<1>4. Lanes(child) = {} /\ \A s \in Sessions : Open(child, s) = {}
  BY DEF DelInit, Lanes, Open, Absent, InRun, Unsettled
<1>5. Cardinality(Lanes(child)) = 0 /\ \A s \in Sessions : Cardinality(Open(child, s)) = 0
  BY <1>4, FS_EmptySet, Zenon
<1>6. SlotsReturned
  <2>1. active = 0 /\ 0 <= Concurrency /\ \A s \in Sessions : counts[s] = 0
    BY DelegationAssumption DEF DelInit
  <2> QED BY <1>5, <2>1, SlotsMean
<1> QED BY <1>2, <1>3, <1>6 DEF DelInv

\* A step of one child that is not queued: its lane and its parent's count follow.
LEMMA OneMoves ==
  ASSUME DelInv, NEW c \in Children, child' \in [Children -> ChildRow],
         \A d \in Children \ {c} : child'[d] = child[d],
         child'[c].parent = child[c].parent, RowCoherent(child'[c]),
         queue' \in Seq(Children), draining' \in BOOLEAN, Queued',
         active' = IF child[c].phase \in InRun
                   THEN (IF child'[c].phase \in InRun THEN active ELSE active - 1)
                   ELSE (IF child'[c].phase \in InRun THEN active + 1 ELSE active),
         active' <= Concurrency,
         child[c].status \in Unsettled \/ child'[c].status \notin Unsettled,
         counts' = IF child[c].status \in Unsettled /\ child'[c].status \notin Unsettled
                   THEN Returned(counts, c) ELSE counts
  PROVE  DelInv'
<1>1. /\ child \in [Children -> ChildRow] /\ counts \in [Sessions -> Nat] /\ active \in Nat
      /\ active = Cardinality(Lanes(child))
      /\ \A s \in Sessions : counts[s] = Cardinality(Open(child, s))
  BY SlotsMean DEF DelInv, DelTyped
<1>2. Lanes(child) \in SUBSET Children /\ Lanes(child') \in SUBSET Children
      /\ \A s \in Sessions : Open(child, s) \in SUBSET Children /\ Open(child', s) \in SUBSET Children
  BY DEF Lanes, Open
<1>3. active' = Cardinality(Lanes(child')) /\ active' \in Nat
  <2>1. \A d \in Children \ {c} : d \in Lanes(child) <=> d \in Lanes(child')
    BY DEF Lanes
  <2>2. (c \in Lanes(child) <=> child[c].phase \in InRun) /\ (c \in Lanes(child') <=> child'[c].phase \in InRun)
    BY DEF Lanes
  <2>3. /\ Cardinality(Lanes(child)) \in Nat /\ Cardinality(Lanes(child')) \in Nat
        /\ (c \in Lanes(child) <=> c \in Lanes(child')) => Cardinality(Lanes(child')) = Cardinality(Lanes(child))
        /\ c \in Lanes(child) /\ c \notin Lanes(child') => Cardinality(Lanes(child')) = Cardinality(Lanes(child)) - 1
        /\ c \notin Lanes(child) /\ c \in Lanes(child') => Cardinality(Lanes(child')) = Cardinality(Lanes(child)) + 1
    BY <1>2, <2>1, CountOne
  <2> QED BY <1>1, <2>2, <2>3
<1>4. child[c].parent \in Sessions
  BY <1>1 DEF ChildRow
<1>5. \A s \in Sessions : counts'[s] = Cardinality(Open(child', s)) /\ counts'[s] \in Nat
  <2> SUFFICES ASSUME NEW s \in Sessions
               PROVE  counts'[s] = Cardinality(Open(child', s)) /\ counts'[s] \in Nat
    OBVIOUS
  <2>1. \A d \in Children \ {c} : d \in Open(child, s) <=> d \in Open(child', s)
    BY DEF Open
  <2>2. /\ c \in Open(child, s) <=> child[c].parent = s /\ child[c].status \in Unsettled
        /\ c \in Open(child', s) <=> child[c].parent = s /\ child'[c].status \in Unsettled
    BY DEF Open
  <2>3. /\ Cardinality(Open(child, s)) \in Nat /\ Cardinality(Open(child', s)) \in Nat
        /\ (c \in Open(child, s) <=> c \in Open(child', s)) => Cardinality(Open(child', s)) = Cardinality(Open(child, s))
        /\ c \in Open(child, s) /\ c \notin Open(child', s) => Cardinality(Open(child', s)) = Cardinality(Open(child, s)) - 1
    BY <1>2, <2>1, CountOne
  <2>4. Returned(counts, c)[s] = IF child[c].parent = s
                                 THEN (IF counts[s] > 0 THEN counts[s] - 1 ELSE 0) ELSE counts[s]
    BY <1>1, <1>4 DEF Returned
  <2> QED BY <1>1, <2>2, <2>3, <2>4
<1>6. Returned(counts, c) \in [Sessions -> Nat]
  BY <1>1, <1>4 DEF Returned
<1>7. DelTyped'
  BY <1>1, <1>3, <1>6 DEF DelTyped
<1>8. Coherent'
  <2>1. \A d \in Children : RowCoherent(child'[d])
    BY DEF DelInv, Coherent
  <2> QED BY <2>1 DEF Coherent, RowCoherent
<1>9. SlotsReturned'
  <2>1. active' = Cardinality(Lanes(child)') /\ active' <= Concurrency
        /\ \A s \in Sessions : counts'[s] = Cardinality(Open(child, s)')
    BY <1>3, <1>5 DEF Lanes, Open
  <2> QED BY <2>1, Zenon DEF SlotsReturned, Lanes, Open, InRun, Unsettled
<1> QED BY <1>7, <1>8, <1>9 DEF DelInv

\* The row of a child whose run has ended.
LEMMA SettledRow ==
  ASSUME child \in [Children -> ChildRow], NEW c \in Children, child[c].phase # "none",
         NEW s \in Terminal, NEW a \in BOOLEAN
  PROVE  /\ Settled(child, c, s, a) \in [Children -> ChildRow]
         /\ \A d \in Children \ {c} : Settled(child, c, s, a)[d] = child[d]
         /\ Settled(child, c, s, a)[c].status = s /\ Settled(child, c, s, a)[c].phase = "finishing"
         /\ ~Settled(child, c, s, a)[c].counted /\ Settled(child, c, s, a)[c].announce = a
         /\ Settled(child, c, s, a)[c].parent = child[c].parent
         /\ Settled(child, c, s, a)[c].aborted = child[c].aborted
         /\ Settled(child, c, s, a)[c].late = child[c].late
<1> DEFINE r  == child[c]
           r1 == [r EXCEPT !.status = s]
           r2 == [r1 EXCEPT !.counted = FALSE]
           r3 == [r2 EXCEPT !.announce = a]
           r4 == [r3 EXCEPT !.phase = IF @ = "none" THEN "settled" ELSE "finishing"]
<1>1. r \in ChildRow /\ r.phase # "none"
  OBVIOUS
<1>2. /\ r1 \in ChildRow /\ r1.status = s /\ r1.phase = r.phase /\ r1.parent = r.parent
      /\ r1.aborted = r.aborted /\ r1.late = r.late
  BY <1>1 DEF ChildRow
<1> HIDE DEF r1
<1>3. /\ r2 \in ChildRow /\ r2.status = s /\ r2.phase = r.phase /\ r2.parent = r.parent
      /\ r2.aborted = r.aborted /\ r2.late = r.late /\ ~r2.counted
  BY <1>2 DEF ChildRow
<1> HIDE DEF r2
<1>4. /\ r3 \in ChildRow /\ r3.status = s /\ r3.phase = r.phase /\ r3.parent = r.parent
      /\ r3.aborted = r.aborted /\ r3.late = r.late /\ ~r3.counted /\ r3.announce = a
  BY <1>3 DEF ChildRow
<1> HIDE DEF r3
<1>5. /\ r4 \in ChildRow /\ r4.status = s /\ r4.phase = "finishing" /\ r4.parent = r.parent
      /\ r4.aborted = r.aborted /\ r4.late = r.late /\ ~r4.counted /\ r4.announce = a
  BY <1>1, <1>4 DEF ChildRow, InRun
<1>6. Settled(child, c, s, a) = [child EXCEPT ![c] = r4]
  BY Zenon DEF Settled, r1, r2, r3
<1> HIDE DEF r4
<1> QED BY <1>5, <1>6

\* #finish of a child that ran: its count goes back, its lane not yet.
LEMMA FinishStep ==
  ASSUME DelInv, NEW c \in Children, child[c].status = "running",
         NEW s \in Terminal, NEW a \in BOOLEAN, a /\ child[c].aborted => child[c].late,
         Finish(c, s, a), UNCHANGED <<queue, active, draining>>
  PROVE  DelInv'
<1>1. /\ child \in [Children -> ChildRow] /\ RowCoherent(child[c])
      /\ active <= Concurrency /\ Queued /\ queue \in Seq(Children)
  BY DEF DelInv, DelTyped, Coherent, SlotsReturned
<1>2. child[c].phase \in InRun /\ child[c].phase # "none" /\ child[c].counted
  BY <1>1 DEF RowCoherent, InRun, Unsettled
<1>3. child' = Settled(child, c, s, a) /\ counts' = Returned(counts, c)
  BY <1>2 DEF Finish
<1>4. /\ child' \in [Children -> ChildRow] /\ \A d \in Children \ {c} : child'[d] = child[d]
      /\ child'[c].status = s /\ child'[c].phase = "finishing" /\ ~child'[c].counted
      /\ child'[c].announce = a /\ child'[c].parent = child[c].parent
      /\ child'[c].aborted = child[c].aborted /\ child'[c].late = child[c].late
  BY <1>1, <1>2, <1>3, SettledRow
<1>5. RowCoherent(child'[c]) /\ s \notin Unsettled
  BY <1>4 DEF RowCoherent, Terminal, Unsettled
<1>6. Queued'
  <2>1. \A i \in 1..Len(queue) : queue[i] \in Children /\ queue[i] # c
    BY <1>1 DEF Queued
  <2> QED BY <1>1, <1>4, <2>1 DEF Queued
<1>7. child[c].status \in Unsettled /\ child'[c].status \notin Unsettled /\ child'[c].phase \in InRun
  BY <1>4, <1>5 DEF Unsettled, InRun
<1>8. queue' \in Seq(Children) /\ draining' \in BOOLEAN /\ active' = active
  BY DEF DelInv, DelTyped
<1> QED BY <1>1, <1>2, <1>3, <1>4, <1>5, <1>6, <1>7, <1>8, OneMoves

\* Spawn: one unsettled child more.
LEMMA SpawnStep ==
  ASSUME DelInv, NEW p \in Sessions, NEW c \in Children, Spawn(p, c)
  PROVE  DelInv'
<1> DEFINE r1 == [Absent EXCEPT !.status = "queued"]
           r2 == [r1 EXCEPT !.parent = p]
           r3 == [r2 EXCEPT !.depth = DepthOf(p) + 1]
           row == [r3 EXCEPT !.counted = TRUE]
<1>1. /\ child[c].status = "absent" /\ UNCHANGED active /\ draining' = TRUE
      /\ child' = [child EXCEPT ![c] = row] /\ counts' = [counts EXCEPT ![p] = @ + 1]
      /\ queue' = Append(queue, c)
  BY DEF Spawn
<1>2. /\ child \in [Children -> ChildRow] /\ counts \in [Sessions -> Nat] /\ active \in Nat
      /\ queue \in Seq(Children) /\ Queued /\ RowCoherent(child[c])
      /\ active = Cardinality(Lanes(child)) /\ active <= Concurrency
      /\ \A s \in Sessions : counts[s] = Cardinality(Open(child, s))
  BY SlotsMean DEF DelInv, DelTyped, Coherent
<1>3. DepthOf(p) + 1 \in Nat
  BY <1>2 DEF DepthOf, Sessions, ChildRow
<1>4. row \in ChildRow /\ row.phase = "none" /\ row.status = "queued" /\ row.parent = p
      /\ row.counted /\ ~row.announce /\ ~row.aborted
  <2>1. /\ r1 \in ChildRow /\ r1.phase = "none" /\ r1.status = "queued"
        /\ ~r1.announce /\ ~r1.aborted
    BY DEF Absent, ChildRow, Sessions
  <2> HIDE DEF r1
  <2>2. /\ r2 \in ChildRow /\ r2.phase = "none" /\ r2.status = "queued" /\ r2.parent = p
        /\ ~r2.announce /\ ~r2.aborted
    BY <2>1 DEF ChildRow
  <2> HIDE DEF r2
  <2>3. /\ r3 \in ChildRow /\ r3.phase = "none" /\ r3.status = "queued" /\ r3.parent = p
        /\ ~r3.announce /\ ~r3.aborted
    BY <1>3, <2>2 DEF ChildRow
  <2> HIDE DEF r3
  <2> QED BY <2>3 DEF ChildRow
<1> HIDE DEF row
<1>5. RowCoherent(row)
  BY <1>4 DEF RowCoherent, Unsettled, Terminal
<1>6. /\ child' \in [Children -> ChildRow] /\ child'[c] = row
      /\ \A d \in Children \ {c} : child'[d] = child[d]
  BY <1>1, <1>2, <1>4
<1>7. child[c].phase = "none"
  BY <1>1, <1>2 DEF RowCoherent
<1>8. Cardinality(Lanes(child')) = active
  <2>1. Lanes(child') = Lanes(child)
    BY <1>4, <1>6, <1>7 DEF Lanes, InRun
  <2> QED BY <1>2, <2>1, Zenon
<1>9. \A s \in Sessions : counts'[s] = Cardinality(Open(child', s))
  <2> SUFFICES ASSUME NEW s \in Sessions PROVE counts'[s] = Cardinality(Open(child', s))
    OBVIOUS
  <2>1. /\ Open(child, s) \in SUBSET Children /\ Open(child', s) \in SUBSET Children
        /\ \A d \in Children \ {c} : d \in Open(child, s) <=> d \in Open(child', s)
        /\ c \notin Open(child, s) /\ (c \in Open(child', s) <=> s = p)
    BY <1>1, <1>4, <1>6 DEF Open, Unsettled
  <2>2. /\ (c \in Open(child, s) <=> c \in Open(child', s)) =>
             Cardinality(Open(child', s)) = Cardinality(Open(child, s))
        /\ c \notin Open(child, s) /\ c \in Open(child', s) =>
             Cardinality(Open(child', s)) = Cardinality(Open(child, s)) + 1
    BY <2>1, CountOne
  <2> QED BY <1>1, <1>2, <2>1, <2>2
<1>10. DelTyped'
  BY <1>1, <1>2, <1>6, AppendProperties DEF DelTyped
<1>11. Coherent'
  <2>1. \A d \in Children : RowCoherent(child'[d])
    BY <1>5, <1>6 DEF DelInv, Coherent
  <2> QED BY <2>1 DEF Coherent, RowCoherent
<1>12. Queued'
  <2>1. \A i \in 1..Len(queue) : queue[i] \in Children /\ queue[i] # c
    BY <1>1, <1>2 DEF Queued
  <2>2. /\ Len(queue') = Len(queue) + 1 /\ queue'[Len(queue) + 1] = c /\ Len(queue) \in Nat
        /\ \A i \in 1..Len(queue) : queue'[i] = queue[i]
    BY <1>1, <1>2, AppendProperties
  <2>3. \A i \in 1..Len(queue') : child'[queue'[i]].status = "queued"
    BY <1>2, <1>4, <1>6, <2>1, <2>2 DEF Queued
  <2>4. \A i, j \in 1..Len(queue') : queue'[i] = queue'[j] => i = j
    BY <1>2, <2>1, <2>2 DEF Queued
  <2> QED BY <2>3, <2>4 DEF Queued
<1>13. SlotsReturned'
  <2>1. active' = Cardinality(Lanes(child)') /\ active' <= Concurrency
        /\ \A s \in Sessions : counts'[s] = Cardinality(Open(child, s)')
    BY <1>1, <1>2, <1>8, <1>9 DEF Lanes, Open
  <2> QED BY <2>1, Zenon DEF SlotsReturned, Lanes, Open, InRun, Unsettled
<1> QED BY <1>10, <1>11, <1>12, <1>13 DEF DelInv

\* A step of one child inside #run: no lane and no count is touched.
LEMMA PhaseStep ==
  ASSUME DelInv, NEW c \in Children, child[c].status = "running",
         NEW ph \in {"answered", "verifying"},
         ph = "verifying" => ~child[c].aborted,
         child' = [child EXCEPT ![c].phase = ph],
         UNCHANGED <<queue, counts, active, draining>>
  PROVE  DelInv'
<1>1. /\ child \in [Children -> ChildRow] /\ RowCoherent(child[c])
      /\ active <= Concurrency /\ Queued /\ queue \in Seq(Children)
  BY DEF DelInv, DelTyped, Coherent, SlotsReturned
<1>2. /\ child' \in [Children -> ChildRow] /\ \A d \in Children \ {c} : child'[d] = child[d]
      /\ child'[c].status = "running" /\ child'[c].phase = ph
      /\ child'[c].counted = child[c].counted
      /\ child'[c].announce = child[c].announce /\ child'[c].parent = child[c].parent
      /\ child'[c].aborted = child[c].aborted /\ child'[c].late = child[c].late
  BY <1>1 DEF ChildRow, InRun
<1>3. RowCoherent(child'[c])
  BY <1>1, <1>2 DEF RowCoherent, Terminal, Unsettled
<1>4. Queued'
  <2>1. \A i \in 1..Len(queue) : queue[i] \in Children /\ queue[i] # c
    BY <1>1 DEF Queued
  <2> QED BY <1>1, <1>2, <2>1 DEF Queued
<1>5. child[c].phase \in InRun /\ child'[c].phase \in InRun
  BY <1>1, <1>2 DEF RowCoherent, InRun
<1>6. child[c].status \in Unsettled /\ child'[c].status \in Unsettled
  BY <1>2 DEF Unsettled
<1>7. queue' \in Seq(Children) /\ draining' \in BOOLEAN /\ active' = active /\ counts' = counts
  BY DEF DelInv, DelTyped
<1> QED BY <1>1, <1>2, <1>3, <1>4, <1>5, <1>6, <1>7, OneMoves

\* #drain: the head of the queue takes a lane.
LEMMA DrainStep ==
  ASSUME DelInv, Drain PROVE DelInv'
<1>1. /\ child \in [Children -> ChildRow] /\ active \in Nat /\ Concurrency \in Nat
      /\ active <= Concurrency /\ Queued /\ queue \in Seq(Children) /\ Coherent
  BY DelegationAssumption DEF DelInv, DelTyped, Coherent, SlotsReturned
<1>2. CASE LaneFree /\ queue # <<>>
  <2> DEFINE c == Head(queue)
  <2>1. /\ child' = [child EXCEPT ![c].status = "running", ![c].phase = "running"]
        /\ active' = active + 1 /\ queue' = Tail(queue) /\ UNCHANGED <<counts, draining>>
    BY <1>2 DEF Drain
  <2>2. /\ c \in Children /\ c = queue[1] /\ 1 \in 1..Len(queue) /\ Len(queue) \in Nat
        /\ queue' \in Seq(Children)
        /\ Len(queue') = Len(queue) - 1 /\ \A i \in 1..Len(queue') : queue'[i] = queue[i + 1]
    BY <1>1, <1>2, <2>1, HeadTailProperties, EmptySeq
  <2>3. child[c].status = "queued" /\ RowCoherent(child[c])
    BY <1>1, <2>2 DEF Queued, Coherent
  <2> HIDE DEF c
  <2>4. /\ child' \in [Children -> ChildRow] /\ \A d \in Children \ {c} : child'[d] = child[d]
        /\ child'[c].status = "running" /\ child'[c].phase = "running"
        /\ child'[c].counted = child[c].counted
        /\ child'[c].announce = child[c].announce /\ child'[c].parent = child[c].parent
        /\ child'[c].aborted = child[c].aborted /\ child'[c].late = child[c].late
    <3> DEFINE r == child[c]
               r1 == [r EXCEPT !.status = "running"]
               r2 == [r1 EXCEPT !.phase = "running"]
    <3>1. r \in ChildRow
      BY <1>1, <2>2
    <3>2. /\ r1 \in ChildRow /\ r1.status = "running" /\ r1.counted = r.counted
          /\ r1.announce = r.announce /\ r1.parent = r.parent
          /\ r1.aborted = r.aborted /\ r1.late = r.late
      BY <3>1 DEF ChildRow
    <3> HIDE DEF r1
    <3>3. /\ r2 \in ChildRow /\ r2.status = "running" /\ r2.phase = "running"
          /\ r2.counted = r.counted /\ r2.announce = r.announce /\ r2.parent = r.parent
          /\ r2.aborted = r.aborted /\ r2.late = r.late
      BY <3>2 DEF ChildRow, InRun
    <3>4. child' = [child EXCEPT ![c] = r2]
      BY <2>1, Zenon DEF r1
    <3> HIDE DEF r2
    <3> QED BY <1>1, <2>2, <3>3, <3>4
  <2>5. RowCoherent(child'[c])
    BY <2>3, <2>4 DEF RowCoherent, Terminal, Unsettled
  <2>6. Queued'
    <3>1. \A i \in 1..Len(queue') : i + 1 \in 1..Len(queue) /\ queue[i + 1] # c /\ queue[i + 1] \in Children
      BY <1>1, <2>2 DEF Queued
    <3>2. \A i \in 1..Len(queue') : child'[queue'[i]].status = "queued"
      BY <1>1, <2>2, <2>4, <3>1 DEF Queued
    <3>3. \A i, j \in 1..Len(queue') : queue'[i] = queue'[j] => i = j
      <4> SUFFICES ASSUME NEW i \in 1..Len(queue'), NEW j \in 1..Len(queue'), queue'[i] = queue'[j]
                   PROVE  i = j
        OBVIOUS
      <4>1. i + 1 \in 1..Len(queue) /\ j + 1 \in 1..Len(queue) /\ queue[i + 1] = queue[j + 1]
        BY <2>2, <3>1
      <4>2. i + 1 = j + 1
        BY <1>1, <4>1 DEF Queued
      <4> QED BY <4>2
    <3> QED BY <3>2, <3>3 DEF Queued
  <2>7. child[c].phase \notin InRun /\ child'[c].phase \in InRun
    BY <2>3, <2>4 DEF RowCoherent, InRun
  <2>8. child[c].status \in Unsettled /\ child'[c].status \in Unsettled
    BY <2>3, <2>4 DEF Unsettled
  <2>9. draining' \in BOOLEAN /\ active' <= Concurrency
    BY <1>1, <1>2, <2>1 DEF DelInv, DelTyped, LaneFree
  <2> QED BY <2>1, <2>2, <2>4, <2>5, <2>6, <2>7, <2>8, <2>9, OneMoves
<1>3. CASE ~(LaneFree /\ queue # <<>>)
  <2>1. UNCHANGED <<child, queue, counts, active>> /\ draining' \in BOOLEAN
    BY <1>3 DEF Drain
  <2> QED BY <2>1 DEF DelInv, DelTyped, Coherent, Queued, SlotsReturned, RowCoherent
<1> QED BY <1>2, <1>3

\* The lane is given back at the end of #run.
LEMMA ReleaseStep ==
  ASSUME DelInv, NEW c \in Children, Release(c) PROVE DelInv'
<1>1. /\ child \in [Children -> ChildRow] /\ RowCoherent(child[c]) /\ active \in Nat
      /\ active <= Concurrency /\ Queued /\ queue \in Seq(Children) /\ Concurrency \in Nat
  BY DelegationAssumption DEF DelInv, DelTyped, Coherent, SlotsReturned
<1>2. /\ child[c].phase = "finishing" /\ child' = [child EXCEPT ![c].phase = "settled"]
      /\ active' = active - 1 /\ draining' = TRUE /\ UNCHANGED <<queue, counts>>
  BY DEF Release, LaneReturned
<1>3. /\ child' \in [Children -> ChildRow] /\ \A d \in Children \ {c} : child'[d] = child[d]
      /\ child'[c].status = child[c].status /\ child'[c].phase = "settled"
      /\ child'[c].counted = child[c].counted
      /\ child'[c].announce = child[c].announce /\ child'[c].parent = child[c].parent
      /\ child'[c].aborted = child[c].aborted /\ child'[c].late = child[c].late
  BY <1>1, <1>2 DEF ChildRow, InRun
<1>4. child[c].status \in Terminal /\ child[c].status \notin Unsettled
  BY <1>1, <1>2 DEF RowCoherent, ChildRow, Terminal, Unsettled
<1>5. RowCoherent(child'[c])
  BY <1>1, <1>3, <1>4 DEF RowCoherent, Terminal
<1>6. Queued'
  <2>1. \A i \in 1..Len(queue) : queue[i] \in Children /\ queue[i] # c
    BY <1>1, <1>4 DEF Queued, Terminal
  <2> QED BY <1>1, <1>2, <1>3, <2>1 DEF Queued
<1>7. child[c].phase \in InRun /\ child'[c].phase \notin InRun /\ child'[c].status \notin Unsettled
  BY <1>2, <1>3, <1>4 DEF InRun
<1>8. queue' \in Seq(Children) /\ draining' \in BOOLEAN /\ active' <= Concurrency
  BY <1>1, <1>2
<1> QED BY <1>1, <1>2, <1>3, <1>4, <1>5, <1>6, <1>7, <1>8, OneMoves

\* What #cancel makes of a queued child, and of one that runs
Dropped(r) == [r EXCEPT !.aborted = TRUE, !.status = "cancelled", !.counted = FALSE, !.phase = "settled"]
Signalled(r) == [r EXCEPT !.aborted = TRUE,
                          !.late = IF r.aborted THEN @ ELSE r.phase = "verifying"]

\* A queued child ends at once, without an announcement.
LEMMA DroppedRow ==
  ASSUME NEW r \in ChildRow, RowCoherent(r), r.status = "queued"
  PROVE  /\ Dropped(r) \in ChildRow /\ RowCoherent(Dropped(r)) /\ Dropped(r).parent = r.parent
         /\ Dropped(r).status \notin Unsettled /\ Dropped(r).phase \notin InRun
<1> DEFINE r1 == [r EXCEPT !.aborted = TRUE]
           r2 == [r1 EXCEPT !.status = "cancelled"]
           r3 == [r2 EXCEPT !.counted = FALSE]
           r4 == [r3 EXCEPT !.phase = "settled"]
<1>0. ~r.announce
  BY DEF RowCoherent, Terminal
<1>1. r1 \in ChildRow /\ r1.parent = r.parent /\ r1.announce = r.announce
  BY DEF ChildRow
<1> HIDE DEF r1
<1>2. /\ r2 \in ChildRow /\ r2.parent = r.parent /\ r2.announce = r.announce
      /\ r2.status = "cancelled"
  BY <1>1 DEF ChildRow, Terminal
<1> HIDE DEF r2
<1>3. /\ r3 \in ChildRow /\ r3.parent = r.parent /\ r3.announce = r.announce
      /\ r3.status = "cancelled" /\ ~r3.counted
  BY <1>2 DEF ChildRow
<1> HIDE DEF r3
<1>4. /\ r4 \in ChildRow /\ r4.parent = r.parent /\ r4.announce = r.announce
      /\ r4.status = "cancelled" /\ ~r4.counted /\ r4.phase = "settled"
  BY <1>3 DEF ChildRow
<1>5. Dropped(r) = r4
  BY Zenon DEF Dropped, r1, r2, r3
<1> HIDE DEF r4
<1>6. RowCoherent(r4)
  BY <1>0, <1>4 DEF RowCoherent, Terminal, Unsettled
<1> QED BY <1>4, <1>5, <1>6 DEF Unsettled, InRun

\* A running child goes on, with the signal set.
LEMMA SignalledRow ==
  ASSUME NEW r \in ChildRow, RowCoherent(r), r.status = "running"
  PROVE  /\ Signalled(r) \in ChildRow /\ RowCoherent(Signalled(r)) /\ Signalled(r).parent = r.parent
         /\ Signalled(r).status = "running" /\ Signalled(r).phase = r.phase
<1> DEFINE r1 == [r EXCEPT !.aborted = TRUE]
           l  == IF r.aborted THEN r.late ELSE r.phase = "verifying"
           r2 == [r1 EXCEPT !.late = l]
<1>1. /\ r1 \in ChildRow /\ r1.parent = r.parent /\ r1.announce = r.announce /\ r1.status = "running"
      /\ r1.phase = r.phase /\ r1.counted = r.counted /\ r1.aborted /\ r1.late = r.late
  BY DEF ChildRow
<1>2. l \in BOOLEAN
  BY DEF ChildRow
<1>3. Signalled(r) = r2
  <2>1. r1.late = r.late
    BY <1>1
  <2> HIDE DEF l
  <2>2. Signalled(r) = [r1 EXCEPT !.late = IF r.aborted THEN r1.late ELSE r.phase = "verifying"]
    BY Zenon DEF Signalled
  <2> QED BY <2>1, <2>2, Zenon DEF l
<1> HIDE DEF r1, l
<1>4. /\ r2 \in ChildRow /\ r2.parent = r.parent /\ r2.announce = r.announce /\ r2.status = "running"
      /\ r2.phase = r.phase /\ r2.counted = r.counted /\ r2.aborted /\ r2.late = l
  BY <1>1, <1>2 DEF ChildRow
<1> HIDE DEF r2
<1>5. RowCoherent(r2)
  BY <1>4 DEF RowCoherent, Terminal, Unsettled, l
<1> QED BY <1>3, <1>4, <1>5

\* Cancelling any children in one turn: the queued ones leave the queue and give
\* their counts back, the running ones keep their lanes.
LEMMA CancelStep ==
  ASSUME DelInv, NEW which \in SUBSET Children, CancelAll(which) PROVE DelInv'
<1> DEFINE live == {c \in which : child[c].status \notin Terminal \cup {"absent"}}
           queued == {c \in live : child[c].status = "queued"}
           given(p) == {c \in queued : child[c].parent = p /\ child[c].counted}
<1>1. /\ child \in [Children -> ChildRow] /\ counts \in [Sessions -> Nat] /\ active \in Nat
      /\ queue \in Seq(Children) /\ Queued /\ \A c \in Children : RowCoherent(child[c])
      /\ active = Cardinality(Lanes(child)) /\ active <= Concurrency
      /\ \A s \in Sessions : counts[s] = Cardinality(Open(child, s))
  BY SlotsMean DEF DelInv, DelTyped, Coherent
<1>2. /\ child' = [c \in Children |-> IF c \in queued THEN Dropped(child[c])
                                      ELSE IF c \in live THEN Signalled(child[c]) ELSE child[c]]
      /\ counts' = [s \in Sessions |-> counts[s] - Cardinality(given(s))]
      /\ queue' = Without(queue, queued) /\ UNCHANGED <<active, draining>>
  BY DEF CancelAll, Dropped, Signalled
<1>3. /\ queued \in SUBSET Children /\ \A c \in queued : child[c].status = "queued"
      /\ \A c \in live \ queued : c \in Children /\ child[c].status = "running"
  BY <1>1 DEF ChildRow, Terminal
<1> HIDE DEF live, queued
<1>4. ASSUME NEW c \in Children
      PROVE  /\ child'[c] \in ChildRow /\ RowCoherent(child'[c]) /\ child'[c].parent = child[c].parent
             /\ child'[c].phase \in InRun <=> child[c].phase \in InRun
             /\ child'[c].status \in Unsettled <=> child[c].status \in Unsettled /\ c \notin queued
             /\ c \notin queued /\ child[c].status = "queued" => child'[c] = child[c]
  <2>0. child[c] \in ChildRow /\ RowCoherent(child[c])
    BY <1>1
  <2>1. CASE c \in queued
    <3>1. child'[c] = Dropped(child[c]) /\ child[c].status = "queued"
      BY <1>2, <1>3, <2>1
    <3>2. child[c].phase \notin InRun
      BY <2>0, <3>1 DEF RowCoherent, InRun
    <3> QED BY <2>0, <2>1, <3>1, <3>2, DroppedRow
  <2>2. CASE c \notin queued /\ c \in live
    <3>1. child'[c] = Signalled(child[c]) /\ child[c].status = "running"
      BY <1>2, <1>3, <2>2
    <3> QED BY <2>0, <2>2, <3>1, SignalledRow DEF Unsettled
  <2>3. CASE c \notin queued /\ c \notin live
    <3>1. child'[c] = child[c]
      BY <1>2, <2>3
    <3> QED BY <2>0, <2>3, <3>1
  <2> QED BY <2>1, <2>2, <2>3
<1>5. child' \in [Children -> ChildRow]
  BY <1>2, <1>4
<1>6. Coherent'
  BY <1>4 DEF Coherent, RowCoherent
<1>7. Cardinality(Lanes(child')) = active
  <2>1. Lanes(child') = Lanes(child)
    BY <1>4 DEF Lanes
  <2> QED BY <1>1, <2>1, Zenon
<1>8. \A s \in Sessions : counts'[s] = Cardinality(Open(child', s)) /\ counts'[s] \in Nat
  <2> SUFFICES ASSUME NEW s \in Sessions
               PROVE  counts'[s] = Cardinality(Open(child', s)) /\ counts'[s] \in Nat
    OBVIOUS
  <2> DEFINE P == Open(child, s)
  <2>1. IsFiniteSet(P)
    BY DelegationAssumption, FS_Subset DEF Open
  <2>2. Open(child', s) = P \ given(s)
    <3>1. \A c \in queued : child[c].counted
      BY <1>1, <1>3 DEF RowCoherent, Unsettled
    <3> QED BY <1>3, <1>4, <3>1 DEF Open
  <2>3. given(s) = P \cap given(s)
    BY <1>3 DEF Open, Unsettled
  <2> HIDE DEF P, given
  <2>4. /\ Cardinality(P \ given(s)) = Cardinality(P) - Cardinality(P \cap given(s))
        /\ IsFiniteSet(P \ given(s))
    BY <2>1, FS_Difference
  <2>5. Cardinality(P \ given(s)) \in Nat
    BY <2>4, FS_CardinalityType
  <2>6. Cardinality(P \cap given(s)) = Cardinality(given(s))
    BY <2>3, Zenon
  <2>7. Cardinality(Open(child', s)) = Cardinality(P \ given(s))
    BY <2>2, Zenon
  <2>8. counts'[s] = Cardinality(P) - Cardinality(given(s))
    BY <1>1, <1>2 DEF P
  <2> QED BY <2>4, <2>5, <2>6, <2>7, <2>8
<1>9. Queued' /\ queue' \in Seq(Children)
  <2>1. /\ queue' \in Seq(Children)
        /\ \A k \in 1..Len(queue') : \E i \in 1..Len(queue) : queue'[k] = queue[i] /\ queue[i] \notin queued
        /\ \A k, l \in 1..Len(queue') : queue'[k] = queue'[l] => k = l
    <3>1. \A i, j \in 1..Len(queue) : queue[i] = queue[j] => i = j
      BY <1>1 DEF Queued
    <3> DEFINE w == Without(queue, queued)
    <3>2. queue \in Seq(Children)
      BY <1>1
    <3>3. /\ w \in Seq(Children)
          /\ \A k \in 1..Len(w) : \E i \in 1..Len(queue) : w[k] = queue[i] /\ queue[i] \notin queued
          /\ \A k, l \in 1..Len(w) : w[k] = w[l] => k = l
      BY <3>1, <3>2, WithoutKeeps, Zenon
    <3>4. queue' = w
      BY <1>2
    <3> HIDE DEF w
    <3> QED BY <3>3, <3>4
  <2>2. \A k \in 1..Len(queue') : child'[queue'[k]].status = "queued"
    <3> SUFFICES ASSUME NEW k \in 1..Len(queue') PROVE child'[queue'[k]].status = "queued"
      OBVIOUS
    <3>1. PICK i \in 1..Len(queue) : queue'[k] = queue[i] /\ queue[i] \notin queued
      BY <2>1
    <3>2. queue[i] \in Children /\ child[queue[i]].status = "queued"
      BY <1>1 DEF Queued
    <3> QED BY <1>4, <3>1, <3>2
  <2> QED BY <2>1, <2>2 DEF Queued
<1>10. counts' \in [Sessions -> Nat]
  BY <1>2, <1>8
<1>11. DelTyped'
  BY <1>1, <1>2, <1>5, <1>9, <1>10 DEF DelInv, DelTyped
<1>12. SlotsReturned'
  <2>1. active' = Cardinality(Lanes(child)') /\ active' <= Concurrency
        /\ \A s \in Sessions : counts'[s] = Cardinality(Open(child, s)')
    BY <1>1, <1>2, <1>7, <1>8 DEF Lanes, Open
  <2> QED BY <2>1, Zenon DEF SlotsReturned, Lanes, Open, InRun, Unsettled
<1> QED BY <1>6, <1>9, <1>11, <1>12 DEF DelInv

\* The invariant is inductive.
LEMMA NextDel == DelInv /\ [DelNext]_delVars => DelInv'
<1> SUFFICES ASSUME DelInv, [DelNext]_delVars PROVE DelInv'
  OBVIOUS
<1>0. \A c \in Children : child[c] \in ChildRow /\ RowCoherent(child[c])
  BY DEF DelInv, DelTyped, Coherent
<1>1. ASSUME NEW c \in Children, child[c].phase \in {"running", "answered", "verifying"}
      PROVE  child[c].status = "running"
  BY <1>0, <1>1 DEF ChildRow, RowCoherent, Terminal
<1>2. ASSUME NEW c \in Children, Answer(c) PROVE DelInv'
  BY <1>1, <1>2, PhaseStep DEF Answer
<1>3. ASSUME NEW c \in Children, Reject(c) PROVE DelInv'
  <2> DEFINE s == IF child[c].aborted THEN "cancelled" ELSE "failed"
  <2>1. child[c].status = "running" /\ s \in Terminal
    BY <1>1, <1>3 DEF Reject, Terminal
  <2>2. Finish(c, s, FALSE) /\ UNCHANGED <<queue, active, draining>>
    BY <1>3 DEF Reject
  <2> QED BY <2>1, <2>2, FinishStep
<1>4. ASSUME NEW c \in Children, NEW v \in {"ok", "invalid", "over budget"}, Judge(c, v)
      PROVE  DelInv'
  <2>1. child[c].status = "running" /\ UNCHANGED <<queue, active, draining>>
    BY <1>1, <1>4 DEF Judge
  <2>2. CASE child[c].aborted
    BY <1>4, <2>1, <2>2, FinishStep DEF Judge, Aborted, Terminal
  <2>3. CASE ~child[c].aborted /\ v = "ok" /\ Verifies
    BY <1>4, <2>1, <2>3, PhaseStep DEF Judge, Aborted
  <2>4. CASE ~child[c].aborted /\ v = "ok" /\ ~Verifies
    BY <1>4, <2>1, <2>4, FinishStep DEF Judge, Aborted, Terminal
  <2>5. CASE ~child[c].aborted /\ v # "ok"
    BY <1>4, <2>1, <2>5, FinishStep DEF Judge, Aborted, Terminal
  <2> QED BY <2>2, <2>3, <2>4, <2>5, DelegationAssumption
<1>5. ASSUME NEW c \in Children, NEW ok \in BOOLEAN, Verify(c, ok) PROVE DelInv'
  <2> DEFINE s == IF ok THEN "completed" ELSE "failed"
  <2>1. /\ child[c].status = "running" /\ s \in Terminal
        /\ child[c].aborted => child[c].late
    BY <1>0, <1>1, <1>5 DEF Verify, Terminal, RowCoherent
  <2>2. Finish(c, s, ok) /\ UNCHANGED <<queue, active, draining>>
    BY <1>5 DEF Verify
  <2> QED BY <2>1, <2>2, FinishStep
<1>6. ASSUME NEW c \in Children, Cancel(c) PROVE DelInv'
  BY <1>6, CancelStep DEF Cancel
<1>7. ASSUME NEW p \in Sessions, CancelParent(p) PROVE DelInv'
  BY <1>7, CancelStep DEF CancelParent, Below
<1>8. CASE UNCHANGED delVars
  BY <1>8 DEF delVars, DelInv, DelTyped, Coherent, RowCoherent, Queued, SlotsReturned
<1> QED BY <1>2, <1>3, <1>4, <1>5, <1>6, <1>7, <1>8, SpawnStep, DrainStep, ReleaseStep DEF DelNext

\* DelegationManager: whatever races between completion, cancellation and the
\* deadline, lanes and counts are given back exactly once, for every limit,
\* number of children and depth.
THEOREM SlotsAlwaysReturned == DelSpec => []SlotsReturned
<1>1. DelInv => SlotsReturned
  BY DEF DelInv
<1> QED BY <1>1, InitDel, NextDel, PTL DEF DelSpec

\* DelegationManager: a child cancelled before its answer was judged is never announced.
THEOREM CancelledNeverAnnounced == DelSpec => []CancelledNotAnnounced
<1>1. DelInv => CancelledNotAnnounced
  BY DEF DelInv, Coherent, RowCoherent, CancelledNotAnnounced
<1> QED BY <1>1, InitDel, NextDel, PTL DEF DelSpec

-----------------------------------------------------------------------------
(* SqliteEventBus *)

BusRows == [event : Events, cursor : Nat]
BusTasks == [kind : {"publish", "deliver"}, sub : 1..Len(Consumers), rows : Seq(BusRows), full : BOOLEAN]

BusTyped ==
  /\ outbox \in Seq(Events)
  /\ offset \in [Subs -> Nat]
  /\ retries \in [Subs -> SUBSET [cursor : Nat, attempts : Nat]]
  /\ dead \in [Subs -> SUBSET Nat]
  /\ done \in [Subs -> Seq(Nat \X Events)]
  /\ chain \in Seq(BusTasks)
  /\ tx \in [event : Events \cup {"none"}, cursor : Nat, mark : Nat]

\* The open transaction is of the first row of the running delivery, beyond the
\* offset of its consumer; what it would roll back to is in the outbox.
OpenTx ==
  tx # NoTx =>
    /\ chain # <<>> /\ Running.rows # <<>>
    /\ tx.event \in Events /\ tx.cursor > offset[Consumer] /\ tx.mark <= Len(outbox)

\* Everything a consumer has committed or given up is at or below its offset.
Passed(c) ==
  /\ \A i \in 1..Len(done[c]) : done[c][i][1] <= offset[c]
  /\ \A k \in dead[c] : k <= offset[c]

InOrder(c) ==
  /\ \A i, j \in 1..Len(done[c]) : i < j => done[c][i][1] < done[c][j][1]
  /\ \A i \in 1..Len(done[c]) : done[c][i][1] \notin dead[c]
  /\ \A k \in dead[c] : Attempts(c, k) >= MaxAttempts

BusInv == BusTyped /\ OpenTx /\ \A c \in Subs : Passed(c) /\ InOrder(c)

\* The running delivery is for a subscribed consumer.
LEMMA RunningIs ==
  ASSUME chain \in Seq(BusTasks), chain # <<>>
  PROVE  Running \in BusTasks /\ Consumer \in Subs /\ Tail(chain) \in Seq(BusTasks)
<1>1. Running \in BusTasks /\ Tail(chain) \in Seq(BusTasks)
  BY DEF Running
<1>2. Running.sub \in DOMAIN Consumers
  BY <1>1, BusAssumption DEF BusTasks
<1> QED BY <1>1, <1>2 DEF Consumer, Subs, Range

\* The chain after a delivery that goes on to the next consumer.
LEMMA NextSubTyped ==
  ASSUME chain \in Seq(BusTasks), chain # <<>>, NEW rows \in Seq(BusRows),
         NEW kind \in {"publish", "deliver"}
  PROVE  NextSub(kind, Running.sub, rows) \in Seq(BusTasks)
<1> DEFINE i == Running.sub
           t == Task(kind, i + 1, IF kind = "publish" THEN rows ELSE <<>>, TRUE)
<1>1. i \in 1..Len(Consumers) /\ Tail(chain) \in Seq(BusTasks) /\ Len(Consumers) \in Nat
  BY RunningIs, BusAssumption DEF BusTasks
<1>2. ASSUME i < Len(Consumers) PROVE t \in BusTasks
  BY <1>1, <1>2 DEF Task, BusTasks
<1> HIDE DEF i, t
<1>3. NextSub(kind, i, rows) = IF i < Len(Consumers) THEN Append(Tail(chain), t) ELSE Tail(chain)
  BY DEF NextSub, t
<1>4. NextSub(kind, i, rows) \in Seq(BusTasks)
  BY <1>1, <1>2, <1>3
<1> QED BY <1>4 DEF i

\* The chain after a row.
LEMMA RowDoneTyped ==
  ASSUME chain \in Seq(BusTasks), chain # <<>>, Running.rows # <<>>
  PROVE  RowDone \in Seq(BusTasks)
<1>1. Running \in BusTasks /\ Tail(chain) \in Seq(BusTasks)
  BY RunningIs
<1>2. Running.rows \in Seq(BusRows) /\ Running.kind \in {"publish", "deliver"}
  BY <1>1 DEF BusTasks
<1>3. NextSub("publish", Running.sub, Running.rows) \in Seq(BusTasks)
  BY <1>2, NextSubTyped
<1> DEFINE r == [Running EXCEPT !.rows = Tail(@)]
<1>4. r \in BusTasks
  <2>1. Tail(Running.rows) \in Seq(BusRows)
    BY <1>2
  <2> QED BY <1>1, <2>1 DEF BusTasks
<1> HIDE DEF r
<1>5. <<r>> \o Tail(chain) \in Seq(BusTasks)
  BY <1>1, <1>4
<1> QED BY <1>3, <1>5 DEF RowDone, r

\* What replay reads back.
LEMMA ReplayTyped ==
  ASSUME outbox \in Seq(Events), NEW k \in Nat
  PROVE  Replay(k) \in Seq(BusRows)
<1> DEFINE left  == IF Len(outbox) > k THEN Len(outbox) - k ELSE 0
           n     == IF left < BatchSize THEN left ELSE BatchSize
           batch == [i \in 1..n |-> OutboxRow(outbox[k + i], k + i)]
           S     == {r \in Range(batch) : r.event \in Stale}
<1>1. left \in Nat /\ n \in Nat /\ n <= left
  BY BusAssumption
<1>2. \A i \in 1..n : OutboxRow(outbox[k + i], k + i) \in BusRows
  <2> SUFFICES ASSUME NEW i \in 1..n PROVE OutboxRow(outbox[k + i], k + i) \in BusRows
    OBVIOUS
  <2>1. k + i \in 1..Len(outbox)
    BY <1>1
  <2>2. outbox[k + i] \in Events /\ k + i \in Nat
    BY <2>1
  <2> QED BY <2>2 DEF OutboxRow, BusRows
<1>3. batch \in Seq(BusRows)
  BY <1>1, <1>2
<1> HIDE DEF S
<1>4. Replay(k) = Without(batch, S)
  BY Zenon DEF Replay, S
<1> HIDE DEF batch
<1> QED BY <1>3, <1>4, WithoutKeeps

LEMMA InitBus == BusInit => BusInv
<1> SUFFICES ASSUME BusInit PROVE BusInv
  OBVIOUS
<1>1. BusTyped /\ OpenTx
  BY DEF BusInit, BusTyped, OpenTx, NoTx
<1>2. \A c \in Subs : Passed(c) /\ InOrder(c)
  BY DEF BusInit, Passed, InOrder
<1> QED BY <1>1, <1>2 DEF BusInv

\* The attempts on record are a number, and those of one cursor do not depend on
\* the rows of another.
LEMMA AttemptsOf ==
  ASSUME NEW c \in Subs, retries \in [Subs -> SUBSET [cursor : Nat, attempts : Nat]], NEW k \in Nat
  PROVE  Attempts(c, k) \in Nat
<1> DEFINE at == {r \in retries[c] : r.cursor = k}
<1>1. CASE at = {}
  BY <1>1 DEF Attempts
<1>2. CASE at # {}
  <2>1. (CHOOSE r \in at : TRUE) \in at
    BY <1>2
  <2> QED BY <1>2, <2>1 DEF Attempts
<1> QED BY <1>1, <1>2

\* The order of a consumer's effects while its tables stay as they are.
LEMMA SameTables ==
  ASSUME NEW c \in Subs, Passed(c), InOrder(c),
         UNCHANGED <<offset[c], retries[c], dead[c], done[c]>>
  PROVE  (Passed(c) /\ InOrder(c))'
<1>1. Passed(c)'
  BY DEF Passed
<1>2. \A k : Attempts(c, k)' = Attempts(c, k)
  BY DEF Attempts
<1> QED BY <1>1, <1>2 DEF InOrder

\* A row that is left alone, a batch, a call: only the chain and the outbox move.
LEMMA ChainStep ==
  ASSUME BusInv, chain' \in Seq(BusTasks), outbox' \in Seq(Events), OpenTx', tx' \in
           [event : Events \cup {"none"}, cursor : Nat, mark : Nat],
         UNCHANGED <<offset, retries, dead, done>>
  PROVE  BusInv'
<1>1. BusTyped'
  BY DEF BusInv, BusTyped
<1>2. \A c \in Subs : (Passed(c) /\ InOrder(c))'
  BY SameTables DEF BusInv
<1> QED BY <1>1, <1>2 DEF BusInv, Subs

\* The rows of other cursors do not change what is on record for this one.
LEMMA OtherAttempts ==
  ASSUME NEW c \in Subs, NEW j \in Nat,
         \A r : r.cursor = j => (r \in retries'[c] <=> r \in retries[c])
  PROVE  Attempts(c, j)' = Attempts(c, j)
<1>1. {r \in retries'[c] : r.cursor = j} = {r \in retries[c] : r.cursor = j}
  OBVIOUS
<1> DEFINE At(at) == IF at = {} THEN 0 ELSE (CHOOSE r \in at : TRUE).attempts
<1>2. /\ Attempts(c, j) = At({r \in retries[c] : r.cursor = j})
      /\ Attempts(c, j)' = At({r \in retries'[c] : r.cursor = j})
  BY DEF Attempts
<1> HIDE DEF At
<1> QED BY <1>1, <1>2, Zenon

LEMMA PublishStep == ASSUME BusInv, NEW e \in Events, Publish(e) PROVE BusInv'
<1> DEFINE k == CHOOSE k \in 1..Len(outbox') : outbox'[k] = e
           t == Task("publish", 1, <<OutboxRow(e, k)>>, TRUE)
<1>0. outbox \in Seq(Events) /\ chain \in Seq(BusTasks) /\ OpenTx
      /\ tx \in [event : Events \cup {"none"}, cursor : Nat, mark : Nat]
  BY DEF BusInv, BusTyped
<1>1. /\ outbox' \in Seq(Events) /\ Len(outbox) <= Len(outbox')
      /\ \E i \in 1..Len(outbox') : outbox'[i] = e
  <2>1. CASE e \in Range(outbox)
    BY <1>0, <2>1 DEF Publish, Range
  <2>2. CASE e \notin Range(outbox)
    <3>1. outbox' = Append(outbox, e)
      BY <2>2 DEF Publish
    <3>2. outbox'[Len(outbox) + 1] = e /\ Len(outbox') = Len(outbox) + 1
      BY <1>0, <3>1
    <3> QED BY <1>0, <3>1, <3>2
  <2> QED BY <2>1, <2>2
<1>2. k \in 1..Len(outbox')
  BY <1>1
<1>3. chain' = Append(chain, t) /\ UNCHANGED <<offset, retries, dead, done, tx>>
  BY DEF Publish
<1>4. t \in BusTasks
  <2> HIDE DEF k
  <2>1. OutboxRow(e, k) \in BusRows
    BY <1>1, <1>2 DEF OutboxRow, BusRows
  <2>2. Len(Consumers) \in Nat /\ Len(Consumers) > 0
    BY BusAssumption
  <2> QED BY <2>1, <2>2 DEF Task, BusTasks
<1> HIDE DEF k, t
<1>5. chain' \in Seq(BusTasks)
  BY <1>0, <1>3, <1>4
<1>6. OpenTx'
  <2>1. chain # <<>> => Head(chain') = Head(chain) /\ chain' # <<>>
    BY <1>0, <1>3, <1>4
  <2>2. Len(outbox) \in Nat /\ Len(outbox') \in Nat
    BY <1>0, <1>1
  <2> QED BY <1>0, <1>1, <1>3, <2>1, <2>2 DEF OpenTx, Running, Consumer
<1> QED BY <1>0, <1>1, <1>3, <1>5, <1>6, ChainStep

LEMMA DeliverStep == ASSUME BusInv, Deliver PROVE BusInv'
<1> DEFINE t == Task("deliver", 1, <<>>, TRUE)
<1>0. outbox \in Seq(Events) /\ chain \in Seq(BusTasks) /\ OpenTx
      /\ tx \in [event : Events \cup {"none"}, cursor : Nat, mark : Nat]
  BY DEF BusInv, BusTyped
<1>1. t \in BusTasks
  <2>1. Len(Consumers) \in Nat /\ Len(Consumers) > 0
    BY BusAssumption
  <2> QED BY <2>1 DEF Task, BusTasks
<1>2. chain' = Append(chain, t) /\ UNCHANGED <<outbox, offset, retries, dead, done, tx>>
  BY DEF Deliver
<1> HIDE DEF t
<1>3. chain' \in Seq(BusTasks)
  BY <1>0, <1>1, <1>2
<1>4. OpenTx'
  <2>1. chain # <<>> => Head(chain') = Head(chain) /\ chain' # <<>>
    BY <1>0, <1>1, <1>2
  <2> QED BY <1>0, <1>2, <2>1 DEF OpenTx, Running, Consumer
<1> QED BY <1>0, <1>2, <1>3, <1>4, ChainStep

LEMMA BatchStep == ASSUME BusInv, Batch PROVE BusInv'
<1> DEFINE rows == Replay(offset[Consumer])
           t == [Running EXCEPT !.rows = rows, !.full = Len(rows) = BatchSize]
<1>0. /\ outbox \in Seq(Events) /\ chain \in Seq(BusTasks) /\ chain # <<>>
      /\ offset \in [Subs -> Nat] /\ tx = NoTx /\ UNCHANGED <<outbox, offset, retries, dead, done, tx>>
      /\ tx \in [event : Events \cup {"none"}, cursor : Nat, mark : Nat]
  BY DEF BusInv, BusTyped, Batch
<1>1. Running \in BusTasks /\ Consumer \in Subs /\ Tail(chain) \in Seq(BusTasks)
  BY <1>0, RunningIs
<1>2. rows \in Seq(BusRows)
  BY <1>0, <1>1, ReplayTyped
<1> HIDE DEF rows
<1>3. t \in BusTasks
  BY <1>1, <1>2 DEF BusTasks
<1>4. NextSub("deliver", Running.sub, <<>>) \in Seq(BusTasks)
  <2>1. <<>> \in Seq(BusRows) /\ "deliver" \in {"publish", "deliver"}
    OBVIOUS
  <2> QED BY <1>0, <2>1, NextSubTyped, Zenon
<1>5. \/ chain' = <<t>> \o Tail(chain)
      \/ chain' = NextSub("deliver", Running.sub, <<>>)
  BY Zenon DEF Batch, rows
<1> HIDE DEF t
<1>6. chain' \in Seq(BusTasks)
  BY <1>1, <1>3, <1>4, <1>5
<1>7. OpenTx'
  BY <1>0 DEF OpenTx, NoTx
<1> QED BY <1>0, <1>6, <1>7, ChainStep

LEMMA SkipStep == ASSUME BusInv, Skip PROVE BusInv'
<1>0. /\ outbox \in Seq(Events) /\ chain \in Seq(BusTasks) /\ chain # <<>> /\ Running.rows # <<>>
      /\ tx = NoTx /\ chain' = RowDone /\ UNCHANGED <<outbox, offset, retries, dead, done, tx>>
      /\ tx \in [event : Events \cup {"none"}, cursor : Nat, mark : Nat]
  BY DEF BusInv, BusTyped, Skip
<1>1. chain' \in Seq(BusTasks)
  BY <1>0, RowDoneTyped
<1>2. OpenTx'
  BY <1>0 DEF OpenTx, NoTx
<1> QED BY <1>0, <1>1, <1>2, ChainStep

LEMMA BeginStep == ASSUME BusInv, Begin PROVE BusInv'
<1> DEFINE r == Head(Running.rows)
<1>0. /\ outbox \in Seq(Events) /\ chain \in Seq(BusTasks) /\ chain # <<>> /\ Running.rows # <<>>
      /\ offset \in [Subs -> Nat] /\ ~Behind(r.cursor)
      /\ tx' = [event |-> r.event, cursor |-> r.cursor, mark |-> Len(outbox)]
      /\ UNCHANGED <<outbox, offset, retries, dead, done, chain>>
  BY DEF BusInv, BusTyped, Begin
<1>1. Running \in BusTasks /\ Consumer \in Subs
  BY <1>0, RunningIs
<1>2. r \in BusRows
  <2>1. Running.rows \in Seq(BusRows)
    BY <1>1 DEF BusTasks
  <2> QED BY <1>0, <2>1
<1>3. r.event \in Events /\ r.cursor \in Nat /\ Len(outbox) \in Nat
  BY <1>0, <1>2 DEF BusRows
<1> HIDE DEF r
<1>4. tx' \in [event : Events \cup {"none"}, cursor : Nat, mark : Nat]
  BY <1>0, <1>3
<1>5. r.cursor > offset[Consumer]
  BY <1>0, <1>1, <1>3 DEF Behind
<1>6. OpenTx'
  <2>1. Running' = Running /\ Consumer' = Consumer
    BY <1>0 DEF Running, Consumer
  <2> QED BY <1>0, <1>3, <1>5, <2>1 DEF OpenTx
<1> QED BY <1>0, <1>4, <1>6, ChainStep

LEMMA BusCrashStep == ASSUME BusInv, BusCrash PROVE BusInv'
<1>0. /\ outbox \in Seq(Events) /\ OpenTx /\ chain' = <<>> /\ tx' = NoTx
      /\ outbox' = (IF tx = NoTx THEN outbox ELSE SubSeq(outbox, 1, tx.mark))
      /\ UNCHANGED <<offset, retries, dead, done>>
      /\ tx \in [event : Events \cup {"none"}, cursor : Nat, mark : Nat]
  BY DEF BusInv, BusTyped, BusCrash
<1>1. outbox' \in Seq(Events)
  BY <1>0 DEF OpenTx
<1>2. OpenTx' /\ chain' \in Seq(BusTasks)
      /\ tx' \in [event : Events \cup {"none"}, cursor : Nat, mark : Nat]
  BY <1>0 DEF OpenTx, NoTx
<1> QED BY <1>0, <1>1, <1>2, ChainStep

\* What a handler's outcome finds: its own consumer, its cursor beyond the offset.
LEMMA TxIs ==
  ASSUME BusInv, tx # NoTx
  PROVE  /\ Consumer \in Subs /\ tx.event \in Events /\ tx.cursor \in Nat /\ tx.mark \in Nat
         /\ tx.cursor > offset[Consumer] /\ tx.mark <= Len(outbox)
         /\ RowDone \in Seq(BusTasks) /\ Tail(chain) \in Seq(BusTasks)
         /\ NoTx \in [event : Events \cup {"none"}, cursor : Nat, mark : Nat]
         /\ \A k \in dead[Consumer] : k \in Nat /\ k # tx.cursor
         /\ \A i \in 1..Len(done[Consumer]) : /\ done[Consumer][i][1] \in Nat
                                              /\ done[Consumer][i][1] < tx.cursor
<1>1. /\ chain \in Seq(BusTasks) /\ chain # <<>> /\ Running.rows # <<>>
      /\ tx.event \in Events /\ tx.cursor > offset[Consumer] /\ tx.mark <= Len(outbox)
      /\ tx.cursor \in Nat /\ tx.mark \in Nat
  BY DEF BusInv, BusTyped, OpenTx
<1>2. Consumer \in Subs /\ Tail(chain) \in Seq(BusTasks) /\ RowDone \in Seq(BusTasks)
  BY <1>1, RunningIs, RowDoneTyped
<1>3. /\ offset[Consumer] \in Nat /\ dead[Consumer] \in SUBSET Nat
      /\ done[Consumer] \in Seq(Nat \X Events) /\ Passed(Consumer)
  BY <1>2 DEF BusInv, BusTyped
<1>4. \A i \in 1..Len(done[Consumer]) : done[Consumer][i] \in Nat \X Events
  BY <1>3
<1> HIDE DEF Consumer
<1> QED BY <1>1, <1>2, <1>3, <1>4 DEF Passed, NoTx

LEMMA CommitStep == ASSUME BusInv, Commit PROVE BusInv'
<1> DEFINE d == Consumer
           new == <<tx.cursor, tx.event>>
<1>0. BusTyped /\ \A c \in Subs : Passed(c) /\ InOrder(c)
  BY DEF BusInv
<1>1. /\ d \in Subs /\ tx.event \in Events /\ tx.cursor \in Nat /\ tx.cursor > offset[d]
      /\ chain' \in Seq(BusTasks) /\ tx' \in [event : Events \cup {"none"}, cursor : Nat, mark : Nat]
      /\ \A k \in dead[d] : k \in Nat /\ k # tx.cursor
      /\ \A i \in 1..Len(done[d]) : done[d][i][1] \in Nat /\ done[d][i][1] < tx.cursor
  BY TxIs DEF Commit
<1>2. /\ done' = done \/ done' = [done EXCEPT ![d] = Append(done[d], new)]
      /\ offset' = [offset EXCEPT ![d] = tx.cursor]
      /\ retries' = [retries EXCEPT ![d] = Others(d, tx.cursor)]
      /\ tx' = NoTx /\ UNCHANGED <<outbox, dead>>
  BY DEF Commit
<1> HIDE DEF d
<1>3. BusTyped'
  <2>1. new \in Nat \X Events
    BY <1>1
  <2> HIDE DEF new
  <2>2. done' \in [Subs -> Seq(Nat \X Events)]
    <3>1. d \in Subs /\ done \in [Subs -> Seq(Nat \X Events)] /\ done[d] \in Seq(Nat \X Events)
      BY <1>0, <1>1 DEF BusTyped
    <3>2. Append(done[d], new) \in Seq(Nat \X Events)
      BY <2>1, <3>1
    <3>3. done' = done \/ done' = [done EXCEPT ![d] = Append(done[d], new)]
      BY <1>2
    <3> QED BY <3>1, <3>2, <3>3
  <2>3. retries' \in [Subs -> SUBSET [cursor : Nat, attempts : Nat]]
    BY <1>0, <1>1, <1>2 DEF BusTyped, Others
  <2> QED BY <1>0, <1>1, <1>2, <2>2, <2>3 DEF BusTyped
<1>4. OpenTx'
  BY <1>2 DEF OpenTx
<1>5. ASSUME NEW c \in Subs, c # d PROVE (Passed(c) /\ InOrder(c))'
  <2>1. UNCHANGED <<offset[c], retries[c], dead[c], done[c]>>
    BY <1>0, <1>1, <1>2, <1>5 DEF BusTyped
  <2> QED BY <1>0, <1>5, <2>1, SameTables
<1>6. ASSUME NEW c \in Subs, c = d PROVE (Passed(c) /\ InOrder(c))'
  <2>1. /\ dead'[c] = dead[c] /\ offset'[c] = tx.cursor /\ offset[c] \in Nat
        /\ Passed(c) /\ InOrder(c) /\ done[c] \in Seq(Nat \X Events)
        /\ retries'[c] = Others(c, tx.cursor)
        /\ done'[c] = done[c] \/ done'[c] = Append(done[c], new)
    BY <1>0, <1>1, <1>2, <1>6 DEF BusTyped
  <2>0. /\ \A k \in dead[c] : k \in Nat /\ k # tx.cursor
        /\ \A i \in 1..Len(done[c]) : done[c][i][1] \in Nat /\ done[c][i][1] < tx.cursor
    BY <1>1, <1>6
  <2>2. \A k \in dead[c] : Attempts(c, k)' = Attempts(c, k)
    <3> SUFFICES ASSUME NEW k \in dead[c] PROVE Attempts(c, k)' = Attempts(c, k)
      OBVIOUS
    <3>1. \A r : r.cursor = k => (r \in retries'[c] <=> r \in retries[c])
      BY <1>1, <2>0, <2>1 DEF Others
    <3> QED BY <2>0, <3>1, OtherAttempts
  <2>3. \A i \in 1..Len(done[c]) : done[c][i][1] < tx.cursor /\ done[c][i][1] \notin dead[c]
    BY <2>0, <2>1 DEF InOrder
  <2>4. \A i, j \in 1..Len(done[c]) : i < j => done[c][i][1] < done[c][j][1]
    BY <2>1 DEF InOrder
  <2>5. /\ tx.cursor \in Nat /\ tx.cursor \notin dead[c] /\ Len(done[c]) \in Nat
        /\ \A k \in dead[c] : k <= tx.cursor
    BY <1>1, <1>6, <2>0, <2>1 DEF Passed
  <2>6. CASE done'[c] = done[c]
    <3>1. \A i \in 1..Len(done'[c]) : done'[c][i][1] <= tx.cursor
      BY <2>0, <2>5, <2>6
    <3>2. \A k \in dead'[c] : k <= tx.cursor
      BY <2>1, <2>5
    <3>3. offset'[c] = tx.cursor
      BY <2>1
    <3>4. Passed(c)'
      BY <3>1, <3>2, <3>3 DEF Passed
    <3> QED BY <2>1, <2>2, <2>6, <3>4 DEF InOrder
  <2>7. CASE done'[c] = Append(done[c], new)
    <3>1. /\ Len(done'[c]) = Len(done[c]) + 1
          /\ \A i \in 1..Len(done[c]) : done'[c][i][1] = done[c][i][1]
          /\ done'[c][Len(done[c]) + 1][1] = tx.cursor
      <4>1. new[1] = tx.cursor
        OBVIOUS
      <4> HIDE DEF new
      <4>2. /\ Len(done'[c]) = Len(done[c]) + 1
            /\ \A i \in 1..Len(done[c]) : done'[c][i] = done[c][i]
            /\ done'[c][Len(done[c]) + 1] = new
        BY <2>1, <2>7
      <4> QED BY <4>1, <4>2
    <3>2. \A i \in 1..Len(done'[c]) : i \in 1..Len(done[c]) \/ i = Len(done[c]) + 1
      BY <2>5, <3>1
    <3>3. \A i \in 1..Len(done'[c]) : done'[c][i][1] <= tx.cursor /\ done'[c][i][1] \notin dead[c]
      <4> SUFFICES ASSUME NEW i \in 1..Len(done'[c])
                   PROVE  done'[c][i][1] <= tx.cursor /\ done'[c][i][1] \notin dead[c]
        OBVIOUS
      <4>1. CASE i \in 1..Len(done[c])
        <5>1. done'[c][i][1] = done[c][i][1]
          BY <3>1, <4>1
        <5>2. done[c][i][1] \in Nat /\ done[c][i][1] < tx.cursor /\ done[c][i][1] \notin dead[c]
          BY <2>0, <2>3, <4>1
        <5> QED BY <2>5, <5>1, <5>2
      <4>2. CASE i = Len(done[c]) + 1
        BY <2>5, <3>1, <4>2
      <4> QED BY <3>2, <4>1, <4>2
    <3>4. \A i, j \in 1..Len(done'[c]) : i < j => done'[c][i][1] < done'[c][j][1]
      BY <2>3, <2>4, <2>5, <3>1, <3>2
    <3>5. Passed(c)'
      BY <2>0, <2>1, <2>5, <3>3 DEF Passed
    <3> QED BY <2>1, <2>2, <3>3, <3>4, <3>5 DEF InOrder
  <2> QED BY <2>1, <2>6, <2>7
<1>7. \A c \in Subs : (Passed(c) /\ InOrder(c))'
  BY <1>5, <1>6
<1> QED BY <1>3, <1>4, <1>7 DEF BusInv, Subs

LEMMA HandlerRejectsStep ==
  ASSUME BusInv, HandlerRejects \/ CrashAfterCount
  PROVE  BusInv'
<1> DEFINE d == Consumer
           k == tx.cursor
           n == Counted(d, k)
           row == [cursor |-> k, attempts |-> n]
<1>0. BusTyped /\ \A c \in Subs : Passed(c) /\ InOrder(c)
  BY DEF BusInv
<1>1. /\ d \in Subs /\ k \in Nat /\ k > offset[d] /\ tx.mark \in Nat /\ tx.mark <= Len(outbox)
      /\ chain' \in Seq(BusTasks) /\ tx' \in [event : Events \cup {"none"}, cursor : Nat, mark : Nat]
      /\ \A j \in dead[d] : j \in Nat /\ j # k
      /\ \A i \in 1..Len(done[d]) : done[d][i][1] \in Nat /\ done[d][i][1] < k
  <2>1. <<>> \in Seq(BusTasks)
    OBVIOUS
  <2>2. tx # NoTx /\ chain' \in {<<>>, RowDone, Tail(chain)} /\ tx' = NoTx
    BY DEF HandlerRejects, CrashAfterCount
  <2> QED BY <2>1, <2>2, TxIs
<1>2. /\ outbox' = SubSeq(outbox, 1, tx.mark)
      /\ retries' = [retries EXCEPT ![d] = Others(d, k) \cup {row}]
      /\ \/ /\ n >= MaxAttempts
            /\ dead' = [dead EXCEPT ![d] = dead[d] \cup {k}]
            /\ offset' = [offset EXCEPT ![d] = k]
         \/ UNCHANGED <<dead, offset>>
      /\ tx' = NoTx /\ done' = done
  BY DEF HandlerRejects, CrashAfterCount, GivesUp
<1>3. n \in Nat /\ row \in [cursor : Nat, attempts : Nat]
  <2>1. d \in Subs /\ k \in Nat /\ retries \in [Subs -> SUBSET [cursor : Nat, attempts : Nat]]
    BY <1>0, <1>1 DEF BusTyped
  <2> HIDE DEF d, k
  <2>2. Attempts(d, k) \in Nat
    BY <2>1, AttemptsOf
  <2> QED BY <2>1, <2>2, BusAssumption DEF Counted
<1>4. row.cursor = k /\ row.attempts = n
  OBVIOUS
<1> HIDE DEF d, k, n, row
<1>5. BusTyped'
  <2>1. retries' \in [Subs -> SUBSET [cursor : Nat, attempts : Nat]]
    BY <1>0, <1>1, <1>2, <1>3 DEF BusTyped, Others
  <2>2. outbox' \in Seq(Events)
    BY <1>0, <1>1, <1>2 DEF BusTyped
  <2>3. dead' \in [Subs -> SUBSET Nat] /\ offset' \in [Subs -> Nat]
    <3>1. /\ d \in Subs /\ k \in Nat /\ dead \in [Subs -> SUBSET Nat] /\ offset \in [Subs -> Nat]
          /\ dead[d] \cup {k} \in SUBSET Nat
      BY <1>0, <1>1 DEF BusTyped
    <3>2. dead' = dead \/ dead' = [dead EXCEPT ![d] = dead[d] \cup {k}]
      BY <1>2
    <3>3. offset' = offset \/ offset' = [offset EXCEPT ![d] = k]
      BY <1>2
    <3> QED BY <3>1, <3>2, <3>3
  <2> QED BY <1>0, <1>1, <1>2, <2>1, <2>2, <2>3 DEF BusTyped
<1>6. OpenTx'
  BY <1>2 DEF OpenTx
<1>7. ASSUME NEW c \in Subs, c # d PROVE (Passed(c) /\ InOrder(c))'
  <2>1. UNCHANGED <<offset[c], retries[c], dead[c], done[c]>>
    BY <1>0, <1>1, <1>2, <1>7 DEF BusTyped
  <2> QED BY <1>0, <1>7, <2>1, SameTables
<1>8. ASSUME NEW c \in Subs, c = d, NEW l \in Nat, l = k PROVE (Passed(c) /\ InOrder(c))'
  <2>1. /\ done'[c] = done[c] /\ offset[c] \in Nat /\ Passed(c) /\ InOrder(c)
        /\ retries'[c] = Others(c, l) \cup {row} /\ dead[c] \in SUBSET Nat /\ l > offset[c]
        /\ \/ n >= MaxAttempts /\ dead'[c] = dead[c] \cup {l} /\ offset'[c] = l
           \/ dead'[c] = dead[c] /\ offset'[c] = offset[c]
    BY <1>0, <1>1, <1>2, <1>8 DEF BusTyped
  <2>0. /\ \A j \in dead[c] : j \in Nat /\ j # l
        /\ \A i \in 1..Len(done[c]) : done[c][i][1] \in Nat /\ done[c][i][1] < l
    BY <1>1, <1>8
  <2>2. \A j \in dead[c] : Attempts(c, j)' = Attempts(c, j)
    <3> SUFFICES ASSUME NEW j \in dead[c] PROVE Attempts(c, j)' = Attempts(c, j)
      OBVIOUS
    <3>1. \A r : r.cursor = j => (r \in retries'[c] <=> r \in retries[c])
      BY <1>4, <1>8, <2>0, <2>1 DEF Others
    <3> QED BY <2>0, <3>1, OtherAttempts
  <2>3. Attempts(c, l)' = n
    <3>1. {r \in retries'[c] : r.cursor = l} = {row}
      BY <1>4, <1>8, <2>1 DEF Others
    <3>2. (CHOOSE r \in {row} : TRUE) = row
      OBVIOUS
    <3> QED BY <1>4, <3>1, <3>2 DEF Attempts
  <2>4. Passed(c)'
    BY <2>0, <2>1 DEF Passed
  <2> QED BY <2>0, <2>1, <2>2, <2>3, <2>4 DEF InOrder
<1>9. \A c \in Subs : (Passed(c) /\ InOrder(c))'
  BY <1>1, <1>7, <1>8
<1> QED BY <1>5, <1>6, <1>9 DEF BusInv, Subs

\* The invariant is inductive.
LEMMA NextBus == BusInv /\ [BusNext]_busVars => BusInv'
<1> SUFFICES ASSUME BusInv, [BusNext]_busVars PROVE BusInv'
  OBVIOUS
<1>1. CASE UNCHANGED busVars
  <2>1. UNCHANGED <<offset, retries, dead, done>> /\ OpenTx' /\ BusTyped'
    BY <1>1 DEF BusInv, busVars, BusTyped, OpenTx, Running, Consumer
  <2> QED BY <2>1, ChainStep DEF BusTyped
<1> QED BY <1>1, PublishStep, DeliverStep, BatchStep, SkipStep, BeginStep, CommitStep,
          HandlerRejectsStep, BusCrashStep DEF BusNext

\* A consumer's committed effects are in outbox order, each cursor at most once and
\* never one that was dead-lettered, and a dead letter had all its attempts: for any
\* events, consumers, filters, batch size and number of waiting deliveries.
THEOREM OnceInOrderAlways == BusSpec => []OnceInOrder
<1>1. BusInv => OnceInOrder
  <2> SUFFICES ASSUME BusInv, NEW c \in Subs
               PROVE  /\ \A i, j \in DOMAIN done[c] : i < j => done[c][i][1] < done[c][j][1]
                      /\ \A i \in DOMAIN done[c] : done[c][i][1] \notin dead[c]
                      /\ \A k \in dead[c] : Attempts(c, k) >= MaxAttempts
    BY DEF OnceInOrder
  <2>1. DOMAIN done[c] = 1..Len(done[c])
    BY DEF BusInv, BusTyped
  <2> QED BY <2>1 DEF BusInv, InOrder
<1> QED BY <1>1, InitBus, NextBus, PTL DEF BusSpec

-----------------------------------------------------------------------------
(* MarketTriggerEngine *)

Times == Nat \cup {Never}
Firings == [key : Keys, at : Nat]

TriggerTyped ==
  /\ debounce \in Nat /\ clock \in Nat
  /\ seenIds \in SUBSET DOMAIN MarketEvents
  /\ pending \in [Keys -> Times] /\ lastFired \in [Keys -> Times]
  /\ due \in Seq(Keys) /\ emitted \in Seq(Firings)

\* trigger_fired holds the last firing of each key.
Latest(fired, em, now) ==
  \A i \in 1..Len(em) : /\ fired[em[i].key] # Never
                        /\ em[i].at <= fired[em[i].key]
                        /\ fired[em[i].key] <= now

Apart(em) ==
  \A i, j \in 1..Len(em) : i < j /\ em[i].key = em[j].key => em[j].at - em[i].at >= Cooldown

\* A key flush() is about to emit is listed once and is not pending again.
DueOnce(p, d) ==
  /\ \A i, j \in 1..Len(d) : d[i] = d[j] => i = j
  /\ \A i \in 1..Len(d) : p[d[i]] = Never

FiredAt(em, k) == {i \in 1..Len(em) : em[i].key = k}
SeenFor(S, k) == {e \in S : MarketEvents[e].key = k /\ Triggers(e)}
Waits(p, d, k) == IF p[k] # Never \/ (\E i \in 1..Len(d) : d[i] = k) THEN 1 ELSE 0

\* Each firing of a key, past or still to come, has an event of its own behind it.
Backed(k) ==
  Cardinality(FiredAt(emitted, k)) + Waits(pending, due, k) <= Cardinality(SeenFor(seenIds, k))

TriggerInv ==
  /\ TriggerTyped /\ Latest(lastFired, emitted, clock) /\ Apart(emitted) /\ DueOnce(pending, due)
  /\ \A k \in Keys : Backed(k)

LEMMA KeysFinite == IsFiniteSet(Keys)
<1> DEFINE D == DOMAIN MarketEvents
           f == [e \in D |-> MarketEvents[e].key]
<1>1. f \in Surjection(D, Keys)
  BY DEF Surjection, Keys
<1>2. IsFiniteSet(D)
  BY TriggerAssumption
<1> HIDE DEF D, f
<1> QED BY <1>1, <1>2, FS_Surjection

\* The counts are numbers.
LEMMA CountsAre ==
  ASSUME NEW em \in Seq(Firings), NEW S \in SUBSET DOMAIN MarketEvents, NEW k
  PROVE  /\ IsFiniteSet(FiredAt(em, k)) /\ Cardinality(FiredAt(em, k)) \in Nat
         /\ IsFiniteSet(SeenFor(S, k)) /\ Cardinality(SeenFor(S, k)) \in Nat
<1>1. IsFiniteSet(1..Len(em))
  BY FS_Interval
<1>2. FiredAt(em, k) \in SUBSET (1..Len(em)) /\ SeenFor(S, k) \in SUBSET DOMAIN MarketEvents
  BY DEF FiredAt, SeenFor
<1>3. IsFiniteSet(FiredAt(em, k)) /\ IsFiniteSet(SeenFor(S, k))
  BY <1>1, <1>2, FS_Subset, TriggerAssumption
<1> QED BY <1>3, FS_CardinalityType

\* One more event can only help, and helps the key it triggers.
LEMMA OneMoreSeen ==
  ASSUME NEW S \in SUBSET DOMAIN MarketEvents, NEW e \in DOMAIN MarketEvents, e \notin S, NEW k
  PROVE  /\ Cardinality(SeenFor(S \cup {e}, k)) >= Cardinality(SeenFor(S, k))
         /\ Triggers(e) /\ MarketEvents[e].key = k =>
              Cardinality(SeenFor(S \cup {e}, k)) = Cardinality(SeenFor(S, k)) + 1
<1> DEFINE A == SeenFor(S, k)
           B == SeenFor(S \cup {e}, k)
<1>1. IsFiniteSet(A) /\ Cardinality(A) \in Nat
  BY CountsAre, <<>> \in Seq(Firings)
<1>2. e \notin A
  BY DEF SeenFor
<1>3. CASE Triggers(e) /\ MarketEvents[e].key = k
  <2>1. B = A \cup {e}
    BY <1>3 DEF SeenFor
  <2>2. Cardinality(A \cup {e}) = Cardinality(A) + 1
    BY <1>1, <1>2, FS_AddElement
  <2>3. Cardinality(B) = Cardinality(A \cup {e})
    BY <2>1, Zenon
  <2> HIDE DEF A, B
  <2>4. Cardinality(B) = Cardinality(A) + 1 /\ Cardinality(B) >= Cardinality(A)
    BY <1>1, <2>2, <2>3
  <2> QED BY <2>4 DEF A, B
<1>4. CASE ~(Triggers(e) /\ MarketEvents[e].key = k)
  <2>1. B = A
    BY <1>4 DEF SeenFor
  <2>2. Cardinality(B) = Cardinality(A)
    BY <2>1, Zenon
  <2> HIDE DEF A, B
  <2>3. Cardinality(B) >= Cardinality(A)
    BY <1>1, <2>2
  <2> QED BY <1>4, <2>3 DEF A, B
<1> QED BY <1>3, <1>4

\* What emit does for key k: the record of firings stays right, and only the count
\* of k goes up, by one at most.
LEMMA EmitStep ==
  ASSUME TriggerInv, NEW k \in Keys, Emit(k)
  PROVE  /\ emitted' \in Seq(Firings) /\ lastFired' \in [Keys -> Times]
         /\ Latest(lastFired', emitted', clock) /\ Apart(emitted')
         /\ Cardinality(FiredAt(emitted', k)) <= Cardinality(FiredAt(emitted, k)) + 1
         /\ \A j \in Keys \ {k} : Cardinality(FiredAt(emitted', j)) = Cardinality(FiredAt(emitted, j))
<1> DEFINE new == [key |-> k, at |-> clock]
<1>0. /\ emitted \in Seq(Firings) /\ lastFired \in [Keys -> Times] /\ clock \in Nat /\ Cooldown \in Nat
      /\ Latest(lastFired, emitted, clock) /\ Apart(emitted)
      /\ Len(emitted) \in Nat /\ \A i \in 1..Len(emitted) : emitted[i] \in Firings
  BY TriggerAssumption DEF TriggerInv, TriggerTyped
<1>1. CASE ~Cold(k)
  <2>1. UNCHANGED <<lastFired, emitted>>
    BY <1>1 DEF Emit
  <2>2. \A j : Cardinality(FiredAt(emitted, j)) \in Nat
    BY <1>0, CountsAre, {} \in SUBSET DOMAIN MarketEvents
  <2>3. Cardinality(FiredAt(emitted, k)) <= Cardinality(FiredAt(emitted, k)) + 1
    BY <2>2
  <2> QED BY <1>0, <2>1, <2>3
<1>2. CASE Cold(k)
  <2>1. lastFired' = [lastFired EXCEPT ![k] = clock] /\ emitted' = Append(emitted, new)
    BY <1>2 DEF Emit
  <2>2. new \in Firings /\ new.key = k /\ new.at = clock
    BY <1>0 DEF Firings
  <2> HIDE DEF new
  <2>3. /\ Len(emitted') = Len(emitted) + 1 /\ emitted' \in Seq(Firings)
        /\ \A i \in 1..Len(emitted) : emitted'[i] = emitted[i]
        /\ emitted'[Len(emitted) + 1] = new
    BY <1>0, <2>1, <2>2
  <2>4. \A i \in 1..Len(emitted') : i \in 1..Len(emitted) \/ i = Len(emitted) + 1
    BY <1>0, <2>3
  <2>5. lastFired' \in [Keys -> Times]
    BY <1>0, <2>1 DEF Times
  <2>6. lastFired'[k] = clock /\ \A j \in Keys \ {k} : lastFired'[j] = lastFired[j]
    BY <1>0, <2>1
  <2>7. \A i \in 1..Len(emitted) : /\ emitted[i].key \in Keys /\ emitted[i].at \in Nat
                                   /\ lastFired[emitted[i].key] \in Nat
                                   /\ emitted[i].at <= lastFired[emitted[i].key]
                                   /\ lastFired[emitted[i].key] <= clock
    BY <1>0 DEF Firings, Latest, Times
  <2>8. Latest(lastFired', emitted', clock)
    <3> SUFFICES ASSUME NEW i \in 1..Len(emitted')
                 PROVE  /\ lastFired'[emitted'[i].key] # Never
                        /\ emitted'[i].at <= lastFired'[emitted'[i].key]
                        /\ lastFired'[emitted'[i].key] <= clock
      BY DEF Latest
    <3>1. CASE i = Len(emitted) + 1
      BY <1>0, <2>2, <2>3, <2>6, <3>1 DEF Never
    <3>2. CASE i \in 1..Len(emitted) /\ emitted[i].key = k
      BY <1>0, <2>3, <2>6, <2>7, <3>2 DEF Never
    <3>3. CASE i \in 1..Len(emitted) /\ emitted[i].key # k
      BY <2>3, <2>6, <2>7, <3>3 DEF Never
    <3> QED BY <2>4, <3>1, <3>2, <3>3
  <2>9. Apart(emitted')
    <3> SUFFICES ASSUME NEW i \in 1..Len(emitted'), NEW j \in 1..Len(emitted'), i < j,
                        emitted'[i].key = emitted'[j].key
                 PROVE  emitted'[j].at - emitted'[i].at >= Cooldown
      BY DEF Apart
    <3>1. i \in 1..Len(emitted)
      BY <1>0, <2>3
    <3>2. CASE j \in 1..Len(emitted)
      BY <1>0, <2>3, <3>1, <3>2 DEF Apart
    <3>3. CASE j = Len(emitted) + 1
      <4>1. emitted[i].key = k /\ emitted'[i].at = emitted[i].at /\ emitted'[j].at = clock
        BY <2>2, <2>3, <3>1, <3>3
      <4>2. lastFired[k] \in Nat /\ emitted[i].at <= lastFired[k] /\ emitted[i].at \in Nat
        BY <2>7, <3>1, <4>1
      <4>3. clock - lastFired[k] >= Cooldown
        BY <1>2, <4>2 DEF Cold, Never
      <4> QED BY <1>0, <4>1, <4>2, <4>3
    <3> QED BY <2>4, <3>2, <3>3
  <2>10. Cardinality(FiredAt(emitted', k)) <= Cardinality(FiredAt(emitted, k)) + 1
    <3>1. FiredAt(emitted', k) = FiredAt(emitted, k) \cup {Len(emitted) + 1}
      BY <1>0, <2>2, <2>3, <2>4 DEF FiredAt
    <3>2. IsFiniteSet(FiredAt(emitted, k)) /\ Cardinality(FiredAt(emitted, k)) \in Nat
      BY <1>0, CountsAre, {} \in SUBSET DOMAIN MarketEvents
    <3>3. Len(emitted) + 1 \notin FiredAt(emitted, k)
      BY <1>0 DEF FiredAt
    <3>4. Cardinality(FiredAt(emitted, k) \cup {Len(emitted) + 1}) = Cardinality(FiredAt(emitted, k)) + 1
      BY <3>2, <3>3, FS_AddElement
    <3>5. Cardinality(FiredAt(emitted', k)) = Cardinality(FiredAt(emitted, k) \cup {Len(emitted) + 1})
      BY <3>1, Zenon
    <3> QED BY <3>2, <3>4, <3>5
  <2>11. ASSUME NEW j \in Keys \ {k}
         PROVE  Cardinality(FiredAt(emitted', j)) = Cardinality(FiredAt(emitted, j))
    <3>1. FiredAt(emitted', j) = FiredAt(emitted, j)
      BY <1>0, <2>2, <2>3, <2>4 DEF FiredAt
    <3> QED BY <3>1, Zenon
  <2> QED BY <2>3, <2>5, <2>8, <2>9, <2>10, <2>11
<1> QED BY <1>1, <1>2

\* flush reads and deletes: a key is listed once, and waits only if it did before.
LEMMA FlushRowsStep ==
  ASSUME TriggerTyped, NEW p \in [Keys -> Times], FlushRows(p)
  PROVE  /\ due' \in Seq(Keys) /\ pending' \in [Keys -> Times] /\ DueOnce(pending', due')
         /\ \A k \in Keys : Waits(pending', due', k) <= Waits(p, <<>>, k)
<1> DEFINE ripe == RipeKeys(p)
           n == Cardinality(ripe)
<1>1. /\ due' \in [1..n -> ripe] /\ \A i, j \in 1..n : due'[i] = due'[j] => i = j
      /\ pending' = [k \in Keys |-> IF k \in ripe THEN Never ELSE p[k]]
  BY DEF FlushRows, Bijection, Injection, IsInjective
<1>2. ripe \in SUBSET Keys /\ \A k \in ripe : p[k] # Never
  BY DEF RipeKeys, Ripe
<1>3. n \in Nat
  <2> HIDE DEF ripe
  <2> QED BY <1>2, KeysFinite, FS_Subset, FS_CardinalityType
<1> HIDE DEF ripe, n
<1>4. due' \in Seq(Keys) /\ Len(due') = n /\ \A i \in 1..n : due'[i] \in ripe
  BY <1>1, <1>2, <1>3
<1>5. pending' \in [Keys -> Times]
  BY <1>1 DEF Times
<1>6. DueOnce(pending', due')
  BY <1>1, <1>2, <1>4 DEF DueOnce
<1>7. ASSUME NEW k \in Keys PROVE Waits(pending', due', k) <= Waits(p, <<>>, k)
  <2>1. pending'[k] # Never => p[k] # Never
    BY <1>1
  <2>2. (\E i \in 1..Len(due') : due'[i] = k) => p[k] # Never
    BY <1>2, <1>4
  <2> QED BY <2>1, <2>2 DEF Waits
<1> QED BY <1>4, <1>5, <1>6, <1>7

LEMMA InitTrigger == TriggerInit => TriggerInv
<1> SUFFICES ASSUME TriggerInit PROVE TriggerInv
  OBVIOUS
<1>1. TriggerTyped
  BY TriggerAssumption DEF TriggerInit, TriggerTyped, Times
<1>2. Latest(lastFired, emitted, clock) /\ Apart(emitted) /\ DueOnce(pending, due)
  BY DEF TriggerInit, Latest, Apart, DueOnce
<1>3. ASSUME NEW k \in Keys PROVE Backed(k)
  <2>1. FiredAt(emitted, k) = {} /\ Waits(pending, due, k) = 0
    BY DEF TriggerInit, FiredAt, Waits
  <2>2. Cardinality(FiredAt(emitted, k)) = 0
    BY <2>1, FS_EmptySet, Zenon
  <2>3. Cardinality(SeenFor(seenIds, k)) \in Nat
    BY <1>1, CountsAre DEF TriggerTyped
  <2> QED BY <2>1, <2>2, <2>3 DEF Backed
<1> QED BY <1>1, <1>2, <1>3 DEF TriggerInv

\* Counting: what each key's firings, waiting and events may do in one step.
LEMMA BackedStep ==
  ASSUME TriggerInv, TriggerTyped', NEW k \in Keys, NEW a \in {0, 1},
         Cardinality(FiredAt(emitted', k)) + Waits(pending', due', k) <=
           Cardinality(FiredAt(emitted, k)) + Waits(pending, due, k) + a,
         Cardinality(SeenFor(seenIds', k)) >= Cardinality(SeenFor(seenIds, k)) + a
  PROVE  Backed(k)'
<1>1. /\ Cardinality(FiredAt(emitted, k)) \in Nat /\ Cardinality(FiredAt(emitted', k)) \in Nat
      /\ Cardinality(SeenFor(seenIds, k)) \in Nat /\ Cardinality(SeenFor(seenIds', k)) \in Nat
  BY CountsAre DEF TriggerInv, TriggerTyped
<1>2. Waits(pending, due, k) \in {0, 1} /\ Waits(pending', due', k) \in {0, 1}
  BY DEF Waits
<1>3. Cardinality(FiredAt(emitted, k)) + Waits(pending, due, k) <= Cardinality(SeenFor(seenIds, k))
  BY DEF TriggerInv, Backed
<1>4. Cardinality(FiredAt(emitted', k)) + Waits(pending', due', k) <= Cardinality(SeenFor(seenIds', k))
  BY <1>1, <1>2, <1>3
<1> QED BY <1>4 DEF Backed, FiredAt, Waits, SeenFor

LEMMA EvaluateNowStep ==
  ASSUME TriggerInv, NEW e \in DOMAIN MarketEvents, EvaluateNow(e) PROVE TriggerInv'
<1> DEFINE k == MarketEvents[e].key
<1>0. /\ TriggerTyped /\ Latest(lastFired, emitted, clock) /\ Apart(emitted) /\ DueOnce(pending, due)
      /\ k \in Keys
  BY DEF TriggerInv, Keys
<1>1. e \notin seenIds /\ seenIds' = seenIds \cup {e} /\ UNCHANGED <<debounce, clock, pending, due>>
  BY DEF EvaluateNow
<1>2. CASE Triggers(e)
  <2>1. Emit(k)
    BY <1>2 DEF EvaluateNow
  <2> HIDE DEF k
  <2>2. /\ emitted' \in Seq(Firings) /\ lastFired' \in [Keys -> Times]
        /\ Latest(lastFired', emitted', clock) /\ Apart(emitted')
        /\ Cardinality(FiredAt(emitted', k)) <= Cardinality(FiredAt(emitted, k)) + 1
        /\ \A j \in Keys \ {k} : Cardinality(FiredAt(emitted', j)) = Cardinality(FiredAt(emitted, j))
    BY <1>0, <2>1, EmitStep
  <2>3. TriggerTyped'
    BY <1>0, <1>1, <2>2 DEF TriggerTyped
  <2>4. ASSUME NEW j \in Keys PROVE Backed(j)'
    <3>1. /\ Cardinality(FiredAt(emitted, j)) \in Nat /\ Cardinality(FiredAt(emitted', j)) \in Nat
          /\ Cardinality(SeenFor(seenIds, j)) \in Nat /\ Cardinality(SeenFor(seenIds', j)) \in Nat
      BY <1>0, <2>3, CountsAre DEF TriggerTyped
    <3>2. Waits(pending', due', j) = Waits(pending, due, j) /\ Waits(pending, due, j) \in {0, 1}
      BY <1>1 DEF Waits
    <3>3. /\ Cardinality(SeenFor(seenIds', j)) >= Cardinality(SeenFor(seenIds, j))
          /\ j = k => Cardinality(SeenFor(seenIds', j)) = Cardinality(SeenFor(seenIds, j)) + 1
      BY <1>0, <1>1, <1>2, OneMoreSeen DEF TriggerTyped, k
    <3>4. CASE j = k
      BY <2>2, <2>3, <3>1, <3>2, <3>3, <3>4, BackedStep, 1 \in {0, 1}
    <3>5. CASE j # k
      BY <2>2, <2>3, <3>1, <3>2, <3>3, <3>5, BackedStep, 0 \in {0, 1}
    <3> QED BY <3>4, <3>5
  <2>5. (Latest(lastFired, emitted, clock) /\ Apart(emitted) /\ DueOnce(pending, due))'
    BY <1>0, <1>1, <2>2 DEF Latest, Apart, DueOnce
  <2> QED BY <2>3, <2>4, <2>5 DEF TriggerInv
<1>3. CASE ~Triggers(e)
  <2>1. UNCHANGED <<lastFired, emitted>>
    BY <1>3 DEF EvaluateNow
  <2>2. TriggerTyped'
    BY <1>0, <1>1, <2>1 DEF TriggerTyped
  <2>3. ASSUME NEW j \in Keys PROVE Backed(j)'
    <3>1. Cardinality(FiredAt(emitted, j)) \in Nat /\ Cardinality(SeenFor(seenIds, j)) \in Nat
      BY <1>0, CountsAre DEF TriggerTyped
    <3>2. Cardinality(SeenFor(seenIds', j)) >= Cardinality(SeenFor(seenIds, j))
      BY <1>0, <1>1, OneMoreSeen DEF TriggerTyped
    <3>3. Cardinality(SeenFor(seenIds', j)) \in Nat
      BY <1>0, <2>2, CountsAre DEF TriggerTyped
    <3>4. Waits(pending, due, j) \in {0, 1}
      BY DEF Waits
    <3> QED BY <1>1, <2>1, <2>2, <3>1, <3>2, <3>3, <3>4, BackedStep, 0 \in {0, 1}
  <2>4. (Latest(lastFired, emitted, clock) /\ Apart(emitted) /\ DueOnce(pending, due))'
    BY <1>0, <1>1, <2>1 DEF Latest, Apart, DueOnce
  <2> QED BY <2>2, <2>3, <2>4 DEF TriggerInv
<1> QED BY <1>2, <1>3

\* A step that fires nothing: it is enough that a key begins to wait only with a
\* new event behind it.
LEMMA QuietStep ==
  ASSUME TriggerInv, TriggerTyped', UNCHANGED <<lastFired, emitted>>, clock' >= clock,
         DueOnce(pending', due'),
         \A k \in Keys : \E a \in {0, 1} :
            /\ Waits(pending', due', k) <= Waits(pending, due, k) + a
            /\ Cardinality(SeenFor(seenIds', k)) >= Cardinality(SeenFor(seenIds, k)) + a
  PROVE  TriggerInv'
<1>0. TriggerTyped /\ Latest(lastFired, emitted, clock) /\ Apart(emitted)
  BY DEF TriggerInv
<1>1. Latest(lastFired', emitted', clock')
  <2> SUFFICES ASSUME NEW i \in 1..Len(emitted)
               PROVE  /\ lastFired[emitted[i].key] # Never
                      /\ emitted[i].at <= lastFired[emitted[i].key]
                      /\ lastFired[emitted[i].key] <= clock'
    BY DEF Latest
  <2>1. emitted[i].key \in Keys
    <3>1. emitted \in Seq(Firings)
      BY <1>0 DEF TriggerTyped
    <3>2. emitted[i] \in Firings
      BY <3>1
    <3> QED BY <3>2 DEF Firings
  <2>2. lastFired[emitted[i].key] \in Int /\ clock \in Int /\ clock' \in Int
    BY <1>0, <2>1 DEF TriggerTyped, Times, Never
  <2> QED BY <1>0, <2>2 DEF Latest
<1>2. ASSUME NEW k \in Keys PROVE Backed(k)'
  <2>1. PICK a \in {0, 1} :
           /\ Waits(pending', due', k) <= Waits(pending, due, k) + a
           /\ Cardinality(SeenFor(seenIds', k)) >= Cardinality(SeenFor(seenIds, k)) + a
    OBVIOUS
  <2>2. Cardinality(FiredAt(emitted, k)) \in Nat
    BY <1>0, CountsAre DEF TriggerTyped
  <2>3. Waits(pending, due, k) \in {0, 1} /\ Waits(pending', due', k) \in {0, 1}
    BY DEF Waits
  <2>4. Cardinality(FiredAt(emitted', k)) + Waits(pending', due', k) <=
          Cardinality(FiredAt(emitted, k)) + Waits(pending, due, k) + a
    BY <2>1, <2>2, <2>3
  <2> QED BY <2>1, <2>4, BackedStep
<1>3. (Latest(lastFired, emitted, clock) /\ Apart(emitted) /\ DueOnce(pending, due))'
  BY <1>0, <1>1 DEF Latest, Apart, DueOnce
<1> QED BY <1>2, <1>3 DEF TriggerInv

LEMMA EvaluateLaterStep ==
  ASSUME TriggerInv, NEW e \in DOMAIN MarketEvents, EvaluateLater(e) PROVE TriggerInv'
<1> DEFINE k == MarketEvents[e].key
           p == IF pending[k] = Never THEN [pending EXCEPT ![k] = clock] ELSE pending
<1>0. TriggerTyped /\ DueOnce(pending, due) /\ k \in Keys
  BY DEF TriggerInv, Keys
<1>1. /\ e \notin seenIds /\ seenIds' = seenIds \cup {e} /\ due = <<>>
      /\ UNCHANGED <<debounce, clock, lastFired, emitted>>
  BY DEF EvaluateLater
<1>2. \A j : Cardinality(SeenFor(seenIds', j)) >= Cardinality(SeenFor(seenIds, j))
             /\ Cardinality(SeenFor(seenIds, j)) \in Nat
  BY <1>0, <1>1, OneMoreSeen, CountsAre DEF TriggerTyped
<1>3. CASE Triggers(e)
  <2>1. FlushRows(p)
    BY <1>3 DEF EvaluateLater
  <2>2. p \in [Keys -> Times] /\ \A j \in Keys \ {k} : p[j] = pending[j]
    BY <1>0 DEF TriggerTyped, Times
  <2>3. Cardinality(SeenFor(seenIds', k)) = Cardinality(SeenFor(seenIds, k)) + 1
    BY <1>0, <1>1, <1>3, OneMoreSeen DEF TriggerTyped
  <2> HIDE DEF k, p
  <2>4. /\ due' \in Seq(Keys) /\ pending' \in [Keys -> Times] /\ DueOnce(pending', due')
        /\ \A j \in Keys : Waits(pending', due', j) <= Waits(p, <<>>, j)
    BY <1>0, <2>1, <2>2, FlushRowsStep
  <2>5. TriggerTyped'
    BY <1>0, <1>1, <2>4 DEF TriggerTyped
  <2>6. ASSUME NEW j \in Keys
        PROVE  \E a \in {0, 1} :
                 /\ Waits(pending', due', j) <= Waits(pending, due, j) + a
                 /\ Cardinality(SeenFor(seenIds', j)) >= Cardinality(SeenFor(seenIds, j)) + a
    <3>1. Waits(pending', due', j) <= Waits(p, <<>>, j) /\ Waits(p, <<>>, j) \in {0, 1}
          /\ Waits(pending, due, j) \in {0, 1} /\ Waits(pending', due', j) \in {0, 1}
      BY <2>4 DEF Waits
    <3>2. CASE j = k
      <4>1. /\ Waits(pending', due', j) <= Waits(pending, due, j) + 1
            /\ Cardinality(SeenFor(seenIds', j)) >= Cardinality(SeenFor(seenIds, j)) + 1
        BY <1>2, <2>3, <3>1, <3>2
      <4> QED BY <4>1
    <3>3. CASE j # k
      <4>1. Waits(p, <<>>, j) = Waits(pending, due, j)
        BY <1>1, <2>2, <3>3 DEF Waits
      <4>2. /\ Waits(pending', due', j) <= Waits(pending, due, j) + 0
            /\ Cardinality(SeenFor(seenIds', j)) >= Cardinality(SeenFor(seenIds, j)) + 0
        BY <1>2, <3>1, <4>1
      <4> QED BY <4>2
    <3> QED BY <3>2, <3>3
  <2>7. clock' >= clock
    BY <1>0, <1>1 DEF TriggerTyped
  <2> QED BY <1>1, <2>4, <2>5, <2>6, <2>7, QuietStep
<1>4. CASE ~Triggers(e)
  <2>1. UNCHANGED <<pending, due>>
    BY <1>4 DEF EvaluateLater
  <2>2. TriggerTyped' /\ clock' >= clock
    BY <1>0, <1>1, <2>1 DEF TriggerTyped
  <2>3. ASSUME NEW j \in Keys
        PROVE  /\ Waits(pending', due', j) <= Waits(pending, due, j) + 0
               /\ Cardinality(SeenFor(seenIds', j)) >= Cardinality(SeenFor(seenIds, j)) + 0
    BY <1>2, <2>1 DEF Waits
  <2> QED BY <1>0, <1>1, <2>1, <2>2, <2>3, QuietStep
<1> QED BY <1>3, <1>4

LEMMA FlushStep == ASSUME TriggerInv, Flush PROVE TriggerInv'
<1>0. TriggerTyped /\ pending \in [Keys -> Times] /\ clock \in Nat
  BY DEF TriggerInv, TriggerTyped
<1>1. /\ due = <<>> /\ FlushRows(pending) /\ UNCHANGED <<debounce, clock, seenIds, lastFired, emitted>>
  BY DEF Flush
<1>2. /\ due' \in Seq(Keys) /\ pending' \in [Keys -> Times] /\ DueOnce(pending', due')
      /\ \A j \in Keys : Waits(pending', due', j) <= Waits(pending, <<>>, j)
  BY <1>0, <1>1, FlushRowsStep
<1>3. TriggerTyped' /\ clock' >= clock
  BY <1>0, <1>1, <1>2 DEF TriggerTyped
<1>4. ASSUME NEW j \in Keys
      PROVE  /\ Waits(pending', due', j) <= Waits(pending, due, j) + 0
             /\ Cardinality(SeenFor(seenIds', j)) >= Cardinality(SeenFor(seenIds, j)) + 0
  <2>1. Waits(pending', due', j) \in {0, 1} /\ Waits(pending, due, j) \in {0, 1}
    BY DEF Waits
  <2>2. Cardinality(SeenFor(seenIds, j)) \in Nat
    BY <1>0, CountsAre DEF TriggerTyped
  <2> QED BY <1>1, <1>2, <2>1, <2>2
<1> QED BY <1>1, <1>2, <1>3, <1>4, QuietStep

LEMMA FlushOneStep == ASSUME TriggerInv, FlushOne PROVE TriggerInv'
<1>0. /\ TriggerTyped /\ DueOnce(pending, due) /\ due \in Seq(Keys) /\ due # <<>>
      /\ due' = Tail(due) /\ UNCHANGED <<debounce, clock, seenIds, pending>>
  BY DEF TriggerInv, TriggerTyped, FlushOne
<1>1. PICK k \in Keys : k = Head(due)
  BY <1>0
<1>2. Emit(k)
  BY <1>1 DEF FlushOne
<1>3. /\ emitted' \in Seq(Firings) /\ lastFired' \in [Keys -> Times]
      /\ Latest(lastFired', emitted', clock) /\ Apart(emitted')
      /\ Cardinality(FiredAt(emitted', k)) <= Cardinality(FiredAt(emitted, k)) + 1
      /\ \A j \in Keys \ {k} : Cardinality(FiredAt(emitted', j)) = Cardinality(FiredAt(emitted, j))
  BY <1>2, EmitStep
<1>4. /\ due' \in Seq(Keys) /\ Len(due) \in Nat /\ Len(due') = Len(due) - 1 /\ due[1] = k
      /\ \A i \in 1..Len(due') : due'[i] = due[i + 1]
  BY <1>0, <1>1
<1>5. TriggerTyped'
  BY <1>0, <1>3, <1>4 DEF TriggerTyped
<1>6. DueOnce(pending', due')
  BY <1>0, <1>4 DEF DueOnce
<1>7. ASSUME NEW j \in Keys PROVE Backed(j)'
  <2>1. /\ Cardinality(FiredAt(emitted, j)) \in Nat /\ Cardinality(FiredAt(emitted', j)) \in Nat
        /\ Cardinality(SeenFor(seenIds, j)) \in Nat /\ seenIds' = seenIds
    BY <1>0, <1>3, CountsAre DEF TriggerTyped
  <2>2. Waits(pending, due, j) \in {0, 1} /\ Waits(pending', due', j) \in {0, 1}
    BY DEF Waits
  <2>3. (\E i \in 1..Len(due') : due'[i] = j) => \E i \in 1..Len(due) : due[i] = j
    BY <1>4
  <2>4. Waits(pending', due', j) <= Waits(pending, due, j)
    BY <1>0, <2>3 DEF Waits
  <2>5. CASE j = k
    <3>1. Waits(pending, due, j) = 1
      <4>1. 1 \in 1..Len(due)
        BY <1>0, <1>4
      <4> QED BY <1>4, <2>5, <4>1 DEF Waits
    <3>2. Waits(pending', due', j) = 0
      <4>1. pending'[j] = Never
        BY <1>0, <1>4, <2>5 DEF DueOnce
      <4>2. ~\E i \in 1..Len(due') : due'[i] = j
        BY <1>0, <1>4, <2>5 DEF DueOnce
      <4> QED BY <4>1, <4>2 DEF Waits
    <3>3. /\ Cardinality(FiredAt(emitted', j)) + Waits(pending', due', j) <=
               Cardinality(FiredAt(emitted, j)) + Waits(pending, due, j) + 0
          /\ Cardinality(SeenFor(seenIds', j)) >= Cardinality(SeenFor(seenIds, j)) + 0
      BY <1>3, <2>1, <2>5, <3>1, <3>2
    <3> QED BY <1>5, <3>3, BackedStep, 0 \in {0, 1}
  <2>6. CASE j # k
    <3>1. /\ Cardinality(FiredAt(emitted', j)) + Waits(pending', due', j) <=
               Cardinality(FiredAt(emitted, j)) + Waits(pending, due, j) + 0
          /\ Cardinality(SeenFor(seenIds', j)) >= Cardinality(SeenFor(seenIds, j)) + 0
      BY <1>3, <2>1, <2>2, <2>4, <2>6
    <3> QED BY <1>5, <3>1, BackedStep, 0 \in {0, 1}
  <2> QED BY <2>5, <2>6
<1>8. (Latest(lastFired, emitted, clock) /\ Apart(emitted) /\ DueOnce(pending, due))'
  BY <1>0, <1>3, <1>6 DEF Latest, Apart, DueOnce
<1> QED BY <1>5, <1>7, <1>8 DEF TriggerInv

\* The invariant is inductive.
LEMMA NextTrigger == TriggerInv /\ [TriggerNext]_triggerVars => TriggerInv'
<1> SUFFICES ASSUME TriggerInv, [TriggerNext]_triggerVars PROVE TriggerInv'
  OBVIOUS
<1>0. TriggerTyped /\ DueOnce(pending, due) /\ clock \in Nat
  BY DEF TriggerInv, TriggerTyped
<1>1. \A k : Cardinality(SeenFor(seenIds, k)) \in Nat /\ Waits(pending, due, k) \in {0, 1}
             /\ Waits(pending, <<>>, k) \in {0, 1} /\ Waits(pending, <<>>, k) <= Waits(pending, due, k)
  <2> SUFFICES ASSUME NEW k
               PROVE  Cardinality(SeenFor(seenIds, k)) \in Nat /\ Waits(pending, due, k) \in {0, 1}
                      /\ Waits(pending, <<>>, k) \in {0, 1}
                      /\ Waits(pending, <<>>, k) <= Waits(pending, due, k)
    OBVIOUS
  <2>1. Cardinality(SeenFor(seenIds, k)) \in Nat
    BY <1>0, CountsAre DEF TriggerTyped
  <2> QED BY <2>1 DEF Waits
<1>2. ASSUME NEW e \in DOMAIN MarketEvents, EvaluateDies(e) PROVE TriggerInv'
  <2>1. /\ e \notin seenIds /\ seenIds' = seenIds \cup {e}
        /\ UNCHANGED <<debounce, clock, pending, lastFired, due, emitted>>
    BY <1>2 DEF EvaluateDies
  <2>2. TriggerTyped' /\ clock' >= clock
    BY <1>0, <2>1 DEF TriggerTyped
  <2>3. ASSUME NEW k \in Keys
        PROVE  /\ Waits(pending', due', k) <= Waits(pending, due, k) + 0
               /\ Cardinality(SeenFor(seenIds', k)) >= Cardinality(SeenFor(seenIds, k)) + 0
    <3>1. Cardinality(SeenFor(seenIds', k)) >= Cardinality(SeenFor(seenIds, k))
      BY <1>0, <2>1, OneMoreSeen DEF TriggerTyped
    <3> QED BY <1>1, <2>1, <3>1
  <2> QED BY <1>0, <2>1, <2>2, <2>3, QuietStep
<1>3. CASE FlushDies
  <2>1. due' = <<>> /\ UNCHANGED <<debounce, clock, seenIds, pending, lastFired, emitted>>
    BY <1>3 DEF FlushDies
  <2>2. TriggerTyped' /\ clock' >= clock /\ DueOnce(pending', due')
    BY <1>0, <2>1 DEF TriggerTyped, DueOnce
  <2>3. ASSUME NEW k \in Keys
        PROVE  /\ Waits(pending', due', k) <= Waits(pending, due, k) + 0
               /\ Cardinality(SeenFor(seenIds', k)) >= Cardinality(SeenFor(seenIds, k)) + 0
    BY <1>1, <2>1
  <2> QED BY <2>1, <2>2, <2>3, QuietStep
<1>4. CASE TriggerTick \/ UNCHANGED triggerVars
  <2>1. /\ clock' \in Nat /\ clock' >= clock
        /\ UNCHANGED <<debounce, seenIds, pending, lastFired, due, emitted>>
    BY <1>0, <1>4 DEF TriggerTick, triggerVars
  <2>2. TriggerTyped'
    BY <1>0, <2>1 DEF TriggerTyped
  <2>3. ASSUME NEW k \in Keys
        PROVE  /\ Waits(pending', due', k) <= Waits(pending, due, k) + 0
               /\ Cardinality(SeenFor(seenIds', k)) >= Cardinality(SeenFor(seenIds, k)) + 0
    BY <1>1, <2>1
  <2> QED BY <1>0, <2>1, <2>2, <2>3, QuietStep
<1> QED BY <1>2, <1>3, <1>4, EvaluateNowStep, EvaluateLaterStep, FlushStep, FlushOneStep DEF TriggerNext

\* Two triggers of one key are at least the cooldown apart and each has an event of
\* its own behind it: for any events, thresholds, cooldown, debounce and length of
\* the run, through every crash of evaluate and flush.
THEOREM FiresApartAlways == TriggerSpec => []FiresApart
<1>1. TriggerInv => FiresApart
  <2> SUFFICES ASSUME TriggerInv PROVE FiresApart
    OBVIOUS
  <2>1. DOMAIN emitted = 1..Len(emitted) /\ TriggerTyped /\ Apart(emitted)
    BY DEF TriggerInv, TriggerTyped
  <2>2. ASSUME NEW k \in Keys
        PROVE  Cardinality({i \in DOMAIN emitted : emitted[i].key = k}) <=
                 Cardinality({e \in seenIds : MarketEvents[e].key = k /\ Triggers(e)})
    <3>1. /\ Cardinality(FiredAt(emitted, k)) \in Nat /\ Cardinality(SeenFor(seenIds, k)) \in Nat
          /\ Waits(pending, due, k) \in {0, 1} /\ Backed(k)
      BY <2>1, CountsAre DEF TriggerInv, TriggerTyped, Waits
    <3>2. Cardinality(FiredAt(emitted, k)) <= Cardinality(SeenFor(seenIds, k))
      BY <3>1 DEF Backed
    <3>3. {i \in DOMAIN emitted : emitted[i].key = k} = FiredAt(emitted, k)
      BY <2>1 DEF FiredAt
    <3>4. Cardinality({i \in DOMAIN emitted : emitted[i].key = k}) = Cardinality(FiredAt(emitted, k))
      BY <3>3, Zenon
    <3> QED BY <3>2, <3>4, Zenon DEF SeenFor
  <2> QED BY <2>1, <2>2 DEF FiresApart, Apart
<1> QED BY <1>1, InitTrigger, NextTrigger, PTL DEF TriggerSpec

-----------------------------------------------------------------------------
(* DurableScheduler *)

Slots == Nat \cup {NoSlot}
SchedRows == [on : BOOLEAN, next : Slots, payload : Payloads \cup {None}, rule : Schedules \cup {None}]

SchedTyped ==
  /\ time \in Nat
  /\ schedule \in [Ids -> SchedRows]
  /\ since \in [Ids -> Slots]
  /\ listed \in SUBSET Ids
  /\ enqueued \in Ids \cup {None}

\* An enabled row has a rule and a slot after its upsert; an interval's slots are
\* counted from there.
RowMeans(r, from) ==
  r.on => /\ r.rule \in Schedules /\ r.next \in Nat /\ from \in Nat /\ r.next > from
          /\ r.rule.kind = "every" => (r.next - from) % r.rule.every = 0

\* tick works on rows that are due, and has put a job in the queue for the one it
\* is about to move.
TickMeans ==
  /\ \A i \in listed : schedule[i].on /\ schedule[i].next <= time
  /\ enqueued # None => enqueued \in listed /\ Job(enqueued) \in jobs

\* A job was due, and none is ahead of its schedule: its slot is behind the row's,
\* or is the row's, with the same payload.
JobsMean ==
  \A j \in jobs :
    /\ j.id \in Ids /\ j.slot \in Nat /\ j.slot <= time
    /\ j.slot <= schedule[j.id].next
    /\ j.slot = schedule[j.id].next => j.payload = schedule[j.id].payload

\* The slots of a row before its next one have jobs.
CoveredSlots(i, r, from, js) ==
  r.on => \A t \in 0..(r.next - 1) : Occurs(r.rule, from, t) => \E j \in js : j.id = i /\ j.slot = t

SchedInv ==
  /\ SchedTyped /\ TickMeans /\ JobsMean
  /\ \A i \in Ids : RowMeans(schedule[i], since[i]) /\ CoveredSlots(i, schedule[i], since[i], jobs)

\* What nextScheduleTime returns: a later time, and for a cron rule the first that
\* matches.
LEMMA NextTime ==
  ASSUME NEW s \in Schedules, NEW after \in Nat, NEW n, n = NextScheduleTime(s, after), n # NoSlot
  PROVE  /\ n \in Nat /\ n > after
         /\ s.kind = "at" => n = s.at
         /\ s.kind = "every" => n = after + s.every
         /\ s.kind = "cron" => \A t \in Nat : after < t /\ t < n => ~Matches(s, t)
<1>0. /\ Minute \in Nat \ {0} /\ Horizon \in Nat
      /\ \/ s.kind = "at" /\ s.at \in Nat
         \/ s.kind = "every" /\ s.every \in Nat \ {0}
         \/ s.kind = "cron"
  BY SchedulerAssumption
<1>1. CASE s.kind = "at"
  BY <1>0, <1>1 DEF NextScheduleTime
<1>2. CASE s.kind = "every"
  BY <1>0, <1>2 DEF NextScheduleTime
<1>3. CASE s.kind = "cron"
  <2> DEFINE m == FirstMinute(after)
             times == {t \in m..(m + Horizon) : Matches(s, t)}
  <2>1. m \in Nat /\ m > after
    <3> DEFINE q == after \div Minute
    <3>1. after = q * Minute + (after % Minute) /\ after % Minute \in 0..(Minute - 1) /\ q \in Nat
      BY <1>0, DivMod
    <3>2. m = q * Minute + Minute
      BY DEF FirstMinute
    <3> HIDE DEF q
    <3>3. q * Minute \in Nat
      BY <1>0, <3>1, Multiples
    <3> HIDE DEF m
    <3> QED BY <1>0, <3>1, <3>2, <3>3
  <2>2. n = IF times = {} THEN NoSlot ELSE Min(times)
    BY <1>3 DEF NextScheduleTime
  <2>3. times # {} /\ n = Min(times)
    BY <2>2
  <2>4. n \in times /\ \A t \in times : n <= t
    <3>1. times \in SUBSET Nat
      BY <1>0, <2>1
    <3> HIDE DEF times
    <3>2. \E x \in times : \A y \in times : x <= y
      BY <2>3, <3>1, LeastNatural
    <3> QED BY <2>3, <3>2 DEF Min
  <2>5. ASSUME NEW t \in Nat, after < t, t < n, Matches(s, t) PROVE FALSE
    <3>1. t % Minute = 0
      BY <2>5 DEF Matches
    <3>2. t >= m
      BY <1>0, <2>5, <3>1, NextMultiple DEF FirstMinute
    <3>3. t \in times
      BY <1>0, <2>1, <2>4, <2>5, <3>2
    <3> HIDE DEF times, m
    <3>4. n <= t
      BY <2>4, <3>3
    <3>5. n \in Int
      BY <1>0, <2>1, <2>4 DEF times
    <3> QED BY <2>5, <3>4, <3>5
  <2> QED BY <1>0, <1>3, <2>1, <2>4, <2>5
<1> QED BY <1>0, <1>1, <1>2, <1>3

LEMMA InitSched == SchedInit => SchedInv
<1> SUFFICES ASSUME SchedInit PROVE SchedInv
  OBVIOUS
<1>1. SchedTyped /\ TickMeans /\ JobsMean
  BY DEF SchedInit, SchedTyped, TickMeans, JobsMean, SchedRows, Slots
<1>2. \A i \in Ids : RowMeans(schedule[i], since[i]) /\ CoveredSlots(i, schedule[i], since[i], jobs)
  BY DEF SchedInit, RowMeans, CoveredSlots
<1> QED BY <1>1, <1>2 DEF SchedInv

\* upsert: no time the new rule names is before its next slot, and every job is.
LEMMA UpsertStep ==
  ASSUME SchedInv, NEW i \in Ids, NEW s \in Schedules, NEW p \in Payloads, Upsert(i, s, p)
  PROVE  SchedInv'
<1> DEFINE n == NextScheduleTime(s, time)
           row == [on |-> TRUE, next |-> n, payload |-> p, rule |-> s]
<1>0. SchedTyped /\ TickMeans /\ JobsMean /\ time \in Nat
  BY DEF SchedInv, SchedTyped
<1>1. /\ listed = {} /\ n # NoSlot /\ schedule' = [schedule EXCEPT ![i] = row]
      /\ since' = [since EXCEPT ![i] = time] /\ UNCHANGED <<time, jobs, listed, enqueued>>
  BY DEF Upsert
<1>2. /\ n \in Nat /\ n > time
      /\ s.kind = "at" => n = s.at
      /\ s.kind = "every" => n = time + s.every
      /\ s.kind = "cron" => \A t \in Nat : time < t /\ t < n => ~Matches(s, t)
  BY <1>0, <1>1, NextTime
<1> HIDE DEF n
<1>3. /\ row \in SchedRows /\ row.on /\ row.next = n /\ row.payload = p /\ row.rule = s
  BY <1>2 DEF SchedRows, Slots
<1> HIDE DEF row
<1>4. /\ schedule'[i] = row /\ since'[i] = time
      /\ \A k \in Ids \ {i} : schedule'[k] = schedule[k] /\ since'[k] = since[k]
  BY <1>0, <1>1 DEF SchedTyped
<1>5. SchedTyped'
  BY <1>0, <1>1, <1>3 DEF SchedTyped, Slots
<1>6. TickMeans'
  BY <1>0, <1>1 DEF TickMeans
<1>7. JobsMean'
  <2> SUFFICES ASSUME NEW j \in jobs
               PROVE  /\ j.id \in Ids /\ j.slot \in Nat /\ j.slot <= time
                      /\ j.slot <= schedule'[j.id].next
                      /\ j.slot = schedule'[j.id].next => j.payload = schedule'[j.id].payload
    BY <1>1 DEF JobsMean
  <2>1. /\ j.id \in Ids /\ j.slot \in Nat /\ j.slot <= time /\ j.slot <= schedule[j.id].next
        /\ j.slot = schedule[j.id].next => j.payload = schedule[j.id].payload
    BY <1>0 DEF JobsMean
  <2>2. CASE j.id = i
    BY <1>0, <1>2, <1>3, <1>4, <2>1, <2>2
  <2>3. CASE j.id # i
    BY <1>4, <2>1, <2>3
  <2> QED BY <2>2, <2>3
<1>8. ASSUME NEW k \in Ids
      PROVE  RowMeans(schedule'[k], since'[k]) /\ CoveredSlots(k, schedule'[k], since'[k], jobs')
  <2>1. CASE k # i
    BY <1>1, <1>4, <2>1 DEF SchedInv
  <2>2. CASE k = i
    <3>1. s.kind = "every" => s.every \in Nat \ {0}
      BY SchedulerAssumption
    <3>2. RowMeans(row, time)
      <4>1. s.kind = "every" => (n - time) % s.every = 0
        <5> SUFFICES ASSUME s.kind = "every" PROVE (n - time) % s.every = 0
          OBVIOUS
        <5>1. s.every \in Nat \ {0} /\ n - time = s.every
          BY <1>0, <1>2, <3>1
        <5>2. s.every % s.every = 0
          BY <5>1, Z3
        <5> QED BY <5>1, <5>2
      <4> QED BY <1>0, <1>2, <1>3, <4>1 DEF RowMeans
    <3>3. ASSUME NEW t \in 0..(n - 1), Occurs(s, time, t) PROVE FALSE
      <4>1. t \in Nat /\ t > time /\ t < n
        BY <1>2, <3>3 DEF Occurs
      <4>2. CASE s.kind = "at"
        BY <1>2, <3>3, <4>1, <4>2 DEF Occurs
      <4>3. CASE s.kind = "every"
        <5>1. (t - time) % s.every = 0
          BY <3>3, <4>3 DEF Occurs
        <5>2. t - time \in Nat /\ 0 < t - time /\ t - time < s.every
          BY <1>0, <1>2, <3>1, <4>1, <4>3
        <5>3. 0 % s.every = 0
          BY <3>1, <4>3, Z3
        <5>4. 0 = t - time
          BY <3>1, <4>3, <5>1, <5>2, <5>3, SameMultiple
        <5> QED BY <5>2, <5>4
      <4>4. CASE s.kind = "cron"
        BY <1>2, <3>3, <4>1, <4>4 DEF Occurs
      <4> QED BY <4>2, <4>3, <4>4, SchedulerAssumption
    <3>4. CoveredSlots(i, row, time, jobs')
      BY <1>3, <3>3 DEF CoveredSlots
    <3> QED BY <1>4, <2>2, <3>2, <3>4
  <2> QED BY <2>1, <2>2
<1> QED BY <1>5, <1>6, <1>7, <1>8 DEF SchedInv, RowMeans, CoveredSlots

\* tick: the row's next slot gets its job; nothing else about the rows changes.
LEMMA TickEnqueueStep ==
  ASSUME SchedInv, NEW i \in Ids, TickEnqueue(i) PROVE SchedInv'
<1> DEFINE new == Job(i)
<1>0. SchedTyped /\ TickMeans /\ JobsMean
  BY DEF SchedInv
<1>1. /\ i \in listed /\ jobs' = jobs \cup {new} /\ enqueued' = i
      /\ UNCHANGED <<time, schedule, listed, since>>
  BY DEF TickEnqueue
<1>2. /\ new.id = i /\ new.slot = schedule[i].next /\ new.payload = schedule[i].payload
      /\ schedule[i].next \in Nat /\ schedule[i].next <= time
  <2>1. schedule[i].on /\ schedule[i].next <= time /\ RowMeans(schedule[i], since[i])
    BY <1>0, <1>1 DEF SchedInv, TickMeans
  <2> QED BY <2>1 DEF Job, RowMeans
<1>3. Job(i)' = new
  BY <1>1 DEF Job
<1>4. SchedTyped'
  BY <1>0, <1>1 DEF SchedTyped
<1>5. TickMeans'
  <2>1. \A k \in listed' : schedule'[k].on /\ schedule'[k].next <= time'
    BY <1>0, <1>1 DEF TickMeans
  <2>2. Job(enqueued)' = new
    BY <1>1 DEF Job
  <2> QED BY <1>1, <2>1, <2>2 DEF TickMeans
<1> HIDE DEF new
<1>6. JobsMean'
  <2>0. \A k \in Ids : schedule[k].next \in Int
    BY <1>0 DEF SchedTyped, SchedRows, Slots, NoSlot
  <2> SUFFICES ASSUME NEW j \in jobs \cup {new}
               PROVE  /\ j.id \in Ids /\ j.slot \in Nat /\ j.slot <= time
                      /\ j.slot <= schedule[j.id].next
                      /\ j.slot = schedule[j.id].next => j.payload = schedule[j.id].payload
    BY <1>1 DEF JobsMean
  <2>1. CASE j \in jobs
    BY <1>0, <2>1 DEF JobsMean
  <2>2. CASE j = new
    BY <1>2, <2>2
  <2> QED BY <2>1, <2>2
<1>7. ASSUME NEW k \in Ids
      PROVE  (RowMeans(schedule[k], since[k]) /\ CoveredSlots(k, schedule[k], since[k], jobs))'
  <2>1. RowMeans(schedule[k], since[k]) /\ CoveredSlots(k, schedule[k], since[k], jobs)
    BY DEF SchedInv
  <2> QED BY <1>1, <2>1 DEF RowMeans, CoveredSlots
<1> QED BY <1>4, <1>5, <1>6, <1>7 DEF SchedInv

\* tick: between the slot that has its job and the next one the rule names nothing.
LEMMA TickMoveStep == ASSUME SchedInv, TickMove PROVE SchedInv'
<1>0. SchedTyped /\ TickMeans /\ JobsMean /\ time \in Nat
  BY DEF SchedInv, SchedTyped
<1>1. PICK i \in Ids : i = enqueued
  BY <1>0 DEF TickMove, TickMeans, SchedTyped
<1> DEFINE old == schedule[i]
           n == AfterSlot(i)
           row == IF old.rule.kind = "at" THEN [old EXCEPT !.on = FALSE] ELSE [old EXCEPT !.next = n]
<1>2. /\ i \in listed /\ Job(i) \in jobs /\ schedule' = [schedule EXCEPT ![i] = row]
      /\ old.rule.kind # "at" => n # NoSlot
      /\ listed' = listed \ {i} /\ enqueued' = None /\ UNCHANGED <<time, jobs, since>>
  <2>1. /\ enqueued # None /\ listed' = listed \ {i} /\ enqueued' = None
        /\ UNCHANGED <<time, jobs, since>>
        /\ old.rule.kind # "at" => n # NoSlot
    BY <1>1 DEF TickMove
  <2>2. schedule' = [schedule EXCEPT ![i] = row]
    BY <1>1 DEF TickMove
  <2> QED BY <1>0, <1>1, <2>1, <2>2 DEF TickMeans
<1>3. /\ old \in SchedRows /\ old.on /\ old.rule \in Schedules /\ old.next \in Nat
      /\ since[i] \in Nat /\ old.next > since[i]
      /\ old.rule.kind = "every" => (old.next - since[i]) % old.rule.every = 0
      /\ CoveredSlots(i, old, since[i], jobs)
  BY <1>0, <1>2 DEF SchedInv, SchedTyped, TickMeans, RowMeans
<1>4. ASSUME old.rule.kind # "at"
      PROVE  /\ n \in Nat /\ n > old.next
             /\ old.rule.kind = "every" => n = old.next + old.rule.every
             /\ old.rule.kind = "cron" => \A t \in Nat : old.next < t /\ t < n => ~Matches(old.rule, t)
  <2>1. n = NextScheduleTime(old.rule, old.next) /\ n # NoSlot
    BY <1>2, <1>4 DEF AfterSlot
  <2> HIDE DEF n, old
  <2> QED BY <1>3, <2>1, NextTime
<1>5. \E j \in jobs : j.id = i /\ j.slot = old.next
  BY <1>2 DEF Job
<1> HIDE DEF n, old
<1>6. /\ row \in SchedRows /\ row.rule = old.rule /\ row.payload = old.payload
      /\ old.rule.kind = "at" => ~row.on /\ row.next = old.next
      /\ old.rule.kind # "at" => row.on /\ row.next = n
  <2>1. CASE old.rule.kind = "at"
    BY <1>3, <2>1 DEF SchedRows
  <2>2. CASE old.rule.kind # "at"
    BY <1>3, <1>4, <2>2 DEF SchedRows, Slots
  <2> QED BY <2>1, <2>2
<1> HIDE DEF row
<1>7. schedule'[i] = row /\ \A k \in Ids \ {i} : schedule'[k] = schedule[k]
  BY <1>0, <1>2 DEF SchedTyped
<1>8. SchedTyped'
  BY <1>0, <1>2, <1>6 DEF SchedTyped
<1>9. TickMeans'
  BY <1>0, <1>2, <1>7 DEF TickMeans, SchedTyped
<1>10. JobsMean'
  <2> SUFFICES ASSUME NEW j \in jobs
               PROVE  /\ j.id \in Ids /\ j.slot \in Nat /\ j.slot <= time
                      /\ j.slot <= schedule'[j.id].next
                      /\ j.slot = schedule'[j.id].next => j.payload = schedule'[j.id].payload
    BY <1>2 DEF JobsMean
  <2>1. /\ j.id \in Ids /\ j.slot \in Nat /\ j.slot <= time /\ j.slot <= schedule[j.id].next
        /\ j.slot = schedule[j.id].next => j.payload = schedule[j.id].payload
    BY <1>0 DEF JobsMean
  <2>2. CASE j.id = i
    <3>1. /\ j.slot <= old.next
          /\ j.slot = old.next => j.payload = old.payload
      BY <2>1, <2>2 DEF old
    <3> QED BY <1>3, <1>4, <1>6, <1>7, <2>1, <2>2, <3>1
  <2>3. CASE j.id # i
    BY <1>7, <2>1, <2>3
  <2> QED BY <2>2, <2>3
<1>11. RowMeans(row, since[i])
  <2>1. CASE old.rule.kind = "at"
    BY <1>6, <2>1 DEF RowMeans
  <2>2. CASE old.rule.kind # "at"
    <3>1. row.rule \in Schedules /\ row.next \in Nat /\ row.next > since[i] /\ row.rule = old.rule
      BY <1>3, <1>4, <1>6, <2>2
    <3>2. ASSUME old.rule.kind = "every" PROVE (row.next - since[i]) % old.rule.every = 0
      <4>1. old.rule.every \in Nat \ {0}
        BY <1>3, <3>2, SchedulerAssumption
      <4>2. old.next - since[i] \in Nat /\ row.next - since[i] = (old.next - since[i]) + old.rule.every
        BY <1>3, <1>4, <1>6, <2>2, <3>2, <4>1
      <4>3. ((old.next - since[i]) + old.rule.every) % old.rule.every = 0
        BY <1>3, <3>2, <4>1, <4>2, MultiplePlus
      <4> QED BY <4>2, <4>3
    <3> QED BY <1>3, <3>1, <3>2 DEF RowMeans
  <2> QED BY <2>1, <2>2
<1>12. CoveredSlots(i, row, since[i], jobs)
  <2> SUFFICES ASSUME row.on, NEW t \in 0..(row.next - 1), Occurs(old.rule, since[i], t)
               PROVE  \E j \in jobs : j.id = i /\ j.slot = t
    BY <1>6 DEF CoveredSlots
  <2>0. old.rule.kind # "at" /\ row.next = n /\ t \in Nat /\ t < n /\ t > since[i]
    BY <1>4, <1>6 DEF Occurs
  <2>1. CASE t < old.next
    <3>1. t \in 0..(old.next - 1)
      BY <1>3, <2>0, <2>1
    <3> QED BY <1>3, <3>1 DEF CoveredSlots
  <2>2. CASE t = old.next
    BY <1>5, <2>2
  <2>3. CASE t > old.next
    <3>1. CASE old.rule.kind = "every"
      <4>1. old.rule.every \in Nat \ {0}
        BY <1>3, <3>1, SchedulerAssumption
      <4>2. (t - since[i]) % old.rule.every = 0
        BY <3>1 DEF Occurs
      <4>3. /\ old.next - since[i] \in Nat /\ t - since[i] \in Nat
            /\ old.next - since[i] <= t - since[i] /\ t - since[i] < (old.next - since[i]) + old.rule.every
        BY <1>3, <1>4, <2>0, <2>3, <3>1, <4>1
      <4>4. old.next - since[i] = t - since[i]
        BY <1>3, <3>1, <4>1, <4>2, <4>3, SameMultiple
      <4> QED BY <1>3, <2>0, <2>3, <4>4
    <3>2. CASE old.rule.kind = "cron"
      BY <1>4, <2>0, <2>3, <3>2 DEF Occurs
    <3> QED BY <1>3, <2>0, <3>1, <3>2, SchedulerAssumption
  <2> QED BY <1>3, <2>0, <2>1, <2>2, <2>3
<1>13. ASSUME NEW k \in Ids
       PROVE  (RowMeans(schedule[k], since[k]) /\ CoveredSlots(k, schedule[k], since[k], jobs))'
  <2>1. RowMeans(schedule'[k], since[k]) /\ CoveredSlots(k, schedule'[k], since[k], jobs)
    BY <1>7, <1>11, <1>12 DEF SchedInv
  <2> QED BY <1>2, <2>1 DEF RowMeans, CoveredSlots
<1> QED BY <1>8, <1>9, <1>10, <1>13 DEF SchedInv

\* The invariant is inductive.
LEMMA NextSched == SchedInv /\ [SchedNext]_schedVars => SchedInv'
<1> SUFFICES ASSUME SchedInv, [SchedNext]_schedVars PROVE SchedInv'
  OBVIOUS
<1>0. SchedTyped /\ TickMeans /\ JobsMean /\ time \in Nat
  BY DEF SchedInv, SchedTyped
<1>1. CASE TickRead \/ TickEnds \/ SchedTick \/ UNCHANGED schedVars
  <2>1. UNCHANGED <<schedule, jobs, since>> /\ time' \in Nat /\ time' >= time
    BY <1>0, <1>1 DEF TickRead, TickEnds, SchedTick, schedVars
  <2>2. SchedTyped'
    BY <1>0, <1>1, <2>1 DEF SchedTyped, TickRead, TickEnds, SchedTick, schedVars
  <2>3. JobsMean'
    BY <1>0, <2>1 DEF JobsMean
  <2>4. \A k \in Ids : schedule[k].next \in Int
    BY <1>0 DEF SchedTyped, SchedRows, Slots, NoSlot
  <2>5. TickMeans'
    <3>1. CASE TickRead
      <4>1. enqueued = None
        BY <1>0, <3>1 DEF TickRead, TickMeans
      <4> QED BY <2>1, <3>1, <4>1 DEF TickRead, TickMeans
    <3>2. CASE TickEnds
      BY <3>2 DEF TickEnds, TickMeans
    <3>3. CASE SchedTick \/ UNCHANGED schedVars
      <4>1. UNCHANGED <<listed, enqueued>>
        BY <3>3 DEF SchedTick, schedVars
      <4>2. \A k \in listed : schedule[k].on /\ schedule[k].next <= time'
        BY <1>0, <2>1, <2>4 DEF TickMeans, SchedTyped
      <4> QED BY <1>0, <2>1, <4>1, <4>2 DEF TickMeans, Job
    <3> QED BY <1>1, <3>1, <3>2, <3>3
  <2> QED BY <2>1, <2>2, <2>3, <2>5 DEF SchedInv, RowMeans, CoveredSlots
<1> QED BY <1>1, UpsertStep, TickEnqueueStep, TickMoveStep DEF SchedNext

\* Every time a schedule names between its last upsert and its next firing has a
\* job, and the key it will use next never belongs to a job with another payload:
\* for any rules and calendar, through late ticks and crashes between the two
\* statements of a row.
THEOREM SlotsAlwaysCovered == SchedSpec => []SlotsCovered
<1>1. SchedInv => SlotsCovered
  <2> SUFFICES ASSUME SchedInv, NEW i \in Ids, schedule[i].on
               PROVE  /\ \A t \in 0..(schedule[i].next - 1) :
                           Occurs(schedule[i].rule, since[i], t) => \E j \in jobs : j.id = i /\ j.slot = t
                      /\ ~Conflicts(i)
    BY DEF SlotsCovered
  <2>1. CoveredSlots(i, schedule[i], since[i], jobs)
    BY DEF SchedInv
  <2>2. ~Conflicts(i)
    BY DEF SchedInv, JobsMean, Conflicts
  <2> QED BY <2>1, <2>2 DEF CoveredSlots
<1> QED BY <1>1, InitSched, NextSched, PTL DEF SchedSpec
=============================================================================
