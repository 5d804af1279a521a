----------------------------- MODULE MCAutonomy -----------------------------
(***************************************************************************)
(* Small instances of the autonomy components for TLC: event bus, market   *)
(* triggers, scheduler, delegation, strategy runner.  They share no state, *)
(* so one behaviour moves one of them (`focus`) and leaves the others in   *)
(* their initial state: the run explores the sum of their state spaces,    *)
(* not the product.                                                        *)
(***************************************************************************)
EXTENDS EventBus, MarketTriggers, Scheduler, Delegation, StrategyRunner

CONSTANT Parts   \* the components this run looks at

VARIABLE focus

vars == <<focus, busVars, triggerVars, schedVars, delVars, stratVars>>

Init ==
  /\ focus \in Parts
  /\ BusInit /\ TriggerInit /\ SchedInit
  /\ DelInit /\ StratInit

Next ==
  \/ /\ focus = "bus" /\ BusNext
     /\ UNCHANGED <<focus, triggerVars, schedVars, delVars, stratVars>>
  \/ /\ focus = "triggers" /\ TriggerNext
     /\ UNCHANGED <<focus, busVars, schedVars, delVars, stratVars>>
  \/ /\ focus = "scheduler" /\ SchedNext
     /\ UNCHANGED <<focus, busVars, triggerVars, delVars, stratVars>>
  \/ /\ focus = "delegation" /\ DelNext
     /\ UNCHANGED <<focus, busVars, triggerVars, schedVars, stratVars>>
  \/ /\ focus = "strategy" /\ StratNext
     /\ UNCHANGED <<focus, busVars, triggerVars, schedVars, delVars>>

Spec == Init /\ [][Next]_vars

-----------------------------------------------------------------------------
(* Constants *)

MCConsumers == <<"c1", "c2">>
MCWants == [c \in {"c1", "c2"} |-> IF c = "c1" THEN {"e1", "e2", "e3"} ELSE {"e2"}]
MCMarketEvents ==
  [e \in {"l1", "l2", "l3", "v1", "q1", "x1"} |->
     CASE e \in {"l1", "l2"} -> [kind |-> "market.token.launch", key |-> "A", value |-> 0]
       [] e = "l3" -> [kind |-> "market.token.launch", key |-> "blank", value |-> 0]
       [] e = "v1" -> [kind |-> "market.volume", key |-> "A", value |-> 5]
       [] e = "q1" -> [kind |-> "market.price", key |-> "B", value |-> 4]
       [] e = "x1" -> [kind |-> "risk.alert", key |-> "B", value |-> 0]]
MCThreshold == [k \in {"market.volume", "market.price"} |-> 5]
Part(lo, hi, step) == [lo |-> lo, hi |-> hi, step |-> step]
MCSchedules ==
  {[kind |-> "at", at |-> 3], [kind |-> "every", every |-> 3],
   [kind |-> "cron", minutes |-> {Part(0, 0, 1)}, hours |-> Star,
    days |-> {Part(1, 1, 1)}, months |-> Star, weekdays |-> {Part(1, 1, 1)}],
   [kind |-> "cron", minutes |-> {Part(0, 1, 2)}, hours |-> {Part(0, 0, 1)},
    days |-> Star, months |-> {Part(2, 2, 1)}, weekdays |-> {Part(7, 7, 1)}]}
MCKind == [s \in {"s1", "s2"} |-> IF s = "s1" THEN "dca" ELSE "trailing_stop"]
MCTarget == [s \in {"s1", "s2"} |-> IF s = "s1" THEN 5 ELSE 0]
=============================================================================
