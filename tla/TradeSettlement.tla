-------------------------- MODULE TradeSettlement --------------------------
(***************************************************************************)
(* What the kernel's money path promises of one trade, seen from outside:  *)
(* money is set aside before there is a row, stays set aside as long as    *)
(* the row is open, and the trade is settled at one instant, when the row  *)
(* is closed and its money is spent or given back.  Nothing happens to a   *)
(* settled trade.                                                          *)
(*                                                                         *)
(* There is no process here, no crash and no recovery, and no state in     *)
(* which the money of a trade is written and its row is not.               *)
(***************************************************************************)
CONSTANT Trades

VARIABLES
  row,     \* of each trade: none, open, confirmed or failed
  money,   \* of each trade: none (a sell), held, spent or free again
  landed   \* the trades the cluster executed

vars == <<row, money, landed>>

Init ==
  /\ row = [t \in Trades |-> "none"]
  /\ money = [t \in Trades |-> "none"]
  /\ landed = {}

\* The money is set aside
Hold(t) ==
  /\ row[t] = "none" /\ money[t] = "none"
  /\ money' = [money EXCEPT ![t] = "held"]
  /\ UNCHANGED <<row, landed>>

\* The trade is given up before it had a row
Drop(t) ==
  /\ row[t] = "none" /\ money[t] = "held"
  /\ money' = [money EXCEPT ![t] = "free"]
  /\ UNCHANGED <<row, landed>>

\* Only a trade whose money is still set aside, or that needs none, is begun
Open(t) ==
  /\ row[t] = "none" /\ money[t] \in {"none", "held"}
  /\ row' = [row EXCEPT ![t] = "open"]
  /\ UNCHANGED <<money, landed>>

\* Only what has a row reaches the cluster, which may execute it at any time,
\* after the row was closed too
Land(t) ==
  /\ row[t] # "none" /\ t \notin landed
  /\ landed' = landed \cup {t}
  /\ UNCHANGED <<row, money>>

\* Only what landed is confirmed, and its money is spent
Confirm(t) ==
  /\ row[t] = "open" /\ t \in landed
  /\ row' = [row EXCEPT ![t] = "confirmed"]
  /\ money' = [money EXCEPT ![t] = IF @ = "held" THEN "spent" ELSE @]
  /\ UNCHANGED landed

\* The money of a failed trade is free again; it may stay spent only when the
\* trade did land
Fail(t) ==
  /\ row[t] = "open"
  /\ row' = [row EXCEPT ![t] = "failed"]
  /\ \E end \in IF t \in landed THEN {"free", "spent"} ELSE {"free"} :
       money' = [money EXCEPT ![t] = IF @ = "held" THEN end ELSE @]
  /\ UNCHANGED landed

Next == \E t \in Trades : \/ Hold(t) \/ Drop(t) \/ Open(t) \/ Land(t) \/ Confirm(t)
                          \/ Fail(t)

Spec == Init /\ [][Next]_vars
=============================================================================
