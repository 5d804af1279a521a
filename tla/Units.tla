------------------------------- MODULE Units -------------------------------
(***************************************************************************)
(* The units of the venues: amounts count in base units, ratios in basis   *)
(* points.  Both are parameters, small in the instances.                   *)
(***************************************************************************)
EXTENDS Integers

CONSTANTS
  Bps,   \* basis points in one (10 000 in the code)
  Sol    \* base units in one SOL

ASSUME UnitsAssumption == Bps \in Nat \ {0} /\ Sol \in Nat
=============================================================================
