-------------------------- MODULE MCKernelGateway --------------------------
(* Small instances of KernelGateway for TLC.                               *)
EXTENDS KernelGateway, TLC

CONSTANTS t1, t2, k1, k2

\* Windows of one and two units of time, with caps of 2 and 3
MCCap    == (1 :> 2 @@ 2 :> 3)
Symmetry == Permutations(Trades) \cup Permutations(Keys)
=============================================================================
