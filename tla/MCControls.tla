------------------------------ MODULE MCControls ------------------------------
(***************************************************************************)
(* Small instances of what stands between a request and its broadcast: the *)
(* approval engine, the signer with its replay store, and the reservation  *)
(* ledger.  Each has a database of its own, so one behaviour moves one of  *)
(* them (`focus`); LiveTrading models how the orchestrator uses them.      *)
(***************************************************************************)
EXTENDS Approvals, Signer, ReservationLedger, TLC

CONSTANTS
  m1,     \* the message of every authorization
  Parts   \* the components this run looks at

VARIABLE focus

vars == <<focus, engineVars, signerVars, ledgerVars>>

\* a component out of focus waits in one initial state of its own
Init ==
  /\ focus \in Parts
  /\ EngineInit /\ SignerInit /\ LedgerInit
  /\ focus # "approvals" =>
       /\ approvers = [p \in Processes |-> Operators]
       /\ \A r \in Requests : request[r].proposer = CHOOSE o \in Operators : TRUE
  /\ focus # "ledger" => client = "adapter"

Next ==
  \/ focus = "approvals" /\ EngineNext /\ UNCHANGED <<focus, signerVars, ledgerVars>>
  \/ focus = "signer" /\ SignerNext /\ UNCHANGED <<focus, engineVars, ledgerVars>>
  \/ focus = "ledger" /\ LedgerNext /\ UNCHANGED <<focus, engineVars, signerVars>>

Spec == Init /\ [][Next]_vars

-----------------------------------------------------------------------------
(* Constants *)

MCMessageOf == [a \in Auths |-> m1]
MCLastValid == [m \in Messages |-> 1]
\* The members of each set are interchangeable.  Ids and Denoms have the members
\* of the two sets named here: one component moves at a time.
MCSymmetry == Permutations(Nonces) \cup Permutations(Reconcilers)
=============================================================================
