----------------------------- MODULE Simulation -----------------------------
(***************************************************************************)
(* The execution gateway (src/execution/gateway.ts): a transaction is      *)
(* simulated by a node (src/execution/rpc-simulator.ts), the evidence is   *)
(* judged (src/execution/simulation.ts), and what was authorized is signed *)
(* and sent.  The chain moves on between any two requests, and the node    *)
(* may answer from any of its slots.  Block height and slot are one.       *)
(*                                                                         *)
(* A prepared transaction is [wire, cluster, lastValid, writable]; the     *)
(* instructions of its wire (see SignPolicy) carry in `does` what their    *)
(* programs make of the accounts, which no code here reads.                *)
(***************************************************************************)
EXTENDS SignPolicy

CONSTANTS
  Prepared,        \* the transactions handed to prepare
  Cluster, Pinned, \* of the simulator: its cluster and lookup tables
  MaxObserved, MaxDrift, MaxLag,
  Allowed,         \* assets the trade may move
  Addresses, Accounts0,
  Others,          \* changes other transactions make, as `does`
  PolicyFiles,     \* what the signer may find as its policy file
  Wallet,          \* its key
  BaseFee,         \* lamports the cluster charges for a signature
  MaxSlot

VARIABLES
  chain,    \* the accounts at every slot
  sim,      \* the host's call of prepare
  slotRow,  \* the authorization's row in the host's replay store
  onWire,   \* transactions that reached the network
  file      \* the signer's policy file
simVars == <<chain, sim, slotRow, onWire, file>>

Slot == Len(chain)
NoAccount == [lamports |-> 0, mint |-> "none", amount |-> 0]

-----------------------------------------------------------------------------
(* What programs do (external) *)

Change(account, c) ==
  IF c.kind = "lamports" THEN [account EXCEPT !.lamports = @ + c.n]
  ELSE IF c.kind = "tokens" THEN [account EXCEPT !.amount = @ + c.n]
  ELSE IF c.kind = "open" THEN [lamports |-> 1, mint |-> c.mint, amount |-> c.n]
  ELSE NoAccount
Apply(accounts, does) ==
  [a \in Addresses |-> IF a \in DOMAIN does THEN Change(accounts[a], does[a]) ELSE accounts[a]]

\* The cluster charges the fee payer: for every signature, and for the priority that the
\* compute budget's own instructions ask for
Asking(wire, discriminator) ==
  {n \in DOMAIN wire.instructions :
     /\ ProgramOf(wire, wire.instructions[n]) = ComputeBudget
     /\ IsPrefix(discriminator, wire.instructions[n].data)}
AskedFee(wire) == FeeOf(wire, Asking(wire, SetUnitLimit), Asking(wire, SetUnitPrice))
Fee(wire) == BaseFee * wire.required + AskedFee(wire)
Charged(accounts, wire) == [accounts EXCEPT ![FeePayer(wire)].lamports = @ - Fee(wire)]
RunAll(accounts, wire) ==
  FoldLeft(LAMBDA acc, ix : Apply(acc, ix.does), Charged(accounts, wire), wire.instructions)
Succeeds(accounts) ==
  \A a \in Addresses :
    /\ accounts[a].lamports >= 0 /\ accounts[a].amount >= 0
    /\ accounts[a].mint = "none" => accounts[a].amount = 0

\* What instruction n takes out of the wallet
LamportsOut(t, n) ==
  LET does == t.wire.instructions[n].does
  IN  IF Wallet \in DOMAIN does /\ does[Wallet].kind = "lamports" THEN 0 - does[Wallet].n ELSE 0

\* The rules an operator writes describe the programs: an instruction takes no more out of
\* the wallet than the spend rule it matches reads, nothing if it matches another, and
\* what sets the compute budget matches the fee rule for it.
ASSUME RulesAssumption ==
  \A f \in PolicyFiles, t \in Prepared :
    InstructionsAllowed(f.policy, t.wire) =>
      /\ \A n \in DOMAIN t.wire.instructions :
           /\ LamportsOut(t, n) \in Int /\ Amount(f.policy, t.wire, n) \in Int
           /\ LamportsOut(t, n) <= IF n \in Spending(f.policy, t.wire, Native)
                                   THEN Amount(f.policy, t.wire, n) ELSE 0
      /\ \A d \in {SetUnitLimit, SetUnitPrice} :
           Asking(t.wire, d) = Setting(f.policy, t.wire, d)
ASSUME PreparedAssumption ==
  /\ \A f \in PolicyFiles :
       /\ \A a \in DOMAIN f.policy.caps : f.policy.caps[a] \in Nat
       /\ f.policy.maxFee \in Nat /\ f.policy.maxSignatures \in Nat
  /\ \A t \in Prepared :
       /\ t.writable \subseteq Addresses /\ IsFiniteSet(DOMAIN t.wire.instructions)
       /\ t.wire.required \in Nat /\ AskedFee(t.wire) \in Nat
  /\ BaseFee \in Nat
  /\ Succeeds(Accounts0)

-----------------------------------------------------------------------------
(* simulate *)

Idling == [phase |-> "idle"]
Going(phase) == sim' = [sim EXCEPT !.phase = phase]
Refused == sim' = Idling
Waits(phase) == sim.phase = phase /\ UNCHANGED <<chain, slotRow, onWire, file>>

\* No call is under way: the host has nothing, or the evidence prepare returned
Free == sim.phase \in {"idle", "simulated"}

\* prepare, buildSimulationRequest and simulate's checks before its first request; the
\* caller read the slot beforehand, and may know the block height
Prepare(t, height) ==
  /\ Free /\ UNCHANGED <<chain, slotRow, onWire, file>>
  /\ IF t.lastValid >= 0 /\ Decodes(t.wire) /\ t.cluster = Cluster
     THEN sim' = [phase |-> "genesis", tx |-> t, current |-> Slot, height |-> height]
     ELSE Refused

\* getGenesisHash
Genesis(named) ==
  /\ Waits("genesis")
  /\ IF named = Cluster THEN Going("tables") ELSE Refused

\* lookupTables, which asks only for pinned tables, and writableAccounts
ResolveTables(found) ==
  /\ Waits("tables")
  /\ IF /\ \A l \in sim.tx.wire.lookups : l.table \in Pinned /\ found
        /\ Cardinality(sim.tx.writable) <= MaxObserved
     THEN Going("pre") ELSE Refused

\* getMultipleAccounts; a list that is not there is an empty one
PreRead(slot, listed) ==
  /\ Waits("pre")
  /\ sim' = [phase |-> "simulate", tx |-> sim.tx, current |-> sim.current,
             height |-> sim.height, preSlot |-> slot,
             pre |-> [a \in sim.tx.writable |-> IF listed THEN chain[slot][a] ELSE NoAccount]]

\* simulateTransaction, at another slot; a failure is an answer assertSimulationSafe refuses
SimulateAt(slot, answer) ==
  LET after == RunAll(chain[slot], sim.tx.wire)
  IN  /\ Waits("simulate")
      /\ IF /\ slot >= sim.preSlot /\ slot - sim.preSlot <= MaxDrift
            /\ Succeeds(after) /\ answer = "accounts and logs"
         THEN sim' = [phase |-> "fee", tx |-> sim.tx, current |-> sim.current,
                      height |-> sim.height, pre |-> sim.pre, slot |-> slot,
                      post |-> [a \in sim.tx.writable |-> after[a]]]
         ELSE Refused

\* getFeeForMessage: no fee once the blockhash is unknown
FeeFor ==
  /\ Waits("fee")
  /\ IF Slot <= sim.tx.lastValid THEN Going("assess") ELSE Refused

\* A request of these fails or times out
RpcFails ==
  /\ sim.phase \in {"genesis", "tables", "pre", "simulate", "fee"} /\ Refused
  /\ UNCHANGED <<chain, slotRow, onWire, file>>

\* tokenAccount of either state
IsToken(account) == account.mint # "none"
IdentityChanged(a) ==
  IsToken(sim.post[a]) /\ IsToken(sim.pre[a]) /\ sim.pre[a].mint # sim.post[a].mint

\* The assets of assetDeltas: of accounts that are token accounts afterwards, and lamports
TokenDeltas ==
  {sim.post[a].mint : a \in {x \in sim.tx.writable :
     /\ IsToken(sim.post[x])
     /\ sim.post[x].amount # (IF IsToken(sim.pre[x]) THEN sim.pre[x].amount ELSE 0)}}
NativeDeltas ==
  IF \E a \in sim.tx.writable : sim.post[a].lamports # sim.pre[a].lamports THEN {Native} ELSE {}

\* assertSimulationSafe
AssertSimulationSafe ==
  /\ sim.slot <= sim.current /\ sim.current - sim.slot <= MaxLag
  /\ sim.height => sim.current <= sim.tx.lastValid
  /\ TokenDeltas \cup NativeDeltas \subseteq Allowed

Assess ==
  /\ Waits("assess")
  /\ IF (\A a \in sim.tx.writable : ~IdentityChanged(a)) /\ AssertSimulationSafe
     THEN Going("simulated") ELSE Refused

-----------------------------------------------------------------------------
(* execute *)

Row(status) == slotRow' = status
Sent == onWire' = onWire \cup {sim.tx}
Steps(phase) == sim.phase = phase /\ UNCHANGED <<chain, file>>

\* execute takes any transaction that comes with an envelope, whatever was prepared;
\* wireVerifier.verify claims the authorization
Claim(t) ==
  /\ Free /\ slotRow = "none"
  /\ Row("claimed") /\ sim' = [phase |-> "sign", tx |-> t] /\ UNCHANGED <<chain, onWire, file>>

\* The signer, if its policy loaded, decides for itself; it answers, answers with other bytes, or throws.  A
\* daemon may have sent the transaction before it answers.
SignAnswer(answer, daemonSent) ==
  LET allowed == PolicyLoads(file) /\ EvaluatePolicy(file.policy, sim.tx.wire, Wallet)
  IN  /\ Steps("sign")
      /\ IF allowed /\ daemonSent THEN Sent ELSE UNCHANGED onWire
      /\ IF ~allowed \/ answer # "signed"
         THEN Row("failed") /\ Refused
         ELSE Row("signed") /\ Going(IF daemonSent THEN "check" ELSE "broadcast")

\* The signature the daemon reports must be the signed one
DaemonBroadcast(same) ==
  /\ Steps("check") /\ Refused /\ UNCHANGED onWire
  /\ Row(IF same THEN "broadcast" ELSE "reconciliation")

\* broadcast of the signed bytes; a throw, or another signature, needs reconciliation
HostBroadcast(sent, answer) ==
  /\ Steps("broadcast") /\ Refused
  /\ answer = "same" => sent
  /\ IF sent THEN Sent ELSE UNCHANGED onWire
  /\ Row(IF answer = "same" THEN "broadcast" ELSE "reconciliation")

\* The chain moves on under the simulation; the host dies
OtherTransaction(does) ==
  /\ Slot < MaxSlot /\ Succeeds(Apply(chain[Slot], does))
  /\ chain' = Append(chain, Apply(chain[Slot], does))
  /\ UNCHANGED <<sim, slotRow, onWire, file>>
HostDies == sim # Idling /\ Refused /\ UNCHANGED <<chain, slotRow, onWire, file>>

SimInit ==
  /\ chain = <<Accounts0>> /\ sim = Idling /\ slotRow = "none" /\ onWire = {}
  /\ file \in PolicyFiles

SimNext ==
  \/ \E t \in Prepared, height \in BOOLEAN : Prepare(t, height)
  \/ \E t \in Prepared : Claim(t)
  \/ \E named \in {Cluster, "another"} : Genesis(named)
  \/ \E found \in BOOLEAN : ResolveTables(found)
  \/ \E slot \in 1..Slot, listed \in BOOLEAN : PreRead(slot, listed)
  \/ \E slot \in 1..Slot, answer \in {"accounts and logs", "incomplete"} : SimulateAt(slot, answer)
  \/ FeeFor \/ Assess \/ RpcFails \/ HostDies
  \/ \E answer \in {"signed", "other bytes", "throws"}, b \in BOOLEAN : SignAnswer(answer, b)
  \/ \E same \in BOOLEAN : DaemonBroadcast(same)
  \/ \E sent \in BOOLEAN, answer \in {"same", "another", "throws"} : HostBroadcast(sent, answer)
  \/ \E does \in Others : OtherTransaction(does)

SimSpec == SimInit /\ [][SimNext]_simVars

-----------------------------------------------------------------------------
(* Properties *)

SameState == sim.pre = [a \in sim.tx.writable |-> chain[sim.slot][a]]

\* What a transaction takes out of the wallet, the fees included that it pays
Taken(t) ==
  SumFunctionOnSet([n \in DOMAIN t.wire.instructions |-> LamportsOut(t, n)], DOMAIN t.wire.instructions)
    + Fee(t.wire)

\* The most a policy lets go: without a cap on lamports no instruction may take any; fees
\* have ceilings of their own and are not held against the cap
MostTaken(policy) ==
  (IF Native \in DOMAIN policy.caps THEN policy.caps[Native] ELSE 0)
    + policy.maxFee + BaseFee * policy.maxSignatures

Holding(account, mint) == IF account.mint = mint THEN account.amount ELSE 0

\* However a transaction is composed, and whether or not prepare ever saw it, what it takes
\* out of the wallet once it can reach the network is within the cap and the fee ceilings
\* together: the signer judges the total of the instructions and the fee, never one of
\* them.  And when the state before was the one simulated, prepare returns no transaction
\* that leaves an account with more or less of a mint outside allowedAssets, accounts it
\* opens itself and accounts that turn into another mint's included; the one change it
\* lets pass is that the account is no token account any more, emptied and closed.
SentIsSafe ==
  /\ \A t \in onWire : Taken(t) <= MostTaken(file.policy)
  /\ sim.phase = "simulated" /\ SameState =>
       \A a \in sim.tx.writable :
         LET before == chain[sim.slot][a]
             after == RunAll(chain[sim.slot], sim.tx.wire)[a]
         IN  \A mint \in {before.mint, after.mint} \ (Allowed \cup {"none"}) :
               Holding(after, mint) # Holding(before, mint) => ~IsToken(after)
=============================================================================
