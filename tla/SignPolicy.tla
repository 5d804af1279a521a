----------------------------- MODULE SignPolicy -----------------------------
(***************************************************************************)
(* What is read out of a transaction's bytes and held against a policy, on *)
(* both sides of the custody boundary: the decoder                         *)
(* (src/signer/transaction.ts), the signer's policy (src/signer/policy.ts) *)
(* and the kernel's static guards (src/kernel/policy-engine.ts).           *)
(*                                                                         *)
(* A transaction is [canonical, keys, lookups, required, signatures,       *)
(* instructions], an instruction [program, accounts, data].  keys are the  *)
(* static account keys, program and accounts are indexes into them and,    *)
(* past their end, into what the lookup tables add.  data is a sequence of *)
(* fields: the discriminator's bytes, then amounts, one field each.        *)
(***************************************************************************)
EXTENDS Integers, Sequences, FiniteSets, SequencesExt, FiniteSetsExt, TLC

CONSTANTS
  UnitsPerInstruction, MaxUnits,   \* the cluster's compute limits
  MicroLamports,                   \* micro-lamports in a lamport
  Scale,                           \* basis points in one
  Tolerance                        \* of the min-out, in basis points

Missing == -1
ComputeBudget == "compute-budget"
SetUnitLimit == <<2>>
SetUnitPrice == <<3>>
Native == "native"

-----------------------------------------------------------------------------
(* decodeTransaction *)

TotalKeys(t) == Len(t.keys) + FoldLeft(LAMBDA n, l : n + l.size, 0, SetToSeq(t.lookups))

\* Bytes that do not encode themselves again, no keys, signatures that do not match the
\* header, no instructions, a program behind a lookup table, an account out of range
Decodes(t) ==
  /\ t.canonical
  /\ t.keys # <<>>
  /\ t.required \in 1..Len(t.keys) /\ Len(t.signatures) = t.required
  /\ t.instructions # <<>>
  /\ \A n \in DOMAIN t.instructions :
       /\ t.instructions[n].program \in 1..Len(t.keys)
       /\ \A k \in DOMAIN t.instructions[n].accounts :
            t.instructions[n].accounts[k] \in 1..TotalKeys(t)

FeePayer(t) == t.keys[1]
ProgramOf(t, ix) == t.keys[ix.program]
\* Missing where the address is only known to a lookup table
AccountOf(t, ix, k) == IF ix.accounts[k] <= Len(t.keys) THEN t.keys[ix.accounts[k]] ELSE Missing

-----------------------------------------------------------------------------
(* evaluatePolicy *)

\* readAmount: past the end of the data it throws
ReadAmount(data, offset) == IF offset + 1 \in DOMAIN data THEN data[offset + 1] ELSE Missing

\* matchRule: of the rules of the program that the data begins with, the longest
RulesOf(policy, program) == {r \in policy.programs : r.program = program}
Matching(policy, program, data) ==
  {r \in RulesOf(policy, program) : IsPrefix(r.discriminator, data)}
Longest(rules) == CHOOSE r \in rules : \A q \in rules : Len(q.discriminator) <= Len(r.discriminator)
RuleOf(policy, t, ix) == Longest(Matching(policy, ProgramOf(t, ix), ix.data))

\* The instructions a rule classifies with this effect
WithEffect(policy, t, effect) ==
  {n \in DOMAIN t.instructions : RuleOf(policy, t, t.instructions[n]).effect = effect}
Setting(policy, t, discriminator) ==
  {n \in WithEffect(policy, t, "fee") :
     RuleOf(policy, t, t.instructions[n]).discriminator = discriminator}

\* The asset a spend rule pins is the one the instruction names
MintAgrees(t, ix, rule) ==
  rule.mintIndex # Missing =>
    rule.mintIndex \in DOMAIN ix.accounts /\ AccountOf(t, ix, rule.mintIndex) = rule.asset

\* What leaves the wallet, per asset
Amount(policy, t, n) == ReadAmount(t.instructions[n].data, RuleOf(policy, t, t.instructions[n]).offset)
Assets(policy, t) ==
  {RuleOf(policy, t, t.instructions[n]).asset : n \in WithEffect(policy, t, "spend")}
Spending(policy, t, asset) ==
  {n \in WithEffect(policy, t, "spend") : RuleOf(policy, t, t.instructions[n]).asset = asset}

\* Fault: the last instruction of an asset stands for all of them
SpendLast(policy, t, asset) == Amount(policy, t, Max(Spending(policy, t, asset)))

Spend(policy, t, asset) ==
  SumFunctionOnSet([n \in Spending(policy, t, asset) |-> Amount(policy, t, n)],
                   Spending(policy, t, asset))

\* The compute limit these instructions ask for, or the cluster's default
UnitLimit(t, asked) ==
  LET default == UnitsPerInstruction * Len(t.instructions)
  IN  IF asked # {} THEN ReadAmount(t.instructions[CHOOSE n \in asked : TRUE].data, 1)
      ELSE IF default < MaxUnits THEN default ELSE MaxUnits
UnitPrice(t, asked) ==
  IF asked = {} THEN 0 ELSE ReadAmount(t.instructions[CHOOSE n \in asked : TRUE].data, 1)
\* rounded up: what is at risk
FeeOf(t, limits, prices) ==
  (UnitLimit(t, limits) * UnitPrice(t, prices) + MicroLamports - 1) \div MicroLamports
PriorityFee(policy, t) ==
  FeeOf(t, Setting(policy, t, SetUnitLimit), Setting(policy, t, SetUnitPrice))

\* Before the instructions are looked at
EnvelopeAllowed(policy, t, payer) ==
  /\ FeePayer(t) = payer /\ payer \in policy.feePayers
  /\ t.required <= policy.maxSignatures
  /\ Len(t.keys) <= policy.maxKeys
  /\ Len(t.instructions) <= policy.maxInstructions
  /\ \A l \in t.lookups : l.table \in policy.tables

\* Every instruction is classified and readable
InstructionsAllowed(policy, t) ==
  /\ \A n \in DOMAIN t.instructions :
       Matching(policy, ProgramOf(t, t.instructions[n]), t.instructions[n].data) # {}
  /\ \A n \in WithEffect(policy, t, "spend") :
       /\ MintAgrees(t, t.instructions[n], RuleOf(policy, t, t.instructions[n]))
       /\ Amount(policy, t, n) # Missing
  /\ \A n \in WithEffect(policy, t, "fee") : ReadAmount(t.instructions[n].data, 1) # Missing
  /\ Cardinality(Setting(policy, t, SetUnitLimit)) <= 1
  /\ Cardinality(Setting(policy, t, SetUnitPrice)) <= 1

FeesAllowed(policy, t) ==
  /\ UnitLimit(t, Setting(policy, t, SetUnitLimit)) <= policy.maxUnits
  /\ UnitPrice(t, Setting(policy, t, SetUnitPrice)) <= policy.maxUnitPrice
  /\ PriorityFee(policy, t) <= policy.maxFee
  /\ policy.maxFeeBps # Missing /\ Native \in Assets(policy, t) /\ Spend(policy, t, Native) > 0 =>
       PriorityFee(policy, t) <= (Spend(policy, t, Native) * policy.maxFeeBps) \div Scale

CapsAllow(policy, t) ==
  \A a \in Assets(policy, t) : a \in DOMAIN policy.caps /\ Spend(policy, t, a) <= policy.caps[a]

EvaluatePolicy(policy, t, payer) ==
  /\ Decodes(t)
  /\ EnvelopeAllowed(policy, t, payer)
  /\ InstructionsAllowed(policy, t)
  /\ FeesAllowed(policy, t)
  /\ CapsAllow(policy, t)

-----------------------------------------------------------------------------
(* loadSignPolicy *)

\* parseProgramRule
RuleLoads(r) ==
  /\ r.discriminator # <<>>
  /\ r.effect \in {"none", "fee", "spend"}
  /\ r.effect = "fee" => r.program = ComputeBudget /\ r.discriminator \in {SetUnitLimit, SetUnitPrice}
  /\ r.effect = "spend" /\ r.mintIndex # Missing => r.asset # Native

\* The file is a plain one, only its owner's, and says all of it
PolicyLoads(file) ==
  /\ file.plain /\ file.private /\ file.version = 1
  /\ file.policy.feePayers # {} /\ file.policy.programs # {}
  /\ \A r \in file.policy.programs : RuleLoads(r)
  /\ \A r, q \in file.policy.programs :
       r.program = q.program /\ r.discriminator = q.discriminator => r = q

-----------------------------------------------------------------------------
(* The kernel's static guards *)

\* Fault: per mille taken for basis points
SlippagePerMille(expected, actual) ==
  IF expected <= 0 THEN 0
  ELSE IF expected >= actual THEN ((expected - actual) * (Scale \div 10)) \div expected
  ELSE 0 - (((actual - expected) * (Scale \div 10)) \div expected)

\* slippageBps; the division truncates towards zero
SlippageBps(expected, actual) ==
  IF expected <= 0 THEN 0
  ELSE IF expected >= actual THEN ((expected - actual) * Scale) \div expected
  ELSE 0 - (((actual - expected) * Scale) \div expected)

IsPerp(kind) == kind \in {"perp_open", "perp_increase", "perp_reduce", "perp_close"}
PostsNothing(kind) == kind \in {"perp_reduce", "perp_close"}

\* An intent: [kind, known, amount, mint, out, perp, built, untrusted, fee, slippage,
\* outAmount, minOut]
SwitchesAllow(policy, dryRun) == ~policy.kill /\ (dryRun \/ policy.enabled)

ShapeAllows(i) ==
  /\ i.known /\ i.built
  /\ IF PostsNothing(i.kind) THEN i.amount >= 0 ELSE i.amount > 0
  /\ IsPerp(i.kind) => i.perp.given /\ i.perp.minBase <= i.perp.base /\ i.perp.base > 0
  /\ ~IsPerp(i.kind) => ~i.perp.given

FeeAllows(policy, i) ==
  /\ i.fee >= 0 /\ i.fee <= policy.maxFee
  /\ i.mint \in {"sol", "usdc"} /\ i.amount > 0 => i.fee <= (i.amount * policy.maxFeeBps) \div Scale

SlippageAllows(policy, i) ==
  /\ i.slippage <= policy.maxSlippage
  /\ SlippageBps(i.outAmount, i.minOut) <= policy.maxSlippage + Tolerance

MintsAllow(policy, i) ==
  \A m \in {i.mint, i.out} :
    m \notin policy.denied /\ (policy.listed => m \in policy.allowed)

StaticGuards(policy, i, dryRun, confirmed) ==
  /\ SwitchesAllow(policy, dryRun)
  /\ ShapeAllows(i)
  /\ i.untrusted => confirmed
  /\ FeeAllows(policy, i)
  /\ SlippageAllows(policy, i)
  /\ MintsAllow(policy, i)
=============================================================================
