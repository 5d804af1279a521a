------------------------------ MODULE MCRuntime ------------------------------
(***************************************************************************)
(* Small instances of the agent's surroundings for TLC: the agent loop,    *)
(* the session store, the operator console with the kernel's guards, the   *)
(* ways in from outside, and the execution gateway.  They share no state,  *)
(* so one behaviour moves a part of one (`focus`).                          *)
(***************************************************************************)
EXTENDS Channels, AgentRuntime, Sessions, Console, Simulation

CONSTANT Parts   \* the components this run looks at

VARIABLE focus

vars == <<focus, agentVars, storeVars, consoleVars, channelVars, simVars>>

\* a component out of focus waits in one initial state of its own
Init ==
  /\ focus \in Parts
  /\ AgentInit /\ StoreInit /\ ConsoleInit /\ ChannelInit /\ SimInit
  /\ focus \notin {"access", "snapshots"} => boot = CHOOSE b \in Boots : TRUE
  /\ focus # "gateway" => file = CHOOSE f \in PolicyFiles : TRUE

Next ==
  \/ focus = "agent" /\ AgentNext
     /\ UNCHANGED <<focus, storeVars, consoleVars, channelVars, simVars>>
  \/ focus = "history" /\ HistoryNext
     /\ UNCHANGED <<focus, agentVars, consoleVars, channelVars, simVars>>
  \/ /\ focus = "records"
     /\ RecordNext \/ CreateSession("s", "root", "root")
          \/ AppendMessage("m", "s", TRUE)
     /\ UNCHANGED <<focus, agentVars, consoleVars, channelVars, simVars>>
  \/ focus = "access" /\ AccessNext
     /\ UNCHANGED <<focus, agentVars, storeVars, channelVars, simVars>>
  \/ focus = "snapshots" /\ SnapshotNext
     /\ UNCHANGED <<focus, agentVars, storeVars, channelVars, simVars>>
  \/ focus = "telegram" /\ TelegramNext
     /\ UNCHANGED <<focus, agentVars, storeVars, consoleVars, simVars>>
  \/ focus = "core" /\ GatewayNext
     /\ UNCHANGED <<focus, agentVars, storeVars, consoleVars, simVars>>
  \/ focus = "gateway" /\ SimNext
     /\ UNCHANGED <<focus, agentVars, storeVars, consoleVars, channelVars>>

Spec == Init /\ [][Next]_vars

-----------------------------------------------------------------------------
(* Constants: the agent *)

Candidate(id, window, cost) ==
  [id |-> id, window |-> window, tools |-> {"quote", "swap"}, inCost |-> cost, outCost |-> cost,
   transport |-> TRUE]
MCCandidates == <<Candidate("large", 8, 3), Candidate("small", 2, 1)>>
MCTools == ("quote" :> [effect |-> "read", denied |-> FALSE])
        @@ ("swap" :> [effect |-> "trade", denied |-> FALSE])
        @@ ("export" :> [effect |-> "read", denied |-> TRUE])
Status(s) == [status |-> s, shaped |-> TRUE, calls |-> <<>>]
Calls(calls) == [status |-> "200", shaped |-> TRUE, calls |-> calls]
CallOf(id, name) == [id |-> id, name |-> name, json |-> TRUE]
MCReplies ==
  {Status("unreachable"), Status("429"), Status("4xx"), Status("200"),
   Calls(<<CallOf(<<>>, "swap")>>), Calls(<<CallOf(<<"a">>, "quote"), CallOf(<<"b">>, "swap")>>),
   Calls(<<CallOf(<<"a">>, "export")>>)}

-----------------------------------------------------------------------------
(* Constants: the console and the kernel's guards *)

MCBoots == {[live |-> TRUE, custody |-> TRUE],
            [live |-> FALSE, custody |-> TRUE],
            [live |-> TRUE, custody |-> FALSE]}
Intent(kind, amount, perp, out, min, fee) ==
  [kind |-> kind, known |-> TRUE, built |-> TRUE, amount |-> amount, mint |-> "sol", out |-> "x",
   perp |-> perp, untrusted |-> FALSE, fee |-> fee, slippage |-> 3, outAmount |-> out, minOut |-> min]
NoPerp == [given |-> FALSE, base |-> 0, minBase |-> 0]
MCIntents ==
  {Intent("swap", 40, NoPerp, out, min, 2) : out \in {0, 30}, min \in {26, 27, 28}}
    \cup {Intent("swap", 40, NoPerp, 30, 30, 3),
          Intent("perp_close", 0, [given |-> TRUE, base |-> 1, minBase |-> 1], 30, 30, 3),
          [Intent("swap", 40, NoPerp, 30, 30, 2) EXCEPT !.untrusted = TRUE]}
MCLimits == [maxFee |-> 3, maxFeeBps |-> 5, maxSlippage |-> 5, denied |-> {"y"}, listed |-> FALSE,
             allowed |-> {}]

-----------------------------------------------------------------------------
(* Constants: the ways in *)

Text(user) == [text |-> TRUE, user |-> user, chat |-> "c"]
MCUpdates == (1 :> Text("op")) @@ (2 :> Text("stranger")) @@ (4 :> Text("op"))
Frame(body, key, principal) ==
  [method |-> "trade", body |-> body, key |-> key, principal |-> principal, session |-> "s"]
MCFrames == {Frame("buy", "k", "alice"), Frame("sell", "k", "alice"), Frame("buy", "k", "bob"),
             [Frame("buy", "k", "bob") EXCEPT !.method = "unknown"]}

-----------------------------------------------------------------------------
(* Constants: the execution gateway *)

\* a wallet, its token account of an allowed mint, one of another mint, a stranger's account
MCAddresses == {"wallet", "good", "bad", "other"}
Holds(lamports, mint, amount) == [lamports |-> lamports, mint |-> mint, amount |-> amount]
MCAccounts0 == [a \in MCAddresses |->
  CASE a = "wallet" -> Holds(9, "none", 0) [] a = "good" -> Holds(1, "good", 2)
    [] a = "bad" -> Holds(1, "bad", 2)     [] a = "other" -> Holds(0, "none", 0)]
Of(kind, n, mint) == [kind |-> kind, n |-> n, mint |-> mint]
Ix(data, does) == [program |-> 2, accounts |-> <<1>>, data |-> data, does |-> does]
Pay(n) == Ix(<<7, n>>, "wallet" :> Of("lamports", 0 - n, "none"))
BuyGood(n) == Ix(<<8>>, "good" :> Of("tokens", n, "good"))
Price(n) == [Ix(<<3, n>>, <<>>) EXCEPT !.program = 3]
OpenBad == Ix(<<8>>, "other" :> Of("open", 1, "bad"))
BurnBad == Ix(<<8>>, "bad" :> Of("tokens", -2, "bad"))
CloseBad == Ix(<<8>>, "bad" :> Of("close", 0, "bad"))
TurnBad == Ix(<<8>>, "bad" :> Of("open", 2, "good"))
Wire(instructions) ==
  [canonical |-> TRUE, keys |-> <<"wallet", "dex", "compute-budget">>, lookups |-> {[table |-> "t", size |-> 1]},
   required |-> 1, signatures |-> <<"none">>, instructions |-> instructions]
Tx(instructions, writable) ==
  [wire |-> Wire(instructions), cluster |-> "main", lastValid |-> 2, writable |-> writable]
MCPrepared ==
  {Tx(<<Pay(3), BuyGood(1)>>, {"wallet", "good"}), Tx(<<Pay(3), Pay(3)>>, {"wallet"}),
   Tx(<<Pay(1), OpenBad>>, {"wallet", "other"}), Tx(<<BurnBad>>, {"wallet", "bad"}),
   Tx(<<Price(1), Pay(3)>>, {"wallet"}), Tx(<<Price(2), Pay(3)>>, {"wallet"}),
   Tx(<<BurnBad, CloseBad>>, {"wallet", "bad"}), Tx(<<TurnBad>>, {"wallet", "bad"}),
   [Tx(<<Pay(3)>>, {"wallet"}) EXCEPT !.cluster = "test"]}
MCOthers == {"good" :> Of("tokens", 1, "good"), "wallet" :> Of("lamports", -1, "none")}
Rule(program, discriminator, effect) ==
  [program |-> program, discriminator |-> discriminator, effect |-> effect, asset |-> "native",
   offset |-> 1, mintIndex |-> -1]
PolicyFile(private, caps) ==
  [plain |-> TRUE, private |-> private, version |-> 1,
   policy |-> [feePayers |-> {"wallet"},
               programs |-> {Rule("dex", <<7>>, "spend"), Rule("dex", <<8>>, "none"),
                             Rule("compute-budget", <<3>>, "fee")},
               maxSignatures |-> 1, maxKeys |-> 4, maxInstructions |-> 2, tables |-> {"t"},
               maxUnits |-> 8, maxUnitPrice |-> 5, maxFee |-> 1, maxFeeBps |-> 34,
               caps |-> caps]]
MCPolicyFiles ==
  {PolicyFile(TRUE, "native" :> 3), PolicyFile(FALSE, "native" :> 3), PolicyFile(TRUE, "good" :> 3)}
=============================================================================
