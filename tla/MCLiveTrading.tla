--------------------------- MODULE MCLiveTrading ---------------------------
(* Small instances of LiveTrading for TLC.                                 *)
EXTENDS LiveTrading, TLC

CONSTANTS k1, k2, q1, q2, c1, c2, h1

OneCall == (c1 :> h1)
OneHost == (c1 :> h1 @@ c2 :> h1)

\* Two executions whose signatures are stored, k1 before k2: k1 never reached the cluster
\* and nobody has looked since, k2 is about to be broadcast.
Stranded(k) == [state |-> "submitting", quote |-> IF k = k1 THEN q1 ELSE q2, approvalId |-> TRUE,
                auth |-> 1, signature |-> TRUE, same |-> TRUE, before |-> {k1} \ {k}]

LaterInit ==
  /\ ex = [k \in Keys |-> Stranded(k)]
  /\ approval = [k \in Keys |-> "consumed"]
  /\ resv = (q1 :> "none" @@ q2 :> "reserved")
  /\ issued = [k \in Keys |-> 1] /\ daemon = [k \in Keys |-> [n \in Auths |-> "signed"]]
  /\ chain = [q \in Quotes |-> "none"]
  /\ known = [h \in Hosts |-> {}] /\ timer \in SUBSET Hosts
  /\ call = [c \in Calls |-> [Idle EXCEPT !.at = "broadcast", !.key = k2]]
  /\ dead = {q1} /\ stale = Quotes /\ forgotten = {}

LaterSpec == LaterInit /\ [][Next]_vars /\ Fairness

\* Operations of one process are interchangeable, and so are keys
Symmetry == Permutations(Calls) \cup Permutations(Keys)
=============================================================================
