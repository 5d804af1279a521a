----------------------------- MODULE MCJobQueue -----------------------------
(* A small instance of JobQueue for TLC.                                    *)
EXTENDS JobQueue, TLC

CONSTANTS j1, w1, w2, s1, s2, s3

\* Two worker processes; the first runs two slots under one worker id.
MCWorkerOf   == s1 :> w1 @@ s2 :> w1 @@ s3 :> w2
MCThreeTries == [j \in Jobs |-> 3]
=============================================================================
