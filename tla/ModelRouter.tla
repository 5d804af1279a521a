----------------------------- MODULE ModelRouter -----------------------------
(***************************************************************************)
(* The model router and the OpenAI-compatible transport                    *)
(* (src/agent/models/index.ts): which candidates a request may go to, in   *)
(* which order, and what an attempt's outcome leads to.  Token counts and  *)
(* prices are small numbers, a message is opaque.                          *)
(***************************************************************************)
EXTENDS Integers, Sequences, FiniteSets, SequencesExt

CONSTANTS
  Candidates,   \* sequence of [id, window, tools, inCost, outCost, transport]
  MaxRetries    \* of one candidate

-----------------------------------------------------------------------------
(* The transport *)

\* What comes back over HTTP: a status, or a body.  A body has calls, each with an id
\* (a tuple; NoId when the server leaves it out) and arguments that parse or do not.
NoId == <<>>

\* A missing id is made up from the position
CallId(calls, n) == IF calls[n].id = NoId THEN <<"call", n>> ELSE calls[n].id

\* responseSchema, the ids and parseArguments
ParsesAs(reply) ==
  /\ reply.shaped
  /\ \A n \in DOMAIN reply.calls : reply.calls[n].json
  /\ \A n, k \in DOMAIN reply.calls : n # k => CallId(reply.calls, n) # CallId(reply.calls, k)

\* complete: the error an attempt throws, or "ok"
Outcome(reply) ==
  CASE reply.status = "unreachable" -> "network"
    [] reply.status = "429" -> "429"
    [] reply.status \in {"408", "425", "5xx"} -> "retry"
    [] reply.status = "4xx" -> "refused"
    [] reply.status = "200" /\ ~ParsesAs(reply) -> "syntax"
    [] reply.status = "200" /\ ParsesAs(reply) -> "ok"

\* The calls as the runtime sees them
Parsed(reply) == [n \in DOMAIN reply.calls |->
  [id |-> CallId(reply.calls, n), name |-> reply.calls[n].name]]

-----------------------------------------------------------------------------
(* The router *)

\* classifyModelError
Class(error) ==
  [retryable   |-> error \in {"429", "retry", "network"},
   fallback    |-> error \in {"429", "retry", "network", "syntax"},
   rateLimited |-> error = "429"]

Cost(c, request) == c.inCost * request.context + c.outCost * request.output

\* eligible: big enough, knows the tools, not rate limited; the cheapest first, in
\* the configured order among equals (the sort is stable)
Fits(c, request, blocked) ==
  /\ c.window >= request.context + request.output
  /\ request.tools \subseteq c.tools
  /\ c.id \notin blocked
Eligible(request, blocked) ==
  LET fit == {n \in DOMAIN Candidates : Fits(Candidates[n], request, blocked)}
      Before(n, k) ==
        \/ Cost(Candidates[n], request) < Cost(Candidates[k], request)
        \/ Cost(Candidates[n], request) = Cost(Candidates[k], request) /\ n < k
  IN  [p \in 1..Cardinality(fit) |->
         Candidates[CHOOSE n \in fit : Cardinality({k \in fit : Before(k, n)}) = p - 1]]

\* complete's two loops.  A walk: [left, attempt, last]; candidates whose transport
\* is not configured are passed over.
Walk(left) == [left |-> SelectSeq(left, LAMBDA c : c.transport), attempt |-> 0, last |-> "none"]

\* What an error does to the walk: the same candidate again, the next, or the end
AfterError(w, error) ==
  IF Class(error).retryable /\ ~Class(error).rateLimited /\ w.attempt < MaxRetries
  THEN [w EXCEPT !.attempt = @ + 1, !.last = error]
  ELSE IF Class(error).fallback
  THEN [left |-> Tail(w.left), attempt |-> 0, last |-> error]
  ELSE [left |-> <<>>, attempt |-> 0, last |-> error]

\* recordRateLimit and recordSuccess, in the health tracker
BlockedAfter(blocked, c, error) ==
  IF error = "ok" THEN blocked \ {c.id}
  ELSE IF Class(error).rateLimited THEN blocked \cup {c.id}
  ELSE blocked
=============================================================================
