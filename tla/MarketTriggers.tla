--------------------------- MODULE MarketTriggers ---------------------------
(***************************************************************************)
(* MarketTriggerEngine (autonomy/events): market events become triggers,   *)
(* each event once, one key at most once per cooldown and only after it    *)
(* was pending for the debounce time.  The tables survive the process,     *)
(* which may die after evaluate's first statement or between flush's       *)
(* deletions and its emissions (its deletions are one step here).          *)
(***************************************************************************)
EXTENDS Integers, Sequences, FiniteSets, Functions

CONSTANTS
  MarketEvents,  \* events, a function from their ids to [kind, key, value]
  Threshold,     \* liquidityAbove, priceAbove and volumeAbove by event type
  Cooldown,
  Debounces,     \* the debounce times an engine may be configured with
  MaxTriggerTime \* bound on the clock

\* The events are a finite table; times are numbers
ASSUME TriggerAssumption ==
  /\ IsFiniteSet(DOMAIN MarketEvents)
  /\ Cooldown \in Nat /\ Debounces \subseteq Nat /\ MaxTriggerTime \in Nat

VARIABLES
  debounce,      \* the engine's debounceMs
  clock,         \* now()
  seenIds,       \* trigger_ids
  pending,       \* trigger_pending: start by key
  lastFired,     \* trigger_fired: time by key
  due,           \* keys flush() has deleted and will emit, in order
  emitted        \* the triggers handed to the caller, with their times

triggerVars == <<debounce, clock, seenIds, pending, lastFired, due, emitted>>

Keys == {MarketEvents[e].key : e \in DOMAIN MarketEvents}
Never == 0 - 1

\* evaluate: what makes an event a trigger (a launch with a token, a value at its
\* threshold, any alert)
Triggers(e) ==
  LET m == MarketEvents[e]
  IN  \/ m.kind = "market.token.launch" /\ m.key # "blank"
      \/ m.kind \in DOMAIN Threshold /\ m.value >= Threshold[m.kind]
      \/ m.kind \in {"risk.alert", "policy.alert"}

TriggerInit ==
  /\ debounce \in Debounces
  /\ clock = 0
  /\ seenIds = {}
  /\ pending = [k \in Keys |-> Never]
  /\ lastFired = [k \in Keys |-> Never]
  /\ due = <<>>
  /\ emitted = <<>>

\* Fault: the cooldown is compared with the time the event was first pending
ColdAlways(k) == TRUE

\* emit: the key's last firing is at least the cooldown ago
Cold(k) == lastFired[k] = Never \/ clock - lastFired[k] >= Cooldown

\* emit: the firing is recorded and the envelope returned, or nothing
Emit(k) ==
  IF Cold(k)
  THEN /\ lastFired' = [lastFired EXCEPT ![k] = clock]
       /\ emitted' = Append(emitted, [key |-> k, at |-> clock])
  ELSE UNCHANGED <<lastFired, emitted>>

\* evaluate without a debounce: the event is marked seen, then fires
EvaluateNow(e) ==
  /\ debounce = 0 /\ due = <<>>
  /\ e \notin seenIds
  /\ seenIds' = seenIds \cup {e}
  /\ IF Triggers(e) THEN Emit(MarketEvents[e].key) ELSE UNCHANGED <<lastFired, emitted>>
  /\ UNCHANGED <<debounce, clock, pending, due>>

\* start <= now - debounce, in the table p
Ripe(p, k) == p[k] # Never /\ clock - p[k] >= debounce

RipeKeys(p) == {k \in Keys : Ripe(p, k)}

\* flush: the ripe rows of table p are read in some order and deleted, ...
FlushRows(p) ==
  LET keys == RipeKeys(p)
  IN  /\ due' \in Bijection(1..Cardinality(keys), keys)
      /\ pending' = [k \in Keys |-> IF k \in keys THEN Never ELSE p[k]]

\* flush called by the caller's timer
Flush ==
  /\ due = <<>> /\ RipeKeys(pending) # {}
  /\ FlushRows(pending)
  /\ UNCHANGED <<debounce, clock, seenIds, lastFired, emitted>>

\* evaluate with a debounce: seen, then pending unless the key already is, then flush
EvaluateLater(e) ==
  LET k == MarketEvents[e].key
      p == IF pending[k] = Never THEN [pending EXCEPT ![k] = clock] ELSE pending
  IN  /\ debounce > 0 /\ due = <<>>
      /\ e \notin seenIds
      /\ seenIds' = seenIds \cup {e}
      /\ IF Triggers(e) THEN FlushRows(p) ELSE UNCHANGED <<pending, due>>
      /\ UNCHANGED <<debounce, clock, lastFired, emitted>>

\* ... then emitted one after the other
FlushOne ==
  /\ due # <<>>
  /\ Emit(Head(due))
  /\ due' = Tail(due)
  /\ UNCHANGED <<debounce, clock, seenIds, pending>>

\* The process dies after evaluate's first statement: seen and nothing else
EvaluateDies(e) ==
  /\ due = <<>>
  /\ e \notin seenIds
  /\ seenIds' = seenIds \cup {e}
  /\ UNCHANGED <<debounce, clock, pending, lastFired, due, emitted>>

\* The process dies in flush: what it has deleted and not emitted is lost
FlushDies ==
  /\ due # <<>>
  /\ due' = <<>>
  /\ UNCHANGED <<debounce, clock, seenIds, pending, lastFired, emitted>>

TriggerTick ==
  /\ due = <<>>
  /\ clock < MaxTriggerTime
  /\ clock' = clock + 1
  /\ UNCHANGED <<debounce, seenIds, pending, lastFired, due, emitted>>

TriggerNext ==
  \/ \E e \in DOMAIN MarketEvents : EvaluateNow(e) \/ EvaluateLater(e) \/ EvaluateDies(e)
  \/ Flush \/ FlushOne \/ FlushDies \/ TriggerTick

TriggerSpec == TriggerInit /\ [][TriggerNext]_triggerVars

-----------------------------------------------------------------------------

\* Two triggers of one key are at least the cooldown apart, whatever crashes and
\* however often a key became pending again; and no key fires twice without two
\* events behind it.
FiresApart ==
  /\ \A i, j \in DOMAIN emitted :
       i < j /\ emitted[i].key = emitted[j].key =>
         emitted[j].at - emitted[i].at >= Cooldown
  /\ \A k \in Keys :
       Cardinality({i \in DOMAIN emitted : emitted[i].key = k}) <=
         Cardinality({e \in seenIds : MarketEvents[e].key = k /\ Triggers(e)})
=============================================================================
