----------------------------- MODULE Scheduler ------------------------------
(***************************************************************************)
(* DurableScheduler (workers/jobs) and nextScheduleTime (autonomy/jobs):   *)
(* schedules with a next firing time, turned into jobs by tick().          *)
(*                                                                         *)
(* tick reads the due rows, then enqueues a job and moves the row, one     *)
(* statement each, row by row; the process may die between them.  The job  *)
(* queue is seen through its idempotency keys.  Time counts in fractions   *)
(* of a minute; the calendar is a parameter.                               *)
(***************************************************************************)
EXTENDS Integers, FiniteSets, FiniteSetsExt

CONSTANTS
  Ids,          \* schedule ids
  Schedules,    \* [kind |-> "at", at], [kind |-> "every", every] or
                \* [kind |-> "cron", minutes, hours, days, months, weekdays], each field
                \* the set of its parts [lo, hi, step], or Star
  Payloads,
  Minute, HourLength, DayLength, MonthLength, YearLength, WeekLength,  \* of the calendar
  Horizon       \* bound on the clock and on the search for an occurrence

\* The rules upsert accepts: nextScheduleTime throws on any other
ASSUME SchedulerAssumption ==
  /\ Minute \in Nat \ {0} /\ Horizon \in Nat
  /\ \A s \in Schedules : \/ s.kind = "at" /\ s.at \in Nat
                          \/ s.kind = "every" /\ s.every \in Nat \ {0}
                          \/ s.kind = "cron"

VARIABLES
  time,         \* clock()
  schedule,     \* the schedules table
  jobs,         \* jobs enqueued, by idempotency key (id and slot)
  listed,       \* ids of the due rows tick still has to handle
  enqueued,     \* the row of `listed` whose job is in the queue and that is not moved yet
  since         \* since[id]: the time of the last upsert

schedVars == <<time, schedule, jobs, listed, enqueued, since>>

None == "none"
NoSlot == 0 - 1

\* field: the values a field names, Sunday as 0 or 7; "*" is every value
Star == {}
Field(parts, all, sunday) ==
  IF parts = Star THEN all
  ELSE UNION {{IF sunday /\ x = 7 THEN 0 ELSE x :
                 x \in {y \in p.lo..p.hi : (y - p.lo) % p.step = 0}} : p \in parts}

\* nextScheduleTime: does the cron schedule s name the minute that begins at t?
\* A restricted day of month and a restricted weekday are alternatives.
Matches(s, t) ==
  LET minute == t \div Minute
      hour == minute \div HourLength
      day == hour \div DayLength
      month == day \div MonthLength
      inMonth == 1 + (day % MonthLength) \in Field(s.days, 1..MonthLength, FALSE)
      inWeek == day % WeekLength \in Field(s.weekdays, 0..6, TRUE)
  IN  /\ t % Minute = 0
      /\ minute % HourLength \in Field(s.minutes, 0..(HourLength - 1), FALSE)
      /\ hour % DayLength \in Field(s.hours, 0..(DayLength - 1), FALSE)
      /\ 1 + (month % YearLength) \in Field(s.months, 1..YearLength, FALSE)
      /\ IF s.days = Star THEN inWeek ELSE IF s.weekdays = Star THEN inMonth ELSE inMonth \/ inWeek

\* Fault: the search starts one minute late
SkipOne(after) == (after \div Minute) * Minute + 2 * Minute

\* The first minute nextScheduleTime looks at
FirstMinute(after) == (after \div Minute) * Minute + Minute

\* nextScheduleTime; NoSlot where it throws
NextScheduleTime(s, after) ==
  CASE s.kind = "at" -> IF s.at > after THEN s.at ELSE NoSlot
    [] s.kind = "every" -> after + s.every
    [] s.kind = "cron" ->
         LET times == {t \in FirstMinute(after)..(FirstMinute(after) + Horizon) : Matches(s, t)}
         IN  IF times = {} THEN NoSlot ELSE Min(times)

SchedInit ==
  /\ time = 0
  /\ schedule = [i \in Ids |-> [on |-> FALSE, next |-> NoSlot, payload |-> None, rule |-> None]]
  /\ jobs = {}
  /\ listed = {}
  /\ enqueued = None
  /\ since = [i \in Ids |-> NoSlot]

\* upsert: INSERT OR REPLACE with the next time after now
Upsert(i, s, p) ==
  /\ listed = {}
  /\ NextScheduleTime(s, time) # NoSlot
  /\ schedule' = [schedule EXCEPT ![i] =
       [on |-> TRUE, next |-> NextScheduleTime(s, time), payload |-> p, rule |-> s]]
  /\ since' = [since EXCEPT ![i] = time]
  /\ UNCHANGED <<time, jobs, listed, enqueued>>

\* tick: the rows that are due
TickRead ==
  /\ listed = {}
  /\ listed' = {i \in Ids : schedule[i].on /\ schedule[i].next <= time}
  /\ listed' # {}
  /\ UNCHANGED <<time, schedule, jobs, enqueued, since>>

Job(i) == [id |-> i, slot |-> schedule[i].next, payload |-> schedule[i].payload]

\* A job of the same key and another payload: enqueue throws
Conflicts(i) == \E j \in jobs : j.id = i /\ j.slot = schedule[i].next /\ j.payload # schedule[i].payload

\* tick: enqueue under schedule:<id>:<next_fire>; an existing key adds nothing
TickEnqueue(i) ==
  /\ i \in listed /\ enqueued = None
  /\ ~Conflicts(i)
  /\ jobs' = jobs \cup {Job(i)}
  /\ enqueued' = i
  /\ UNCHANGED <<time, schedule, listed, since>>

\* tick: the slot after the one just enqueued
AfterSlot(i) == NextScheduleTime(schedule[i].rule, schedule[i].next)

\* tick: a one-shot is disabled, any other row moves to its next slot (where
\* nextScheduleTime finds none it throws: TickEnds)
TickMove ==
  /\ enqueued # None
  /\ schedule[enqueued].rule.kind # "at" => AfterSlot(enqueued) # NoSlot
  /\ schedule' = [schedule EXCEPT ![enqueued] =
       IF @.rule.kind = "at" THEN [@ EXCEPT !.on = FALSE]
                             ELSE [@ EXCEPT !.next = AfterSlot(enqueued)]]
  /\ listed' = listed \ {enqueued}
  /\ enqueued' = None
  /\ UNCHANGED <<time, jobs, since>>

\* tick ends early: the process dies between two statements, or enqueue or
\* nextScheduleTime threw
TickEnds ==
  /\ listed # {}
  /\ listed' = {}
  /\ enqueued' = None
  /\ UNCHANGED <<time, schedule, jobs, since>>

SchedTick ==
  /\ time < Horizon
  /\ time' = time + 1
  /\ UNCHANGED <<schedule, jobs, listed, enqueued, since>>

SchedNext ==
  \/ \E i \in Ids : \E s \in Schedules, p \in Payloads : Upsert(i, s, p)
  \/ TickRead \/ TickMove \/ TickEnds \/ SchedTick
  \/ \E i \in Ids : TickEnqueue(i)

SchedSpec == SchedInit /\ [][SchedNext]_schedVars

-----------------------------------------------------------------------------

\* What a rule means, without the search: the times after `from` it names
Occurs(s, from, t) ==
  /\ t > from
  /\ CASE s.kind = "at" -> t = s.at
       [] s.kind = "every" -> (t - from) % s.every = 0
       [] s.kind = "cron" -> Matches(s, t)

\* No slot is lost and none is poisoned: every time a schedule names between its
\* last upsert and its next firing has a job, crashes and late ticks
\* notwithstanding, and the key it will use next never belongs to a job with
\* another payload, on which every later tick would throw.
SlotsCovered ==
  \A i \in Ids : schedule[i].on =>
    /\ \A t \in 0..(schedule[i].next - 1) :
         Occurs(schedule[i].rule, since[i], t) => \E j \in jobs : j.id = i /\ j.slot = t
    /\ ~Conflicts(i)
=============================================================================
