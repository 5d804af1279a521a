----------------------------- MODULE ProcessLock -----------------------------
(***************************************************************************)
(* The boot lock of a home directory (src/kernel/lock.ts): an exclusively  *)
(* created file with its owner's pid in it, reclaimed when that pid is     *)
(* dead.  Processes have pids of their own; one step is one system call.   *)
(***************************************************************************)
EXTENDS Integers, FiniteSets

CONSTANTS Procs, MaxDeaths

NoFile == [creator |-> "none", written |-> FALSE]
NoPid  == "no pid"

VARIABLES
  lockFile,   \* what lies at the path: [creator, written], or NoFile
  proc,       \* process -> where it is in acquire
  holder,     \* process -> what its readPid returned
  deaths
lockVars == <<lockFile, proc, holder, deaths>>

Alive(p) == proc[p] # "dead"
At(p, from, to) == proc[p] = from /\ proc' = [proc EXCEPT ![p] = to]

\* #create: open with wx; EEXIST leads to the stale check, the second time out of acquire
Create(p) ==
  /\ IF lockFile = NoFile
     THEN /\ lockFile' = [creator |-> p, written |-> FALSE]
          /\ At(p, "out", "created") \/ At(p, "retry", "created")
     ELSE UNCHANGED lockFile /\ (At(p, "out", "exists") \/ At(p, "retry", "refused"))
  /\ UNCHANGED <<holder, deaths>>

\* #create: the pid, through the descriptor, even if the file is no longer at the path
WritePid(p) ==
  /\ At(p, "created", "held")
  /\ lockFile' = IF lockFile.creator = p THEN [lockFile EXCEPT !.written = TRUE] ELSE lockFile
  /\ UNCHANGED <<holder, deaths>>

\* readPid: no file and no pid in it are the same answer
ReadPid(p) ==
  /\ At(p, "exists", "judge")
  /\ holder' = [holder EXCEPT ![p] = IF lockFile.written THEN lockFile.creator ELSE NoPid]
  /\ UNCHANGED <<lockFile, deaths>>

\* pidAlive
Judge(p) ==
  /\ At(p, "judge", IF holder[p] # NoPid /\ Alive(holder[p]) THEN "refused" ELSE "stale")
  /\ UNCHANGED <<lockFile, holder, deaths>>

\* rm with force: whatever is at the path by now
RemoveStale(p) ==
  /\ At(p, "stale", "retry")
  /\ lockFile' = NoFile
  /\ UNCHANGED <<holder, deaths>>

\* release: the same removal
ReleaseLock(p) ==
  /\ At(p, "held", "out")
  /\ lockFile' = NoFile
  /\ UNCHANGED <<holder, deaths>>

\* acquire threw; the caller may start over
StartOver(p) ==
  /\ At(p, "refused", "out")
  /\ UNCHANGED <<lockFile, holder, deaths>>

Die(p) ==
  /\ Alive(p) /\ deaths < MaxDeaths
  /\ proc' = [proc EXCEPT ![p] = "dead"] /\ deaths' = deaths + 1
  /\ UNCHANGED <<lockFile, holder>>

Init ==
  /\ lockFile = NoFile /\ deaths = 0
  /\ proc = [p \in Procs |-> "out"] /\ holder = [p \in Procs |-> NoPid]

Next ==
  \E p \in Procs :
    \/ Create(p) \/ WritePid(p) \/ ReadPid(p) \/ Judge(p) \/ RemoveStale(p) \/ ReleaseLock(p)
    \/ StartOver(p) \/ Die(p)

Spec == Init /\ [][Next]_lockVars

-----------------------------------------------------------------------------
(* Properties *)

\* One writer per home directory, as the lock's comment has it: two live processes never
\* both hold it, whichever of them found a stale file and whenever they looked.
OneHolder == Cardinality({p \in Procs : proc[p] = "held"}) <= 1
=============================================================================
