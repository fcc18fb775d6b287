------------------------------- MODULE JobLock -------------------------------
(***************************************************************************)
(* The scheduler's lock on one job, a row of job_locks.  Every process of  *)
(* the server looks for due jobs at each tick of its own timer; the row    *)
(* names the process that took the lock last and the time it expires.      *)
(*                                                                         *)
(* A tick does not wait for the one before it and lastRunAt is set when    *)
(* the handler has ended, so a process may have several runs of the job in *)
(* flight: Slots tells them apart, the lock does not.  The lock is asked   *)
(* for in one statement and read back in a second one.  Times are kept as  *)
(* what is left of them.                                                   *)
(***************************************************************************)
EXTENDS Integers

CONSTANTS
    Processes,  \* the server's processes (workerId)
    Slots,      \* bound: runs of the job one process has in flight
    Interval,   \* intervalSeconds of the job
    Ttl         \* how long the lock is taken for

ASSUME IntervalAssumption == Interval \in Nat \ {0}
ASSUME TtlAssumption      == Ttl \in Nat \ {0}

VARIABLES
    lock,   \* the row: locked_by, and what is left until locked_until
    runs,   \* per process and slot: how far the run is, since when, and whether
            \* another run of the process has given the lock back since then
    rest    \* per process: time until lastRunAt lies an interval back

lockVars == <<lock, runs, rest>>

\* locked_by of a row that is not there yet, and of one whose process has come
\* back under another name.
Others == {"nobody", "stranger"}
ASSUME OthersAssumption == Others \cap Processes = {}

Phases == {"idle", "asked", "running", "done"}

\* age: time since the run asked for the lock, counted up to Ttl.
\* freed: a history, no part of the program.
RunStates == [phase : Phases, age : 0..Ttl, freed : BOOLEAN]

NoRun == [phase |-> "idle", age |-> 0, freed |-> FALSE]

LockTypeOK ==
    /\ lock \in [by : Processes \cup Others, left : 0..Ttl]
    /\ runs \in [Processes -> [Slots -> RunStates]]
    /\ rest \in [Processes -> 0..Interval]

LockInit ==
    /\ lock = [by |-> "nobody", left |-> 0]
    /\ runs = [p \in Processes |-> [s \in Slots |-> NoRun]]
    /\ rest = [p \in Processes |-> 0]
-----------------------------------------------------------------------------
SetRun(p, s, run) == runs' = [runs EXCEPT ![p][s] = run]

\* Mutant: a lock, once taken, is kept until its holder gives it back.
TakenUnlessHeld(p) ==
    IF lock.by \in {"nobody", p} THEN [by |-> p, left |-> Ttl] ELSE lock

\* The row after INSERT ... ON DUPLICATE KEY UPDATE: an expired lock changes
\* hands; the holder's own lock is prolonged, as the second assignment sees
\* the result of the first; otherwise nothing changes.
Taken(p) ==
    IF lock.left = 0 \/ lock.by = p THEN [by |-> p, left |-> Ttl] ELSE lock

\* runDueJobs finds the job due and acquireLock sends its first statement.
Ask(p, s) ==
    /\ runs[p][s].phase = "idle"
    /\ rest[p] = 0
    /\ lock' = Taken(p)
    /\ SetRun(p, s, [NoRun EXCEPT !.phase = "asked"])
    /\ UNCHANGED rest

\* acquireLock reads the row back: only the name is looked at.
Acquire(p, s) ==
    /\ runs[p][s].phase = "asked"
    /\ lock.by = p
    /\ SetRun(p, s, [runs[p][s] EXCEPT !.phase = "running"])
    /\ UNCHANGED <<lock, rest>>

Skip(p, s) ==
    /\ runs[p][s].phase = "asked"
    /\ lock.by # p
    /\ SetRun(p, s, NoRun)
    /\ UNCHANGED <<lock, rest>>

\* The second statement fails: the exception leaves the lock where it is.
AskFails(p, s) ==
    /\ runs[p][s].phase = "asked"
    /\ SetRun(p, s, NoRun)
    /\ UNCHANGED <<lock, rest>>

\* The handler returns, and lastRunAt is set; or it throws, and it is not.
HandlerEnds(p, s) ==
    /\ runs[p][s].phase = "running"
    /\ SetRun(p, s, [runs[p][s] EXCEPT !.phase = "done"])
    /\ rest' \in {rest, [rest EXCEPT ![p] = Interval]}
    /\ UNCHANGED lock

\* Mutant: the lock is released whoever holds it.
ReleasedByAnyone(p) == [lock EXCEPT !.left = 0]

Released(p) == IF lock.by = p THEN [lock EXCEPT !.left = 0] ELSE lock

\* The process's runs once the run in slot s is over; the others keep going
\* although the lock they were started under may be gone.
GaveBack(p, s) ==
    [t \in Slots |->
        IF t = s THEN NoRun
        ELSE [runs[p][t] EXCEPT !.freed =
                 @ \/ (lock.by = p /\ runs[p][t].phase # "idle")]]

\* releaseLock; its failure is logged.
Release(p, s) ==
    /\ runs[p][s].phase = "done"
    /\ \/ lock' = Released(p) /\ runs' = [runs EXCEPT ![p] = GaveBack(p, s)]
       \/ UNCHANGED lock /\ SetRun(p, s, NoRun)
    /\ UNCHANGED rest

\* A process goes down and starts again with nothing in memory.  It may come
\* back under another host name or process id; the row then names a stranger.
Crash(p) ==
    /\ runs' = [runs EXCEPT ![p] = [s \in Slots |-> NoRun]]
    /\ rest' = [rest EXCEPT ![p] = 0]
    /\ lock' \in {lock, [lock EXCEPT !.by = IF @ = p THEN "stranger" ELSE @]}

Less(n) == IF n > 0 THEN n - 1 ELSE 0

Aged(run) ==
    IF run.phase = "idle" \/ run.age = Ttl THEN run ELSE [run EXCEPT !.age = @ + 1]

Tick ==
    /\ lock' = [lock EXCEPT !.left = Less(@)]
    /\ rest' = [p \in Processes |-> Less(rest[p])]
    /\ runs' = [p \in Processes |-> [s \in Slots |-> Aged(runs[p][s])]]
-----------------------------------------------------------------------------
LockNext ==
    \/ Tick
    \/ \E p \in Processes :
          \/ Crash(p)
          \/ \E s \in Slots :
                \/ Ask(p, s) \/ Acquire(p, s) \/ Skip(p, s) \/ AskFails(p, s)
                \/ HandlerEnds(p, s) \/ Release(p, s)

LockSpec == LockInit /\ [][LockNext]_lockVars

\* The clock runs, every process keeps ticking, and handlers and statements
\* come to an end.  Processes and statements may fail as often as they like,
\* but the one that holds the lock does not fail, or read the row too late,
\* each time it is about to read that it does.
LockFairness ==
    /\ WF_lockVars(Tick)
    /\ \A p \in Processes, s \in Slots :
          /\ WF_lockVars(Ask(p, s))
          /\ WF_lockVars(Skip(p, s))
          /\ SF_lockVars(Acquire(p, s))
          /\ WF_lockVars(HandlerEnds(p, s))
          /\ WF_lockVars(Release(p, s))

LockFairSpec == LockSpec /\ LockFairness
-----------------------------------------------------------------------------
Running(p, s) == runs[p][s].phase = "running"

\* What covers a run: its lock's term is not over, and no other run of its own
\* process has given the lock back.
Covered(p, s) == runs[p][s].age < Ttl /\ ~runs[p][s].freed

\* Between processes the lock excludes: while a run is covered, no other
\* process has a covered run.  Crashes, failed statements, late answers and
\* late releases of other processes never give its lock away; only a run that
\* outlasts the term, or a second run of its own process that ends first, does
\* (acquireLock, releaseLock, runJob).
OneCoveredProcess ==
    \A p, q \in Processes : \A s, t \in Slots :
        /\ Running(p, s) /\ Running(q, t)
        /\ Covered(p, s) /\ Covered(q, t)
        => p = q

\* The job is run again and again: a lock that a crashed process left behind,
\* or that a failed run did not give back, stops it for a while at most.
JobIsRunForEver == []<>(\E p \in Processes, s \in Slots : Running(p, s))
=============================================================================
