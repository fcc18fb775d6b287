------------------------------ MODULE MCJobLock ------------------------------
(***************************************************************************)
(* Small instances of the job lock.  The lock is held half as long again   *)
(* as the interval, rounded up, as in the scheduler.                       *)
(***************************************************************************)
EXTENDS JobLock, TLC

CONSTANTS p1, p2, s1, s2
=============================================================================
