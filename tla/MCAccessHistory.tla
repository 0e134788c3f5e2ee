-------------------------- MODULE MCAccessHistory --------------------------
(***************************************************************************)
(* Small programs for the model checking of AccessHistory.                 *)
(***************************************************************************)
EXTENDS AccessHistory

CONSTANTS l1, l2

Execution(runs, reducers, locks, hwLock, maxRecords, maxAccesses) ==
  [runs |-> runs, reducers |-> reducers, locks |-> locks, hwLock |-> hwLock,
   maxRecords |-> maxRecords, maxAccesses |-> maxAccesses]

\* A team of two threads and a barrier.  The first thread has a single region
\* (s) whose end gives it back the label of before (t); the second runs b.
\* After the barrier the first thread (c) creates three explicit tasks, x
\* before y by a dependence and m, and waits for them (z).
TeamStretches == {"s", "t", "b", "c", "x", "y", "m", "z"}
TeamBefore == {<<"s", "t">>} \cup ({"s", "t", "b"} \X {"c", "x", "y", "m", "z"})
              \cup ({"c"} \X {"x", "y", "m", "z"}) \cup ({"x", "y", "m"} \X {"z"})
TeamPopped == {<<"s", "t">>}
TeamPath == {<<"x", "y">>}
TeamExplicit == {"x", "y", "m"}

\* A task w that creates three explicit tasks and waits for them (z): x and y
\* are ordered by a dependence, m and y are mutexinoutset on one variable.
TaskStretches == {"w", "x", "y", "m", "z"}
TaskBefore == ({"w"} \X {"x", "y", "m", "z"}) \cup ({"x", "y", "m"} \X {"z"})
TaskPath == {<<"x", "y">>}
TaskExplicit == {"x", "y", "m"}
TaskMutex == {"y", "m"}

\* Two threads, f and g, that nothing orders; the second may go on with h.
LockStretches == {"f", "g", "h"}
LockBefore == {<<"g", "h">>}

ProgramStretches == TeamStretches \cup LockStretches
ProgramBefore == TeamBefore \cup LockBefore

\* Eight of the sixteen accesses that eight stretches without locks can make.
Team == Execution(TeamStretches, {}, {}, {FALSE}, 8, 8)
Tasks == Execution(TaskStretches, {}, {}, {FALSE}, 16, 16)
\* A lock, two of them, or one and a reduction.  If none of three records is dropped,
\* none is missing from the fourth check.
LockTaken == Execution(LockStretches, {}, {l1}, {FALSE}, 3, 4)
TwoLocks == Execution({"f", "g"}, {}, {l1, l2}, {FALSE}, 2, 3)
Reducing == Execution({"f", "g"}, {"f"}, {l1}, {FALSE}, 2, 3)
TeamAndLocks == {Team, LockTaken, TwoLocks, Reducing}

OneLock == {LockTaken}
TwoLocksAlone == {Execution({"f", "g"}, {}, {l1, l2}, {FALSE}, 3, 3)}
Atomic == {Execution({"f", "g"}, {}, {}, {TRUE, FALSE}, 3, 4)}
OnlyTasks == {Tasks}

Empty == {}
=============================================================================
