----------------------------- MODULE MCChecking -----------------------------
(***************************************************************************)
(* Three tasks, the second of which depends on the first.                  *)
(***************************************************************************)
EXTENDS Checking

CONSTANTS t1, t2

Three == 1..3
FirstThenSecond == {<<1, 2>>}

Setup(modes, answers, threadData, maxAccesses) ==
  [modes |-> modes, answers |-> answers, threadData |-> threadData, maxAccesses |-> maxAccesses]

AllModes == {"silent", "line", "runtime"}

\* The queries succeed, or any of them may fail and a thread has no data.
Known == Setup(AllModes, {2}, Threads, 3)
Failing == Setup({"line"}, {1, 2}, {t1}, 3)
KnownAndFailing == {Known, Failing}
=============================================================================
