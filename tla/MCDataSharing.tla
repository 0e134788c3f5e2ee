--------------------------- MODULE MCDataSharing ---------------------------
(***************************************************************************)
(* The executions DataSharing is model checked with.                       *)
(***************************************************************************)
EXTENDS DataSharing

Setup(untied, threadData, stackInfo, frames, levels, blocks, maxAccesses) ==
  [untied |-> untied, threadData |-> threadData, stackInfo |-> stackInfo, frames |-> frames,
   levels |-> levels, blocks |-> blocks, maxAccesses |-> maxAccesses]

\* Tied tasks that nest, and exit frames that may be unset
Nested == Setup({}, Threads, {TRUE}, {TRUE, FALSE}, 3, 2, 2)
\* An untied task, stacks that may be unknown, and one block for both tasks
Moving == Setup({1}, Threads, {TRUE, FALSE}, {TRUE}, 2, 1, 3)
\* A second thread that the runtime gives no ThreadData
NoData == Setup({}, {1}, {TRUE}, {TRUE}, 2, 2, 3)
ProgramsChecked == {Nested, Moving, NoData}

OnlyNested == {Setup({}, Threads, {TRUE}, {TRUE}, 3, 2, 2)}
OnlyReuse == {Setup({}, Threads, {TRUE}, {TRUE}, 2, 1, 2)}
OnlyUntied == {Setup({1}, Threads, {TRUE}, {TRUE}, 2, 2, 2)}
OnlyUnknown == {Setup({}, Threads, {TRUE, FALSE}, {TRUE}, 2, 2, 2)}
=============================================================================
