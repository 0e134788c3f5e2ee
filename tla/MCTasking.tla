----------------------------- MODULE MCTasking -----------------------------
(***************************************************************************)
(* The programs Tasking is model checked with: their constructs, the sizes *)
(* of their teams, the iterations of their loops, and how many stretches   *)
(* the initial task, the tasks of its teams, and the tasks below have.     *)
(***************************************************************************)
EXTENDS Tasking

Family(constructs, teamSizes, iterations, maxSteps, claims) ==
  [constructs |-> constructs, teamSizes |-> teamSizes,
   iterations |-> iterations, maxSteps |-> maxSteps, claims |-> claims]

\* What holds of them
Both == {"silent", "ancestors"}
Silent == {"silent"}
Ancestors == {"ancestors"}

NestedProgram == Family({"barrier", "nested"}, {2}, 0, <<2, 1, 1>>, Both)
WorkshareProgram == Family({"barrier", "loop", "sections", "single"}, {2}, 2, <<1, 5, 1>>, Both)
NowaitProgram == Family({"barrier", "loop", "nowait"}, {2}, 3, <<1, 5, 1>>, Ancestors)
OrderedProgram == Family({"loop", "ordered", "nowait"}, {2, 3}, 3, <<1, 5, 1>>, Silent)
SingleProgram == Family({"single", "task"}, {2}, 0, <<1, 4, 0>>, Both)
TasksProgram == Family({"task", "taskwait", "barrier"}, {2}, 0, <<1, 3, 0>>, Both)
WaitsProgram == Family({"task", "taskwait", "barrier"}, {1}, 0, <<1, 5, 1>>, Both)
ChainProgram == Family({"task", "taskwait"}, {1, 2}, 0, <<1, 1, 1, 0>>, Ancestors)
LongChainProgram == Family({"task", "taskwait"}, {1}, 0, <<1, 2, 1, 1, 0>>, Ancestors)
GroupProgram == Family({"task", "taskgroup"}, {2}, 0, <<1, 3, 1>>, {})
LoneProgram == Family({"task", "taskgroup", "taskwait"}, {1}, 0, <<1, 4, 1>>, {})

RegionsProgram == Family({"task", "barrier"}, {2}, 0, <<2, 2, 0>>, Both)
DependProgram == Family({"task", "depend"}, {2}, 0, <<1, 3, 0>>, Both)
UnlabelledProgram == Family({"undeferred", "taskloop"}, {2}, 0, <<1, 1, 0>>, Both)

\* Small programs that show one disagreement each
AnyOrderProgram == Family({"loop", "ordered", "nowait"}, {2}, 2, <<1, 4>>, Both)
GroupBeforeProgram == Family({"task", "taskgroup"}, {2}, 0, <<1, 4, 0>>, Both)
GrandchildProgram == Family({"task", "taskwait"}, {2}, 0, <<1, 3, 1, 0>>, Both)
IterationProgram == Family({"loop", "nested"}, {2}, 1, <<1, 4, 1>>, Both)
DependChildProgram == Family({"task", "depend"}, {2}, 0, <<1, 2, 1, 0>>, Both)
DeletedProgram == Family({"task", "nested"}, {2}, 0, <<1, 2, 1, 0>>, Both)
MissedProgram == Family({"task"}, {2}, 0, <<1, 1, 1>>, Both)
PrefixProgram == Family({"task", "single", "nowait"}, {2}, 0, <<1, 3, 1>>, Both)
SectionsProgram == Family({"sections", "nowait"}, {2}, 2, <<1, 4>>, Both)
SerialProgram == Family({"barrier", "nested"}, {1, 2}, 0, <<1, 2, 1>>, Both)
SingleTaskProgram == Family({"single", "task", "nowait"}, {2}, 0, <<1, 4, 0>>, Both)
TaskGroupProgram == Family({"task", "taskgroup"}, {2}, 0, <<1, 3, 1>>, Both)
WaitForkProgram == Family({"task", "taskwait", "nested"}, {2}, 0, <<1, 4, 1>>, Both)
WaitWaitProgram == Family({"task", "taskwait"}, {2}, 0, <<1, 2, 2, 0>>, Both)
WrapProgram == Family({"barrier"}, {2}, 0, <<1, 4>>, Both)

CheckedPrograms == {NestedProgram, WorkshareProgram, NowaitProgram, OrderedProgram, SingleProgram,
                    TasksProgram, WaitsProgram, ChainProgram, LongChainProgram, GroupProgram,
                    LoneProgram, RegionsProgram, DependProgram, UnlabelledProgram}
OnlyAnyOrder == {AnyOrderProgram}
OnlyGroupBefore == {GroupBeforeProgram}
OnlyChain == {ChainProgram}
OnlyDeleted == {DeletedProgram}
OnlyDependChild == {DependChildProgram}
OnlyUnlabelled == {UnlabelledProgram}
OnlyGrandchild == {GrandchildProgram}
OnlyIteration == {IterationProgram}
OnlyMissed == {MissedProgram}
OnlyPrefix == {PrefixProgram}
OnlySections == {SectionsProgram}
OnlySerial == {SerialProgram}
OnlySingleTask == {SingleTaskProgram}
OnlyTaskGroup == {TaskGroupProgram}
OnlyWaitFork == {WaitForkProgram}
OnlyWaitWait == {WaitWaitProgram}
OnlyWrap == {WrapProgram}
=============================================================================
