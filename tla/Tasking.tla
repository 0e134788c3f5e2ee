------------------------------ MODULE Tasking ------------------------------
(***************************************************************************)
(* The OMPT callbacks of Callbacks.cpp that give the tasks their labels,   *)
(* driven by an OpenMP program that makes its choices step by step.  Next  *)
(* to the labels the module keeps the real order of the program, so that   *)
(* what happensBefore reads off two labels can be compared with it.        *)
(*                                                                         *)
(* A task is named by the path to it: <<n, k>> at the end of the path says *)
(* that its parent was in its n-th stretch and that it is implicit task k  *)
(* of the team forked there, or the explicit task created there if k is    *)
(* NoIndex.  A stretch <<t, n>> is what task t executes between two        *)
(* callbacks, all of it under one label.                                   *)
(***************************************************************************)
EXTENDS HappensBefore, FiniteSets

CONSTANTS Programs       \* the families of OpenMP programs: records with
                         \* - constructs, those the programs are made of,
                         \* - teamSizes, the sizes their teams may have,
                         \* - iterations, the bound of the iterations, or sections, of a loop,
                         \* - maxSteps, the bound of the stretches a task has after its first,
                         \*   as a sequence by depth; no task is deeper,
                         \* - claims, what the properties say of them: that ordered pairs are
                         \*   "silent", that the pairs missed are of "ancestors" only

NoIndex == -1
InitialTask == <<>>

ASSUME BoundsAssumption ==
  \A p \in Programs :
    /\ p.constructs \subseteq {"barrier", "nested", "task", "taskwait", "taskgroup", "single",
                              "loop", "sections", "ordered", "nowait", "depend", "undeferred",
                              "taskloop"}
    /\ p.teamSizes \subseteq 1..OffsetLimit
    /\ p.iterations \in Nat
    /\ p.claims \subseteq {"silent", "ancestors"}
    /\ p.maxSteps \in Seq(Nat)
    \* Barriers and regions move offsets only; no other counter of a segment overflows.
    /\ p.constructs \subseteq {"barrier", "nested"} \/ p.maxSteps \in Seq(0..CounterLimit-2)

VARIABLES app,       \* the family the program is of, which no step changes
          label,     \* TaskData.label of every task
          children,  \* TaskData.childExpTaskData of every task
          edges,     \* the dependences of tasks: the edges of the region's graph
          status,    \* what the task does at the moment
          clock,     \* the number of its current stretch
          groups,    \* the stretches in which its open taskgroups began
          singles,   \* how many single regions it has entered
          taken,     \* the single regions that have an executor
          dispatched,\* the iterations handed out, and whether they are sections
          past,      \* the stretches that really happen before its current one
          base,      \* past, as it was before the loop the task is in
          orderedPast,\* the past of the end of an iteration's ordered section
          recorded   \* the labels records may hold: those of the stretches so far

data == <<label, children, edges>>
program == <<status, clock, groups, singles, taken, dispatched>>
truth == <<past, base, orderedPast, recorded>>
vars == <<app, data, program, truth>>

Constructs == app.constructs
TeamSizes == app.teamSizes
Iterations == app.iterations
MaxSteps == app.maxSteps

Tasks == DOMAIN label

IsExplicit(t) == t # InitialTask /\ Last(t)[2] = NoIndex
IsImplicit(t) == t # InitialTask /\ ~IsExplicit(t)

\* The region an implicit task belongs to: who forked it, in which stretch.
Region(t) == <<Front(t), Last(t)[1]>>
InRegion(t, r) == /\ Len(t) > Len(r[1])
                  /\ IsPrefix(r[1], t)
                  /\ t[Len(r[1]) + 1][1] = r[2]
Team(r) == {t \in Tasks : InRegion(t, r) /\ Len(t) = Len(r[1]) + 1 /\ IsImplicit(t)}

\* The explicit tasks that t created in stretch n or later.
Created(t, n) == {u \in Tasks : u # InitialTask /\ Front(u) = t /\ IsExplicit(u) /\ Last(u)[1] >= n}

\* Those and all that they created in turn.
CreatedBelow(t, n) ==
  {u \in Tasks : /\ Len(u) > Len(t) /\ IsPrefix(t, u)
                 /\ \A k \in Len(t)+1 .. Len(u) : u[k][2] = NoIndex
                 /\ u[Len(t) + 1][1] >= n}

Stretch(t) == <<t, clock[t]>>
NextStretch(t) == <<t, clock[t] + 1>>

\* Everything the task has done so far and all that happened before.
Upto(t) == past[t] \cup {Stretch(t)}

\* checkAccess skips the initial task.  Between the begin of a loop and its
\* first iteration, and outside the executor of a single, no user code runs.
Accesses(t, l) ==
  /\ t # InitialTask
  /\ \/ Type(Last(l)) # "eWorkShare"
     \/ Last(l).workShareId > 0
     \/ isSingleExecutor(Last(l))

\* A null label, which the next callback of its task dereferences.
NoLabel == <<>>

Running(t) == t \in Tasks /\ status[t] = "running" /\ label[t] # NoLabel
CanStep(t) == Running(t) /\ clock[t] < MaxSteps[Len(t) + 1]
CanHaveTasks(t) == CanStep(t) /\ Len(t) + 1 < Len(MaxSteps)

\* The last segment belongs to the task, not to a workshare it is in.
Plain(t) == Type(Last(label[t])) # "eWorkShare"
InIteration(t) == ~Plain(t) /\ Last(label[t]).workShareId > 0
InSingle(t) == ~Plain(t) /\ isSingleExecutor(Last(label[t]))
InLoop(t) == ~Plain(t) /\ Last(label[t]).single = "no"

\* The function f with the values of g, for one argument or more.
Extend(f, g) == [x \in DOMAIN f \cup DOMAIN g |-> IF x \in DOMAIN g THEN g[x] ELSE f[x]]
One(x, v) == [y \in {x} |-> v]

\* The labels of the tasks, and of the records, when t goes on under label l.
Labels(t, l) == [label EXCEPT ![t] = l]
Records(t, l) == IF Accesses(t, l) THEN Extend(recorded, One(NextStretch(t), l)) ELSE recorded

\* Task t begins a new stretch, with p for its past.
Relabel(t, labels, records, p) ==
  /\ label' = labels
  /\ recorded' = records
  /\ clock' = [clock EXCEPT ![t] = @ + 1]
  /\ past' = [past EXCEPT ![t] = p]

Continue(t, l, p) == Relabel(t, Labels(t, l), Records(t, l), p)

Init == /\ app \in Programs
        /\ label = One(InitialTask, genInitTaskLabel(<<InitialTask, 0>>))
        /\ children = One(InitialTask, {})
        /\ edges = {}
        /\ status = One(InitialTask, "running")
        /\ clock = One(InitialTask, 0)
        /\ groups = One(InitialTask, <<>>)
        /\ singles = One(InitialTask, 0)
        /\ taken = {}
        /\ dispatched = {}
        /\ past = One(InitialTask, {})
        /\ base = One(InitialTask, {})
        /\ orderedPast = <<>>
        /\ recorded = <<>>

\* The tasks in new have neither children nor open constructs.
Birth(new) ==
  /\ children' = Extend(children, [u \in new |-> {}])
  /\ groups' = Extend(groups, [u \in new |-> <<>>])
  /\ singles' = Extend(singles, [u \in new |-> 0])
  /\ base' = Extend(base, [u \in new |-> {}])

-----------------------------------------------------------------------------
(* Parallel regions and barriers *)

\* parallel_begin, and implicit_task_begin in every thread of the team: the
\* label of the parent stays what it is until the region ends.
ParallelBegin(t, size) ==
  LET new == {Append(t, <<clock[t], k>>) : k \in 0..size-1}
      LabelOf(u) == genImpTaskLabel(label[t], Last(u)[2], size, <<u, 0>>)
  IN  /\ CanHaveTasks(t)
      /\ t # InitialTask => "nested" \in Constructs /\ (Plain(t) \/ InIteration(t) \/ InSingle(t))
      /\ label' = Extend(label, [u \in new |-> LabelOf(u)])
      /\ status' = Extend([status EXCEPT ![t] = "forked"], [u \in new |-> "running"])
      /\ clock' = Extend(clock, [u \in new |-> 0])
      /\ past' = Extend(past, [u \in new |-> Upto(t)])
      /\ recorded' = Extend(recorded, [s \in {<<u, 0>> : u \in new} |-> LabelOf(s[1])])
      /\ Birth(new)
      /\ UNCHANGED <<app, edges, taken, dispatched, orderedPast>>

\* A thread arrives at a barrier, or at the one that ends the region; it does
\* so when its team has left the one before, which changes nothing.
BarrierBegin(t, kind) ==
  /\ Running(t)
  /\ IsImplicit(t) /\ Plain(t) /\ groups[t] = <<>>
  /\ kind = "atBarrier" => "barrier" \in Constructs /\ CanStep(t)
  /\ \A u \in Team(Region(t)) : status[u] \in {"running", "forked", kind}
  /\ status' = [status EXCEPT ![t] = kind]
  /\ UNCHANGED <<app, data, clock, groups, singles, taken, dispatched, truth>>

\* The runtime opens the barrier when the team is there and its explicit
\* tasks are over.  At the end of the region the callbacks of the workers do
\* no more than delete their task data, and only index 0 goes on to one.
BarrierComplete(r) ==
  LET region == {u \in Tasks : InRegion(u, r)}
      everything == (UNION {Upto(u) : u \in region}) \cup {s \in DOMAIN recorded : s[1] \in region}
  IN  /\ Team(r) # {}
      /\ \E kind \in {"atBarrier", "atEnd"} :
           /\ \A u \in Team(r) : status[u] = kind
           /\ \A u \in region : IsExplicit(u) => status[u] = "over"
           /\ status' = [u \in Tasks |->
                IF u \notin Team(r) THEN status[u]
                ELSE IF kind = "atBarrier" THEN "released"
                ELSE IF Last(u)[2] = 0 THEN "ended"
                ELSE "over"]
      /\ past' = [u \in Tasks |-> IF u \in Team(r) THEN everything ELSE past[u]]
      /\ UNCHANGED <<app, data, clock, groups, singles, taken, dispatched, base, orderedPast, recorded>>

\* sync_region, end of a barrier
BarrierEnd(t) ==
  /\ t \in Tasks /\ status[t] = "released"
  /\ Continue(t, mutateBarrierEnd(label[t], NextStretch(t)), past[t])
  /\ status' = [status EXCEPT ![t] = "running"]
  /\ UNCHANGED <<app, children, edges, groups, singles, taken, dispatched, base, orderedPast>>

\* The same callback at the end of the region, and then implicit_task_end
\* gives the parent its new label.
ImplicitTaskEnd(t) ==
  LET parent == Front(t)
      ended == mutateParentImpEnd(mutateBarrierEnd(label[t], NextStretch(t)))
  IN  /\ t \in Tasks /\ status[t] = "ended"
      /\ Continue(parent, ended, Upto(parent) \cup past[t])
      /\ status' = [status EXCEPT ![t] = "over", ![parent] = "running"]
      /\ UNCHANGED <<app, children, edges, groups, singles, taken, dispatched, base, orderedPast>>

-----------------------------------------------------------------------------
(* Explicit tasks *)

\* The task that t would create now
Child(t) == Append(t, <<clock[t], NoIndex>>)

CanCreate(t) == /\ CanHaveTasks(t) /\ t # InitialTask
                /\ Plain(t) \/ InIteration(t) \/ InSingle(t)

\* task_create in a team, and dependences if the task has some: each on a
\* variable that it and one earlier sibling name.  Without dependences it may
\* run at once.
TaskCreate(t, preds) ==
  LET u == Child(t)
      mutated == mutateParentTaskCreate(label[t], NextStretch(t))
      first == genExpTaskLabel(label[t], <<u, 0>>)
  IN  /\ "task" \in Constructs
      /\ CanCreate(t)
      /\ preds # {} => "depend" \in Constructs
      /\ label' = Extend([label EXCEPT ![t] = mutated], One(u, first))
      /\ children' = Extend([children EXCEPT ![t] = @ \cup {u}], One(u, {}))
      /\ edges' = edges \cup {<<v, u>> : v \in preds}
      /\ status' = Extend(status, One(u, IF preds = {} THEN "running" ELSE "waiting"))
      /\ clock' = Extend([clock EXCEPT ![t] = @ + 1], One(u, 0))
      /\ past' = Extend([past EXCEPT ![t] = Upto(t)], One(u, Upto(t)))
      /\ recorded' = Extend(Extend(recorded, One(NextStretch(t), mutated)),
                          IF preds = {} THEN One(<<u, 0>>, first) ELSE <<>>)
      /\ groups' = Extend(groups, One(u, <<>>))
      /\ singles' = Extend(singles, One(u, 0))
      /\ base' = Extend(base, One(u, {}))
      /\ UNCHANGED <<app, taken, dispatched, orderedPast>>

\* The tasks it depends on are over, and the runtime starts the task.
TaskStart(u) ==
  LET preds == {e[1] : e \in {d \in edges : d[2] = u}}
  IN  /\ status[u] = "waiting"
      /\ \A v \in preds : status[v] = "over"
      /\ status' = [status EXCEPT ![u] = "running"]
      /\ past' = [past EXCEPT ![u] = @ \cup UNION {Upto(v) : v \in preds}]
      /\ recorded' = Extend(recorded, One(<<u, 0>>, label[u]))
      /\ UNCHANGED <<app, data, clock, groups, singles, taken, dispatched, base, orderedPast>>

\* task_create whose flags say more than that the task is explicit: undeferred,
\* untied, final.  The task gets no label, and its parent waits for it.
TaskCreateUndeferred(t) ==
  LET u == Child(t)
  IN  /\ "undeferred" \in Constructs
      /\ CanCreate(t)
      /\ label' = Extend(label, One(u, NoLabel))
      /\ children' = Extend(children, One(u, {}))
      /\ status' = Extend([status EXCEPT ![t] = "forked"], One(u, "running"))
      /\ clock' = Extend(clock, One(u, 0))
      /\ past' = Extend(past, One(u, Upto(t)))
      /\ groups' = Extend(groups, One(u, <<>>))
      /\ singles' = Extend(singles, One(u, 0))
      /\ base' = Extend(base, One(u, {}))
      /\ UNCHANGED <<app, edges, taken, dispatched, orderedPast, recorded>>

\* work with ompt_work_taskloop: the handler returns no label, which is stored.
WorkTaskLoop(t) ==
  /\ "taskloop" \in Constructs
  /\ CanCreate(t)
  /\ label' = [label EXCEPT ![t] = NoLabel]
  /\ UNCHANGED <<app, children, edges, program, truth>>

\* task_schedule with ompt_task_complete: from now on the label of the task is
\* made of the segments of its parent.
TaskComplete(t) ==
  /\ Running(t) /\ IsExplicit(t) /\ groups[t] = <<>>
  /\ label' = [label EXCEPT ![t] = mutateTaskComplete(@)]
  /\ status' = [status EXCEPT ![t] = "over"]
  /\ UNCHANGED <<app, children, edges, clock, groups, singles, taken, dispatched, truth>>

Over(tasks) == \A u \in tasks : status[u] = "over"

\* sync_region, end of a taskwait: markExpChildSyncTaskwait marks the last
\* segment of every child's label.
TaskWait(t) ==
  LET marked == {Last(label[u]).obj : u \in children[t]}
      phase == Last(label[t]).value.phase
      MarkAll(labels) == [s \in DOMAIN labels |-> MarkTaskwaited(labels[s], marked, phase)]
      mutated == mutateTaskWait(label[t], NextStretch(t))
  IN  /\ "taskwait" \in Constructs
      /\ CanStep(t) /\ t # InitialTask
      /\ Over(Created(t, 0))
      /\ Relabel(t, MarkAll(Labels(t, mutated)), MarkAll(Records(t, mutated)),
                 Upto(t) \cup UNION {Upto(u) : u \in Created(t, 0)})
      /\ children' = [children EXCEPT ![t] = {}]
      /\ UNCHANGED <<app, edges, status, groups, singles, taken, dispatched, base, orderedPast>>

\* sync_region, begin of a taskgroup
TaskGroupBegin(t) ==
  /\ "taskgroup" \in Constructs
  /\ CanStep(t) /\ t # InitialTask
  /\ Continue(t, mutateTaskGroupBegin(label[t], NextStretch(t)), Upto(t))
  /\ groups' = [groups EXCEPT ![t] = Append(@, clock[t] + 1)]
  /\ UNCHANGED <<app, children, edges, status, singles, taken, dispatched, base, orderedPast>>

\* sync_region, end of a taskgroup: markExpChildSyncTaskGroupEnd goes by the
\* length of the children's labels and by the id of the group.
TaskGroupEnd(t) ==
  LET joined == CreatedBelow(t, Last(groups[t]))
      inGroup == {u \in children[t] :
                    /\ Len(label[u]) <= Len(label[t])
                    /\ Last(label[u]).taskGroupId = Last(label[t]).taskGroupId}
      marked == {Last(label[u]).obj : u \in inGroup}
      MarkAll(labels) == [s \in DOMAIN labels |-> MarkTaskGroupSync(labels[s], marked)]
      mutated == mutateTaskGroupEnd(label[t], NextStretch(t))
  IN  /\ CanStep(t) /\ groups[t] # <<>>
      /\ Over(joined)
      /\ Relabel(t, MarkAll(Labels(t, mutated)), MarkAll(Records(t, mutated)),
                 Upto(t) \cup UNION {Upto(u) : u \in joined})
      /\ children' = [children EXCEPT ![t] = @ \ inGroup]
      /\ groups' = [groups EXCEPT ![t] = Front(@)]
      /\ UNCHANGED <<app, edges, status, singles, taken, dispatched, base, orderedPast>>

-----------------------------------------------------------------------------
(* Workshares, which begin and end outside taskgroups *)

AtWorkshare(t) == CanStep(t) /\ IsImplicit(t) /\ groups[t] = <<>>

\* Without nowait the end of a workshare is an implicit barrier.
AtWorkshareEnd(t) ==
  status' = IF "nowait" \in Constructs THEN status ELSE [status EXCEPT ![t] = "atBarrier"]

\* work, begin of a single: the first thread to come is the executor.
SingleBegin(t) ==
  LET single == <<Region(t), singles[t]>>
      who == IF single \in taken THEN "other" ELSE "executor"
  IN  /\ "single" \in Constructs
      /\ AtWorkshare(t) /\ Plain(t)
      /\ Continue(t, mutateSingleBegin(label[t], who, NextStretch(t)), Upto(t))
      /\ taken' = taken \cup {single}
      /\ singles' = [singles EXCEPT ![t] = @ + 1]
      /\ UNCHANGED <<app, children, edges, status, groups, dispatched, base, orderedPast>>

\* work, end of a single, of the executor and of the others
SingleEnd(t) ==
  /\ AtWorkshare(t) /\ ~Plain(t) /\ ~InLoop(t)
  /\ Continue(t, mutateSingleEnd(label[t]), Upto(t))
  /\ AtWorkshareEnd(t)
  /\ UNCHANGED <<app, children, edges, groups, singles, taken, dispatched, base, orderedPast>>

\* work, begin of a loop or of sections
LoopBegin(t) ==
  /\ {"loop", "sections"} \cap Constructs # {}
  /\ AtWorkshare(t) /\ Plain(t)
  /\ Continue(t, mutateLoopBegin(label[t], NextStretch(t)), Upto(t))
  /\ base' = [base EXCEPT ![t] = Upto(t)]
  /\ UNCHANGED <<app, children, edges, status, groups, singles, taken, dispatched, orderedPast>>

\* Iteration i of the loop the thread is in.
Iteration(t, i) == <<Region(t), label[t][Len(label[t]) - 1].value.loopCount, i>>

\* In a loop with an ordered region every iteration executes it once.
IterationOver(t) ==
  "ordered" \in Constructs /\ InIteration(t) => Last(label[t]).value.phase = 2

\* dispatch: iterations and sections are tasks of their own to the detector,
\* concurrent with each other no matter which thread runs them.
Dispatch(t, i, section) ==
  /\ (IF section THEN "sections" ELSE "loop") \in Constructs
  /\ AtWorkshare(t) /\ InLoop(t) /\ IterationOver(t)
  /\ <<Iteration(t, i), section>> \notin dispatched
  /\ \A j \in 1..Iterations : <<Iteration(t, j), ~section>> \notin dispatched
  /\ Last(label[t]).workShareId < i
  /\ Continue(t, mutateWorkShareDispatch(label[t], i, section, NextStretch(t)), base[t])
  /\ dispatched' = dispatched \cup {<<Iteration(t, i), section>>}
  /\ UNCHANGED <<app, children, edges, status, groups, singles, taken, base, orderedPast>>

\* work, end of a loop or of sections
LoopEnd(t) ==
  /\ AtWorkshare(t) /\ InLoop(t) /\ IterationOver(t)
  /\ Continue(t, mutateLoopEnd(label[t], NextStretch(t)), base[t])
  /\ AtWorkshareEnd(t)
  /\ UNCHANGED <<app, children, edges, groups, singles, taken, dispatched, base, orderedPast>>

\* mutex_acquired with ompt_mutex_ordered: the iterations before have left
\* their ordered regions.
OrderedBegin(t) ==
  LET id == Last(label[t]).workShareId
      before == {Iteration(t, j) : j \in 1..id-1}
  IN  /\ "ordered" \in Constructs
      /\ AtWorkshare(t) /\ InIteration(t)
      /\ Last(label[t]).value.phase = 0
      /\ before \subseteq DOMAIN orderedPast
      /\ Continue(t, mutateOrderSection(label[t], NextStretch(t)),
                  Upto(t) \cup UNION {orderedPast[b] : b \in before})
      /\ UNCHANGED <<app, children, edges, status, groups, singles, taken, dispatched, base, orderedPast>>

\* mutex_released with ompt_mutex_ordered.  What is passed on to the later
\* iterations is what this one and those before it did: which thread ran
\* them, after which code of its own, is up to the schedule.
OrderedEnd(t) ==
  /\ AtWorkshare(t) /\ InIteration(t)
  /\ Last(label[t]).value.phase = 1
  /\ Continue(t, mutateOrderSection(label[t], NextStretch(t)), Upto(t))
  /\ orderedPast' = Extend(orderedPast, One(Iteration(t, Last(label[t]).workShareId), Upto(t) \ base[t]))
  /\ UNCHANGED <<app, children, edges, status, groups, singles, taken, dispatched, base>>

-----------------------------------------------------------------------------

Next == \/ \E t \in Tasks : \E size \in TeamSizes : ParallelBegin(t, size)
        \/ \E t \in Tasks : \E kind \in {"atBarrier", "atEnd"} : BarrierBegin(t, kind)
        \/ \E r \in {Region(t) : t \in {u \in Tasks : IsImplicit(u)}} : BarrierComplete(r)
        \/ \E t \in Tasks : BarrierEnd(t)
        \/ \E t \in Tasks : ImplicitTaskEnd(t)
        \/ \E t \in Tasks : \E preds \in SUBSET children[t] : Cardinality(preds) <= 1 /\ TaskCreate(t, preds)
        \/ \E u \in Tasks : TaskStart(u)
        \/ \E t \in Tasks : TaskCreateUndeferred(t)
        \/ \E t \in Tasks : WorkTaskLoop(t)
        \/ \E t \in Tasks : TaskComplete(t)
        \/ \E t \in Tasks : TaskWait(t)
        \/ \E t \in Tasks : TaskGroupBegin(t)
        \/ \E t \in Tasks : TaskGroupEnd(t)
        \/ \E t \in Tasks : SingleBegin(t)
        \/ \E t \in Tasks : SingleEnd(t)
        \/ \E t \in Tasks : LoopBegin(t)
        \/ \E t \in Tasks : LoopEnd(t)
        \/ \E t \in Tasks : OrderedBegin(t)
        \/ \E t \in Tasks : OrderedEnd(t)
        \/ \E t \in Tasks : \E i \in 1..Iterations, section \in BOOLEAN : Dispatch(t, i, section)

Spec == Init /\ [][Next]_vars

-----------------------------------------------------------------------------
(* Properties *)

SegmentOK(seg) == /\ seg.value \in Value
                  /\ seg.workShareId \in Nat
                  /\ seg.single \in {"no", "executor", "other"}
                  /\ seg.taskGroupId \in Nat /\ seg.taskGroupLevel \in Nat
                  /\ seg.taskwaitPhase \in Nat

\* Labels are sequences of well-formed segments, a counter never leaves its
\* field, and a running task has the label its depth and its workshare call for.
TypeOK ==
  /\ app \in Programs
  /\ \A d \in {DOMAIN children, DOMAIN status, DOMAIN clock, DOMAIN groups, DOMAIN singles,
             DOMAIN past, DOMAIN base} : d = Tasks
  /\ \A t \in Tasks :
       /\ \A k \in DOMAIN label[t] : SegmentOK(label[t][k])
       /\ children[t] \subseteq Created(t, 0)
       /\ status[t] \in {"running", "waiting", "forked", "atBarrier", "atEnd", "released", "ended", "over"}
       /\ clock[t] \in 0..MaxSteps[Len(t) + 1] + 1  \* one more for the barrier of a workshare
       /\ Running(t) /\ Plain(t) =>
            Last(label[t]).value.type = IF IsExplicit(t) THEN "eExplicit" ELSE "eImplicit"
  /\ \A s \in DOMAIN recorded : s[1] \in Tasks /\ \A k \in DOMAIN recorded[s] : SegmentOK(recorded[s][k])

\* An access of the stretch s may be in the history when t accesses the same
\* location.
Compared(s, t) == /\ s \in DOMAIN recorded
                  /\ Running(t) /\ Accesses(t, label[t])
                  /\ s # Stretch(t)

RealOrder(s, t) == s \in past[t]

PathIn(graph, p, q) ==
  LET Reach[n \in Nat] ==
        IF n = 0 THEN {p}
                 ELSE Reach[n - 1] \cup {e[2] : e \in {d \in graph : d[1] \in Reach[n - 1]}}
  IN  p # q /\ q \in Reach[Cardinality(graph)]

\* analyzeRaceCondition asks the graph about two explicit tasks.
HasPath(p, q) == IsExplicit(p) /\ IsExplicit(q) /\ PathIn(edges, p, q)

Detected(s, t) == IsRace(recorded[s], label[t]) /\ ~HasPath(s[1], t)

\* Accesses nothing orders are reported: happensBefore answers "false if hist
\* task is logically concurrent with current task" (Core.cpp, line 103).
ConcurrentReported ==
  \A s \in DOMAIN recorded, t \in Tasks :
    Compared(s, t) /\ ~RealOrder(s, t) => Detected(s, t)

\* Ordered accesses are not reported: happensBefore answers "true if hist task
\* happens before current task" (Core.cpp, line 102).
OrderedSilent ==
  \A s \in DOMAIN recorded, t \in Tasks :
    "silent" \in app.claims /\ Compared(s, t) /\ RealOrder(s, t) => ~Detected(s, t)

\* The data of an implicit task are deleted when it is over (Callbacks.cpp, lines
\* 50 and 90) although records keep a pointer to them.  analyzeRaceCondition reads
\* them (Core.cpp, lines 49 and 50) if the current task is explicit and the labels
\* do not order the pair.
DeletedDataNotRead ==
  \A s \in DOMAIN recorded, t \in Tasks :
    /\ Compared(s, t) /\ IsExplicit(t) /\ IsRace(recorded[s], label[t]) /\ IsImplicit(s[1])
    => status[s[1]] # "over"

\* A task that is to run has a label: "create label for explicit task"
\* (Callbacks.cpp, line 473).
RunningTasksLabelled == \A t \in Tasks : status[t] = "running" => label[t] # NoLabel

\* compareLabels looks at a segment of the recorded label and then at that of the
\* current one, which may be the same object; the end of a taskwait of p, in
\* another thread, may mark it between the two looks.  A pair that is ordered,
\* silent before the mark and silent after it, is silent then as well: "Return true
\* if hist task happens before current task" (Core.cpp, line 102).
SilentWhileMarked ==
  \A s \in DOMAIN recorded, t \in Tasks, p \in Tasks :
    /\ Compared(s, t) /\ RealOrder(s, t)
    /\ Running(p) /\ p # t /\ "taskwait" \in Constructs /\ Over(Created(p, 0))
    => \A u \in children[p] :
         LET Marked(l) == MarkTaskwaited(l, {Last(label[u]).obj}, Last(label[p]).value.phase)
             hist == recorded[s]
             cur == label[t]
         IN  ~IsRace(hist, cur) /\ ~IsRace(Marked(hist), Marked(cur))
               => ~IsRaceFrom(Marked(hist), Marked(cur), compareLabels(hist, Marked(cur)))

\* No check in the analysis fails, and nothing "unexpected" is met: the
\* RAW_CHECKs and FATAL messages of happensBefore and its callees.
ChecksPass ==
  \A s \in DOMAIN recorded, t \in Tasks :
    Compared(s, t) => happensBefore(recorded[s], label[t]) # "abort"

\* A label that is a prefix of a recorded one belongs to what the same task does
\* next: "current record -> hist record" (Core.cpp, line 115).
PrefixIsOrdered ==
  \A s \in DOMAIN recorded, t \in Tasks :
    Compared(s, t) /\ compareLabels(recorded[s], label[t]) = eRightIsPrefix => RealOrder(s, t)

\* "This function analyzes if T(histLabel) and T(curLabel) are synchronized by
\* task group construct" (Core.cpp, line 578): where it says so they are ordered.
GroupSyncIsOrder ==
  \A s \in DOMAIN recorded, t \in Tasks :
    LET i == compareLabels(recorded[s], label[t])
    IN  /\ Compared(s, t)
        /\ i > 0 /\ i < Len(recorded[s]) /\ i < Len(label[t])
        /\ Type(recorded[s][i + 1]) = "eExplicit" /\ Type(label[t][i + 1]) = "eExplicit"
        /\ analyzeTaskGroupSync(recorded[s], label[t], i)
        => RealOrder(s, t)

\* Of two explicit tasks with the same parent, a taskwait or the end of a
\* taskgroup between them keeps the detector silent.
SiblingsSilent ==
  \A s \in DOMAIN recorded, t \in Tasks :
    Compared(s, t) /\ RealOrder(s, t) /\ IsExplicit(s[1]) /\ IsExplicit(t) /\ Front(s[1]) = Front(t)
      => ~Detected(s, t)

\* A pair that escapes the detector is always one of a task and a task below
\* it, with an explicit task on the way: the first has gone on after creating
\* the way to the second (Callbacks.cpp, mutateParentTaskCreate).  What two
\* threads do without tasks between them is never missed.  With taskgroups more
\* escapes, see GroupSyncIsOrder.
OnlyAncestorsMissed ==
  "ancestors" \in app.claims =>
    \A s \in DOMAIN recorded, t \in Tasks :
      Compared(s, t) /\ ~RealOrder(s, t) /\ ~Detected(s, t)
        => IsPrefix(s[1], t) /\ \E k \in Len(s[1])+1 .. Len(t) : t[k][2] = NoIndex
=============================================================================
