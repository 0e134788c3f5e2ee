-------------------------- MODULE TaskProgramProofs --------------------------
(***************************************************************************)
(* What labels tell of programs of explicit tasks, taskwaits and barriers, *)
(* whatever the number of their threads, the depth of their tasks and the  *)
(* number of their barriers, as long as no offset wraps.  The detector     *)
(* takes for ordered only what is ordered or of a task above.  It takes    *)
(* for concurrent only what is, unless a task waits for one that has       *)
(* created tasks itself.                                                   *)
(***************************************************************************)
EXTENDS TaskingProofs, FiniteSetTheorems

-----------------------------------------------------------------------------
(* Programs of tasks, taskwaits and barriers                                *)

\* Explicit tasks that create tasks to any depth and wait for them, in the
\* regions that the initial task forks, with any number of barriers, as long as
\* no offset wraps: M bounds the stretches of a task.
TaskProgram(M) == /\ Constructs \subseteq {"barrier", "task", "taskwait"}
                  /\ Len(MaxSteps) > 0 /\ \A d \in DOMAIN MaxSteps : MaxSteps[d] <= M
                  /\ 1 + M * (M + 1) <= OffsetLimit

\* Nobody waits for a task that has created tasks.
Shallow == "taskwait" \notin Constructs \/ Len(MaxSteps) <= 3

\* Below the members of a team there are explicit tasks only.
TaskPaths == Seq(Nat \X Int)
TaskPath(t) == /\ t \in TaskPaths
               /\ t # InitialTask => t[1][2] \in Nat
               /\ \A i \in 2..Len(t) : t[i][2] = NoIndex

\* The segments of such programs
TaskValue == [type : {"eImplicit", "eExplicit"}, offset : 0..OffsetLimit-1, span : Nat,
              taskwait : Nat, phase : {0}, loopCount : {0}, taskcreate : Nat,
              bit2 : {FALSE}, taskwaited : BOOLEAN, taskGroupSync : {FALSE}]
TaskSegment == [value : TaskValue, workShareId : {0}, single : {"no"}, taskGroupId : {0},
                taskGroupLevel : {0}, taskwaitPhase : {0}, obj : TaskPaths \X Nat]

\* What the detector reads of them
Waits(l, i) == l[i].value.taskwait
Creates(l, i) == l[i].value.taskcreate
Waited(l, i) == l[i].value.taskwaited

\* The segment of the initial task counts barriers and nothing else.
FirstSegment(seg) == /\ seg \in TaskSegment
                     /\ seg.value.type = "eImplicit" /\ seg.value.span = 1
                     /\ seg.value.taskwait = 0 /\ seg.value.taskcreate = 0 /\ ~seg.value.taskwaited

\* The label of a task has one segment more for every task on its path, which
\* is an object that this task made.
TaskLabel(p, l) ==
  /\ l \in Seq(TaskSegment) /\ Len(l) = Len(p) + 1
  /\ FirstSegment(l[1])
  /\ Type(l[2]) = "eImplicit" /\ Offset(l, 2) = p[1][2] /\ Offset(l, 2) < Span(l, 2)
  /\ \A i \in 3..Len(l) : Type(l[i]) = "eExplicit" /\ Span(l, i) = 1 /\ Offset(l, i) = 0
  /\ \A i \in 2..Len(l) : l[i].obj[1] = SubSeq(p, 1, i - 1)

-----------------------------------------------------------------------------
(* The invariant of programs of tasks                                       *)

\* The tasks below the initial one, and their stretches
Lower == Tasks \ {InitialTask}
Stretches == UNION {{t} \X (0..clock[t]) : t \in Lower}

\* The label of stretch n of p, the current one, and the place of the task's own
\* segment in them
At(p, n) == recorded[<<p, n>>]
Now(t) == recorded[Stretch(t)]
Own(t) == Len(t) + 1

\* Tasks are paths, and stretches are recorded from the first to the current one.
TaskTyped ==
  /\ app \in Programs /\ InitialTask \in Tasks
  /\ DOMAIN status = Tasks /\ DOMAIN clock = Tasks /\ DOMAIN groups = Tasks
  /\ DOMAIN past = Tasks /\ DOMAIN children = Tasks
  /\ DOMAIN recorded = Stretches /\ edges = {}
  /\ status[InitialTask] \in {"running", "forked"}
  /\ label[InitialTask] \in Seq(TaskSegment) /\ Len(label[InitialTask]) = 1
  /\ FirstSegment(label[InitialTask][1])
  /\ \A t \in Tasks :
       /\ TaskPath(t) /\ Len(t) + 1 <= Len(MaxSteps)
       /\ status[t] \in {"running", "forked", "atBarrier", "atEnd", "released", "ended", "over"}
       /\ Len(t) > 1 => status[t] \in {"running", "over"}
       /\ clock[t] \in Nat /\ groups[t] = <<>>
       /\ \A s \in past[t] : s \in {InitialTask} \X Nat \/ s \in Stretches
       /\ \A u \in children[t] : u \in Tasks /\ Len(u) > 1 /\ Front(u) = t

\* Who is on a path exists, and had made its part of the path by now.
TaskTree == \A t \in Tasks :
              /\ \A j \in 0..Len(t) : SubSeq(t, 1, j) \in Tasks
              /\ \A j \in 0..Len(t) - 1 :
                   /\ t[j + 1][1] <= clock[SubSeq(t, 1, j)]
                   /\ j > 0 \/ status[InitialTask] = "running" => t[j + 1][1] < clock[SubSeq(t, 1, j)]

\* Records are labels of their tasks; the segments of the tasks above are those
\* of the stretches that created the way.
TaskLabels ==
  /\ \A s \in Stretches :
       /\ TaskLabel(s[1], recorded[s])
       /\ \A i \in 2..Len(s[1]) : recorded[s][i] = At(SubSeq(s[1], 1, i - 1), s[1][i][1])[i]
  /\ \A s, r \in Stretches : s[1][1][1] = r[1][1][1] => Span(recorded[s], 2) = Span(recorded[r], 2)
  /\ "taskwait" \notin Constructs => \A s \in Stretches : Waits(recorded[s], Own(s[1])) = 0

\* The first segment is never the object of another.
TaskObjects ==
  /\ \A s \in Stretches : recorded[s][Own(s[1])].obj[2] <= clock[s[1]]
  /\ \A o \in {recorded[r][1].obj : r \in Stretches} \cup {label[InitialTask][1].obj} :
       /\ o[1] \in Tasks /\ (o[2] <= clock[o[1]] \/ status[o[1]] = "over")
       /\ \A s \in Stretches : recorded[s][Own(s[1])].obj # o

\* The counters of a task grow, and every task that it creates is counted.
TaskCounts ==
  \A p \in Lower : \A n, m \in 0..clock[p] : n < m =>
    /\ Waits(At(p, n), Own(p)) <= Waits(At(p, m), Own(p))
    /\ Creates(At(p, n), Own(p)) <= Creates(At(p, m), Own(p))
    /\ Append(p, <<n, NoIndex>>) \in Tasks => Creates(At(p, n), Own(p)) < Creates(At(p, m), Own(p))

\* The label of a task that lives is recorded; that of one that is over lacks the
\* segment of its own.
TaskCurrent ==
  \A t \in Lower :
    /\ Live(t) => label[t] = Now(t)
    /\ ~Live(t) /\ Len(t) > 1 => /\ label[t] \in Seq(TaskSegment) /\ Len(label[t]) = Len(t)
                                 /\ \A i \in 1..Len(t) : label[t][i] = Now(t)[i]

\* The number of the barriers so far, as it is when the task goes on.
Leaving(t) == IF status[t] \in {"released", "ended"} THEN 1 ELSE 0
Epoch(t) == Offset(Now(t), 1) + Leaving(t)

\* Who lives is in one region and past the same barriers; what was recorded
\* before the last of them has happened before.
TaskEpochs ==
  /\ \A t \in Lower : Live(t) => status[InitialTask] = "forked" /\ t[1][1] = clock[InitialTask]
  /\ \A t, u \in Lower : Live(t) /\ Live(u) => Epoch(t) = Epoch(u)
  /\ \A t \in Lower : \A s \in Stretches : Live(t) =>
       /\ Offset(recorded[s], 1) <= Epoch(t)
       /\ Offset(recorded[s], 1) = Epoch(t) => s[1][1][1] = t[1][1]
       /\ Offset(recorded[s], 1) < Epoch(t) => s \in past[t]
  /\ status[InitialTask] = "running" =>
       \A s \in Stretches : Offset(recorded[s], 1) < Offset(label[InitialTask], 1) /\ s \in past[InitialTask]

\* The bounds that keep the offset from wrapping
TaskBounds(M) ==
  /\ clock[InitialTask] <= M
  /\ status[InitialTask] = "forked" => clock[InitialTask] < M
  /\ Offset(label[InitialTask], 1) <= clock[InitialTask] * (M + 1)
  /\ \A t \in Lower : Len(t) = 1 /\ Live(t) =>
       /\ clock[t] <= M
       /\ status[t] \in {"atBarrier", "released"} => clock[t] < M
       /\ Epoch(t) <= clock[InitialTask] * (M + 1) + clock[t] + Leaving(t)

\* When a member of a team is over, or ends the region, it is the last to live; it
\* ends the region past a barrier that nobody else is past.
TaskEnds ==
  /\ \A t, u \in Lower : Live(t) /\ t # u /\ t[1][1] = u[1][1] /\ Len(u) = 1
                         => status[u] # "ended" /\ (status[u] = "over" => status[t] = "ended")
  /\ \A t \in Lower : status[t] = "ended" => \A s \in Stretches : Offset(recorded[s], 1) < Epoch(t)

\* Who is waited for is over; what a task made last is not marked; as long as a
\* task lives its parent has not waited since it created the task.
TaskMarks ==
  /\ \A s \in Stretches : \A i \in 2..Len(s[1]) :
       Waited(recorded[s], i) => status[SubSeq(s[1], 1, i)] = "over"
  /\ \A t \in Lower : ~Waited(Now(t), Own(t))
  /\ \A t \in Lower : Len(t) > 1 /\ Live(t) =>
       \A d \in 0..clock[Front(t)] : Waits(At(Front(t), d), Len(t)) <= Waits(Now(t), Len(t))

\* Everybody on the way from position j down to the task of s has been waited for.
Chain(s, j) == \A i \in j..Len(s[1]) : Waited(recorded[s], i)

\* The task at depth j, where the ways to s and to t part or that to t ends, has
\* waited since it created the way to s.
Joined(s, t, j) == /\ j <= Len(t) /\ SamePath(s[1], t, j)
                   /\ j < Len(t) => s[1][j + 1] # t[j + 1]
                   /\ Waits(recorded[s], j + 1) < Waits(Now(t), j + 1)

\* Where everybody was waited for, s has happened.
TaskChain == \A s \in Stretches : \A j \in 1..Len(s[1]) - 1 :
               Chain(s, j + 1) => s \in past[SubSeq(s[1], 1, j)]
TaskWaited == \A s \in Stretches, t \in Lower : \A j \in 1..Len(s[1]) - 1 :
                Live(t) /\ Joined(s, t, j) /\ Chain(s, j + 2) => s \in past[t]

\* s is of t itself, or of a task above it until it created the way to t.
Lineage(s, t) == \/ s[1] = t /\ s[2] < clock[t]
                 \/ Below(s[1], t) /\ s[2] <= t[Len(s[1]) + 1][1]
TaskLineage ==
  /\ \A s \in Stretches, t \in Lower : Live(t) /\ Lineage(s, t) => s \in past[t]
  /\ \A t \in Lower : Len(t) > 1 => \A n \in 0..clock[t] - 1 : <<t, n>> \in past[t]

\* Nothing else has happened before than what a barrier, a creation or a taskwait
\* puts there.
TaskPast == \A t \in Lower : Live(t) \/ Len(t) > 1 =>
              \A s \in past[t] \cap Stretches : \/ Offset(recorded[s], 1) < Epoch(t)
                                                \/ Lineage(s, t)
                                                \/ \E j \in 1..Len(s[1]) - 1 : Joined(s, t, j)

\* The inductive invariant
TaskInv(M) == /\ TaskTyped /\ TaskTree /\ TaskLabels /\ TaskObjects /\ TaskCounts /\ TaskCurrent
           /\ TaskEpochs /\ TaskBounds(M) /\ TaskEnds /\ TaskMarks /\ TaskChain /\ TaskWaited
           /\ TaskLineage /\ TaskPast

-----------------------------------------------------------------------------
(* Paths, stretches and segments of such programs                           *)

\* The path of the ancestor of t at depth j
LEMMA PathTo ==
  ASSUME NEW t \in TaskPaths, NEW j \in 0..Len(t)
  PROVE  /\ SubSeq(t, 1, j) \in TaskPaths /\ Len(SubSeq(t, 1, j)) = j
         /\ \A i \in 1..j : SubSeq(t, 1, j)[i] = t[i]
         /\ j = Len(t) => SubSeq(t, 1, j) = t
         /\ j = 0 <=> SubSeq(t, 1, j) = InitialTask
<1>1. /\ SubSeq(t, 1, j) \in TaskPaths /\ Len(SubSeq(t, 1, j)) = j
      /\ \A i \in 1..j : SubSeq(t, 1, j)[i] = t[i]
  BY Initial DEF TaskPaths
<1>2. j = Len(t) => SubSeq(t, 1, j) = t
  BY SubSeqFull DEF TaskPaths
<1>3. j = 0 <=> SubSeq(t, 1, j) = InitialTask
  BY <1>1, Sequences DEF TaskPaths, InitialTask
<1> QED
  BY <1>1, <1>2, <1>3

\* Equal paths up to position n lead through the same ancestor there.
LEMMA SamePathTo ==
  ASSUME NEW t \in TaskPaths, NEW u \in TaskPaths, NEW n \in 0..Len(t), n <= Len(u), SamePath(t, u, n)
  PROVE  SubSeq(t, 1, n) = SubSeq(u, 1, n)
<1>1. n \in 0..Len(t) /\ n \in 0..Len(u)
  BY Sequences DEF TaskPaths
<1>2. /\ SubSeq(t, 1, n) \in TaskPaths /\ Len(SubSeq(t, 1, n)) = n
      /\ \A i \in 1..n : SubSeq(t, 1, n)[i] = t[i]
  BY PathTo
<1>3. /\ SubSeq(u, 1, n) \in TaskPaths /\ Len(SubSeq(u, 1, n)) = n
      /\ \A i \in 1..n : SubSeq(u, 1, n)[i] = u[i]
  BY <1>1, PathTo
<1>4. \A i \in 1..n : SubSeq(t, 1, n)[i] = SubSeq(u, 1, n)[i]
  BY <1>2, <1>3 DEF SamePath
<1> QED
  BY <1>2, <1>3, <1>4, SeqEqual DEF TaskPaths

\* The ancestor of an ancestor
LEMMA PathToPath ==
  ASSUME NEW t \in TaskPaths, NEW j \in 0..Len(t), NEW i \in 0..j
  PROVE  SubSeq(SubSeq(t, 1, j), 1, i) = SubSeq(t, 1, i)
<1>1. Len(t) \in Nat
  BY Sequences DEF TaskPaths
<1>2. /\ SubSeq(t, 1, j) \in TaskPaths /\ Len(SubSeq(t, 1, j)) = j
      /\ \A k \in 1..j : SubSeq(t, 1, j)[k] = t[k]
  BY PathTo
<1>3. SamePath(SubSeq(t, 1, j), t, i) /\ i \in 0..Len(SubSeq(t, 1, j)) /\ i <= Len(t)
  BY <1>1, <1>2 DEF SamePath
<1> QED
  BY <1>2, <1>3, SamePathTo

\* A path that is the beginning of another is that of an ancestor, or the same.
LEMMA IsPathTo ==
  ASSUME NEW a \in TaskPaths, NEW t \in TaskPaths, Len(a) <= Len(t), SamePath(a, t, Len(a))
  PROVE  a = SubSeq(t, 1, Len(a)) /\ (Len(a) = Len(t) => a = t)
<1>1. Len(a) \in Nat /\ Len(t) \in Nat /\ Len(a) \in 0..Len(a)
  BY Sequences DEF TaskPaths
<1>2. SubSeq(a, 1, Len(a)) = SubSeq(t, 1, Len(a))
  BY <1>1, SamePathTo
<1>3. SubSeq(a, 1, Len(a)) = a
  BY <1>1, PathTo
<1>4. Len(a) = Len(t) => SubSeq(t, 1, Len(a)) = t
  BY <1>1, PathTo
<1> QED
  BY <1>2, <1>3, <1>4

\* Two paths part somewhere, or one of them ends.
LEMMA Meeting ==
  ASSUME NEW t \in TaskPaths, NEW u \in TaskPaths
  PROVE  \E n \in 0..Len(t) : /\ n <= Len(u) /\ SamePath(t, u, n)
                              /\ n < Len(t) /\ n < Len(u) => t[n + 1] # u[n + 1]
<1>1. Len(t) \in Nat /\ Len(u) \in Nat
  BY Sequences DEF TaskPaths
<1> DEFINE T == {i \in Nat : i = Len(t) \/ i = Len(u) \/ t[i + 1] # u[i + 1]}
<1>2. Len(t) \in T /\ Len(u) \in T
  BY <1>1
<1>3. PICK n \in T : \A j \in T : n <= j
  BY <1>2, LeastOf
<1>4. n \in Nat /\ n <= Len(t) /\ n <= Len(u)
  BY <1>2, <1>3
<1>5. ASSUME NEW i \in 1..n PROVE t[i] = u[i]
  <2>1. i - 1 \in Nat /\ ~(n <= i - 1) /\ (i - 1) + 1 = i
    BY <1>4
  <2>2. i - 1 \notin T
    BY <1>3, <2>1
  <2> QED
    BY <2>1, <2>2
<1>6. n < Len(t) /\ n < Len(u) => t[n + 1] # u[n + 1]
  BY <1>1, <1>3
<1> QED
  BY <1>1, <1>4, <1>5, <1>6 DEF SamePath

\* What the proofs need of a task
LEMMA OfTask ==
  ASSUME TaskTyped, NEW t \in Tasks
  PROVE  /\ t \in TaskPaths /\ Len(t) \in Nat /\ clock[t] \in Nat /\ groups[t] = <<>>
         /\ Len(t) = 0 <=> t = InitialTask
         /\ t \in Lower <=> Len(t) > 0
         /\ Len(t) + 1 <= Len(MaxSteps)
         /\ t \in Lower => t[1][2] \in Nat
         /\ \A i \in 2..Len(t) : t[i][2] = NoIndex
         /\ \A i \in 1..Len(t) : t[i][1] \in Nat /\ t[i] = <<t[i][1], t[i][2]>>
         /\ status[t] \in {"running", "forked", "atBarrier", "atEnd", "released", "ended", "over"}
         /\ Len(t) > 1 => status[t] \in {"running", "over"}
<1>1. /\ TaskPath(t) /\ clock[t] \in Nat /\ groups[t] = <<>> /\ Len(t) + 1 <= Len(MaxSteps)
      /\ status[t] \in {"running", "forked", "atBarrier", "atEnd", "released", "ended", "over"}
      /\ Len(t) > 1 => status[t] \in {"running", "over"}
  BY DEF TaskTyped
<1>2. t \in TaskPaths /\ Len(t) \in Nat /\ (Len(t) = 0 <=> t = InitialTask)
  BY <1>1, Sequences DEF TaskPath, TaskPaths, InitialTask
<1>3. t \in Lower <=> t # InitialTask
  BY DEF Lower
<1>4. ASSUME NEW i \in 1..Len(t) PROVE t[i][1] \in Nat /\ t[i] = <<t[i][1], t[i][2]>>
  <2>1. t[i] \in Nat \X Int
    BY <1>2, Sequences DEF TaskPaths
  <2> QED
    BY <2>1
<1> QED
  BY <1>1, <1>2, <1>3, <1>4 DEF TaskPath

\* The stretches are those of the tasks up to their clocks.
LEMMA StretchIs ==
  ASSUME NEW s
  PROVE  s \in Stretches <=> s[1] \in Lower /\ s[2] \in 0..clock[s[1]] /\ s = <<s[1], s[2]>>
<1>1. ASSUME s \in Stretches PROVE s[1] \in Lower /\ s[2] \in 0..clock[s[1]] /\ s = <<s[1], s[2]>>
  <2>1. PICK t \in Lower : s \in {t} \X (0..clock[t])
    BY <1>1 DEF Stretches
  <2> QED
    BY <2>1
<1>2. ASSUME s[1] \in Lower, s[2] \in 0..clock[s[1]], s = <<s[1], s[2]>> PROVE s \in Stretches
  <2>1. s \in {s[1]} \X (0..clock[s[1]])
    BY <1>2
  <2> QED
    BY <1>2, <2>1 DEF Stretches
<1> QED
  BY <1>1, <1>2

\* So is any number up to the clock one.
LEMMA StretchOf ==
  ASSUME NEW t \in Lower, NEW n \in 0..clock[t]
  PROVE  <<t, n>> \in Stretches /\ <<t, n>>[1] = t /\ <<t, n>>[2] = n
BY StretchIs

\* Every stretch of a path is in a stretch of the tasks above: who created the
\* next task on the way did so in it.
In(s, j) == IF j < Len(s[1]) THEN s[1][j + 1][1] ELSE s[2]
Way(s, j) == <<SubSeq(s[1], 1, j), In(s, j)>>

\* What the proofs need of a stretch
LEMMA OfStretch ==
  ASSUME TaskTyped, NEW s \in Stretches
  PROVE  /\ s[1] \in Lower /\ s[1] \in Tasks /\ s[1] \in TaskPaths
         /\ Len(s[1]) \in Nat \ {0} /\ s[1] # InitialTask
         /\ s[2] \in Nat /\ s[2] <= clock[s[1]] /\ clock[s[1]] \in Nat /\ s = <<s[1], s[2]>>
         /\ recorded[s] = At(s[1], s[2]) /\ Own(s[1]) = Len(s[1]) + 1 /\ s \in DOMAIN recorded
<1>1. s[1] \in Lower /\ s[2] \in 0..clock[s[1]] /\ s = <<s[1], s[2]>>
  BY StretchIs
<1>2. s[1] \in Tasks /\ s[1] # InitialTask
  BY <1>1 DEF Lower
<1>3. /\ s[1] \in TaskPaths /\ Len(s[1]) \in Nat /\ clock[s[1]] \in Nat
      /\ Len(s[1]) # 0
  BY <1>2, OfTask
<1>4. s \in DOMAIN recorded
  BY DEF TaskTyped
<1> QED
  BY <1>1, <1>2, <1>3, <1>4 DEF At, Own

\* The stretches on the way to a stretch exist; the segments of its label are
\* theirs.
LEMMA OfWay ==
  ASSUME TaskTyped, TaskTree, TaskLabels, NEW s \in Stretches, NEW j \in 1..Len(s[1])
  PROVE  /\ Way(s, j) \in Stretches /\ Way(s, j)[1] = SubSeq(s[1], 1, j) /\ Way(s, j)[2] = In(s, j)
         /\ SubSeq(s[1], 1, j) \in Lower /\ Len(SubSeq(s[1], 1, j)) = j
         /\ In(s, j) \in 0..clock[SubSeq(s[1], 1, j)]
         /\ recorded[s][j + 1] = At(SubSeq(s[1], 1, j), In(s, j))[j + 1]
<1>1. /\ s[1] \in Lower /\ s[1] \in Tasks /\ s[1] \in TaskPaths /\ Len(s[1]) \in Nat \ {0}
      /\ s[2] \in Nat /\ s[2] <= clock[s[1]] /\ clock[s[1]] \in Nat
      /\ recorded[s] = At(s[1], s[2])
  BY OfStretch
<1> DEFINE a == SubSeq(s[1], 1, j)
<1>2. j \in 0..Len(s[1]) /\ j # 0
  BY <1>1
<1>3. a \in Tasks
  BY <1>1, <1>2 DEF TaskTree
<1>4. Len(a) = j /\ (j = Len(s[1]) => a = s[1]) /\ a # InitialTask
  BY <1>1, <1>2, PathTo
<1>9. \A i \in 0..Len(s[1]) - 1 : i = j => s[1][i + 1][1] <= clock[a]
  BY <1>1 DEF TaskTree
<1>10. ~(j < Len(s[1])) => j = Len(s[1])
  BY <1>1
<1>11. \A n \in Nat : j < n => j + 1 \in 2..n /\ (j + 1) - 1 = j
  <2>1. j \in Nat \ {0}
    BY <1>1
  <2> QED
    BY <2>1
<1> HIDE DEF a
<1>5. a \in Lower /\ clock[a] \in Nat
  BY <1>3, <1>4, OfTask DEF Lower
<1>6. In(s, j) \in 0..clock[a]
  <2>1. CASE j < Len(s[1])
    <3>1. j \in 0..Len(s[1]) - 1 /\ j + 1 \in 1..Len(s[1])
      BY <1>1, <2>1
    <3>2. s[1][j + 1][1] <= clock[a]
      BY <1>9, <3>1
    <3>3. s[1][j + 1][1] \in Nat
      BY <1>1, <3>1, OfTask
    <3> QED
      BY <1>5, <2>1, <3>2, <3>3 DEF In
  <2>2. CASE ~(j < Len(s[1]))
    <3>1. In(s, j) = s[2] /\ a = s[1] /\ j + 1 = Own(s[1])
      BY <1>4, <1>10, <2>2 DEF In, Own
    <3> QED
      BY <1>1, <3>1
  <2> QED
    BY <2>1, <2>2
<1>7. recorded[s][j + 1] = At(a, In(s, j))[j + 1]
  <2>1. CASE j < Len(s[1])
    <3> DEFINE k == j + 1
    <3>1. k \in 2..Len(s[1]) /\ k - 1 = j
      BY <1>1, <1>11, <2>1
    <3> HIDE DEF k
    <3>2. recorded[s][k] = At(SubSeq(s[1], 1, k - 1), s[1][k][1])[k]
      BY <3>1 DEF TaskLabels
    <3> QED
      BY <2>1, <3>1, <3>2 DEF In, a, k
  <2>2. CASE ~(j < Len(s[1]))
    <3>1. In(s, j) = s[2] /\ a = s[1] /\ j + 1 = Own(s[1])
      BY <1>4, <1>10, <2>2 DEF In, Own
    <3> QED
      BY <1>1, <3>1
  <2> QED
    BY <2>1, <2>2
<1>8. Way(s, j) \in Stretches /\ Way(s, j)[1] = a /\ Way(s, j)[2] = In(s, j)
  BY <1>5, <1>6, StretchOf DEF Way, a
<1> QED
  BY <1>4, <1>5, <1>6, <1>7, <1>8 DEF a

\* The fields of a segment
LEMMA OfSegment ==
  ASSUME NEW seg \in TaskSegment
  PROVE  /\ seg.value \in TaskValue /\ seg.workShareId = 0 /\ seg.single = "no"
         /\ seg.taskGroupId = 0 /\ seg.taskGroupLevel = 0 /\ seg.taskwaitPhase = 0
         /\ seg.value.type \in {"eImplicit", "eExplicit"} /\ seg.value.offset \in Nat /\ seg.value.span \in Nat
         /\ seg.value.offset < OffsetLimit
         /\ seg.value.taskwait \in Nat /\ seg.value.taskcreate \in Nat /\ seg.value.taskwaited \in BOOLEAN
         /\ seg.value.phase = 0 /\ seg.value.loopCount = 0 /\ seg.value.bit2 = FALSE
         /\ seg.value.taskGroupSync = FALSE
<1>1. /\ seg.value \in TaskValue /\ seg.workShareId \in {0} /\ seg.single \in {"no"}
      /\ seg.taskGroupId \in {0} /\ seg.taskGroupLevel \in {0} /\ seg.taskwaitPhase \in {0}
  BY DEF TaskSegment
<1>2. /\ seg.value.type \in {"eImplicit", "eExplicit"} /\ seg.value.offset \in 0..OffsetLimit-1
      /\ seg.value.span \in Nat
      /\ seg.value.taskwait \in Nat /\ seg.value.taskcreate \in Nat /\ seg.value.taskwaited \in BOOLEAN
      /\ seg.value.phase \in {0} /\ seg.value.loopCount \in {0} /\ seg.value.bit2 \in {FALSE}
      /\ seg.value.taskGroupSync \in {FALSE}
  BY <1>1 DEF TaskValue
<1>3. seg.value.offset \in Nat /\ seg.value.offset < OffsetLimit
  BY <1>2, OffsetLimitAssumption
<1> QED
  BY <1>1, <1>2, <1>3

\* The segments of a label
LEMMA OfLabel ==
  ASSUME NEW p, NEW l, TaskLabel(p, l), Len(p) \in Nat, NEW i \in 1..Len(p) + 1
  PROVE  /\ i \in 1..Len(l) /\ l[i] \in TaskSegment /\ Len(l) = Len(p) + 1 /\ l \in Seq(TaskSegment)
         /\ Offset(l, i) \in Nat /\ Span(l, i) \in Nat /\ Waits(l, i) \in Nat /\ Creates(l, i) \in Nat
         /\ Waited(l, i) \in BOOLEAN /\ Offset(l, i) < OffsetLimit
<1>1. l \in Seq(TaskSegment) /\ Len(l) = Len(p) + 1 /\ i \in 1..Len(l)
  BY DEF TaskLabel
<1>2. l[i] \in TaskSegment
  BY <1>1, Sequences
<1> QED
  BY <1>1, <1>2, OfSegment DEF Offset, Span, Waits, Creates, Waited

\* The labels of stretches
LEMMA RecordIs ==
  ASSUME TaskTyped, TaskLabels, NEW s \in Stretches
  PROVE  TaskLabel(s[1], recorded[s]) /\ Len(recorded[s]) = Len(s[1]) + 1
BY DEF TaskLabels, TaskLabel

-----------------------------------------------------------------------------
(* What the detector reads off two labels of such programs                  *)

\* operator== compares the bits of the value.
LEMMA SameTaskSegment ==
  ASSUME NEW a \in TaskSegment, NEW b \in TaskSegment
  PROVE  SameSegment(a, b) <=> a.value = b.value
<1>1. a.value.type # "eWorkShare"
  BY OfSegment
<1> QED
  BY <1>1 DEF SameSegment

\* In the first segments these are the offset.
LEMMA SameFirst ==
  ASSUME NEW a, NEW b, FirstSegment(a), FirstSegment(b), a.value.offset = b.value.offset
  PROVE  a.value = b.value
<1>1. a \in TaskSegment /\ b \in TaskSegment
  BY DEF FirstSegment
<1> DEFINE v == a.value
           w == b.value
<1>2. v \in TaskValue /\ w \in TaskValue
  BY <1>1, OfSegment
<1>3. /\ v.type = w.type /\ v.offset = w.offset /\ v.span = w.span /\ v.taskwait = w.taskwait
      /\ v.taskcreate = w.taskcreate
  BY DEF FirstSegment
<1>4. v.taskwaited = w.taskwaited
  <2>1. v.taskwaited \in BOOLEAN /\ w.taskwaited \in BOOLEAN
    BY <1>1, OfSegment
  <2>2. ~v.taskwaited /\ ~w.taskwaited
    BY DEF FirstSegment
  <2> QED
    BY <2>1, <2>2
<1>5. /\ v.phase = w.phase /\ v.loopCount = w.loopCount /\ v.bit2 = w.bit2
      /\ v.taskGroupSync = w.taskGroupSync
  BY <1>1, OfSegment
<1> HIDE DEF v, w
<1>6. v = w
  BY <1>2, <1>3, <1>4, <1>5 DEF TaskValue
<1> QED
  BY <1>6 DEF v, w

\* Labels are compared at the first position where they differ.
LEMMA ComparedAt ==
  ASSUME NEW l \in Seq(TaskSegment), NEW c \in Seq(TaskSegment), NEW i \in 1..Len(l), i <= Len(c),
         \A k \in 1..i - 1 : l[k].value = c[k].value, l[i].value # c[i].value
  PROVE  compareLabels(l, c) = i
<1>1. Len(l) \in Nat /\ Len(c) \in Nat
  BY Sequences
<1> DEFINE common == 1 .. (IF Len(l) < Len(c) THEN Len(l) ELSE Len(c))
           differ == {j \in common : ~SameSegment(l[j], c[j])}
<1>2. \A j \in common : j \in 1..Len(l) /\ j \in 1..Len(c)
  BY <1>1
<1>3. i \in common
  BY <1>1
<1>4. ASSUME NEW j \in common PROVE SameSegment(l[j], c[j]) <=> l[j].value = c[j].value
  <2>1. l[j] \in TaskSegment /\ c[j] \in TaskSegment
    BY <1>2, Sequences
  <2> QED
    BY <2>1, SameTaskSegment
<1>5. i \in differ
  BY <1>3, <1>4
<1>6. ASSUME NEW j \in differ PROVE j >= i /\ j \in Int
  <2>1. j \in common /\ l[j].value # c[j].value
    BY <1>4
  <2>2. ~(j \in 1..i - 1)
    BY <2>1
  <2> QED
    BY <1>2, <2>1, <2>2
<1>7. compareLabels(l, c) = CHOOSE k \in differ : \A j \in differ : k <= j
  BY <1>5 DEF compareLabels
<1> HIDE DEF differ
<1>8. \A k \in differ : (\A j \in differ : k <= j) => k = i
  BY <1>5, <1>6
<1>9. \A j \in differ : i <= j
  BY <1>6
<1>10. \E k \in differ : \A j \in differ : k <= j
  BY <1>5, <1>9
<1> QED
  BY <1>7, <1>8, <1>10

\* A label that begins like another that is not shorter is one before it.
LEMMA ComparedToLonger ==
  ASSUME NEW l \in Seq(TaskSegment), NEW c \in Seq(TaskSegment), Len(l) <= Len(c),
         \A k \in 1..Len(l) : l[k].value = c[k].value
  PROVE  happensBefore(l, c) = "yes"
<1>1. Len(l) \in Nat /\ Len(c) \in Nat
  BY Sequences
<1>2. ASSUME NEW i \in 1..Len(l) PROVE SameSegment(l[i], c[i])
  <2>1. i \in 1..Len(c)
    BY <1>1
  <2>2. l[i] \in TaskSegment /\ c[i] \in TaskSegment
    BY <2>1, Sequences
  <2> QED
    BY <2>2, SameTaskSegment
<1>3. CASE Len(l) = Len(c)
  <2>1. (IF Len(l) < Len(c) THEN Len(l) ELSE Len(c)) = Len(l)
    BY <1>1, <1>3
  <2>2. {i \in 1..Len(l) : ~SameSegment(l[i], c[i])} = {}
    BY <1>2
  <2>3. compareLabels(l, c) = eSameLabel
    BY <1>3, <2>1, <2>2 DEF compareLabels
  <2> QED
    BY <2>3 DEF happensBefore, happensBeforeFrom, eSameLabel, eRightIsPrefix, Answer
<1>4. CASE Len(l) < Len(c)
  <2>1. (IF Len(l) < Len(c) THEN Len(l) ELSE Len(c)) = Len(l)
    BY <1>1, <1>4
  <2>2. {i \in 1..Len(l) : ~SameSegment(l[i], c[i])} = {}
    BY <1>2
  <2>3. compareLabels(l, c) = eLeftIsPrefix
    BY <1>1, <1>4, <2>1, <2>2 DEF compareLabels
  <2> QED
    BY <2>3 DEF happensBefore, happensBeforeFrom, eLeftIsPrefix, eRightIsPrefix, Answer
<1> QED
  BY <1>1, <1>3, <1>4

\* A label of an earlier epoch is one before the other.
LEMMA EpochAnswer ==
  ASSUME NEW p, NEW t, NEW l, NEW c, TaskLabel(p, l), TaskLabel(t, c), Len(p) \in Nat, Len(t) \in Nat,
         Offset(l, 1) # Offset(c, 1)
  PROVE  compareLabels(l, c) = 1 /\ happensBefore(l, c) = "yes"
<1>1. /\ l \in Seq(TaskSegment) /\ c \in Seq(TaskSegment) /\ 1 \in 1..Len(l) /\ 1 <= Len(c)
      /\ FirstSegment(l[1]) /\ FirstSegment(c[1])
  BY DEF TaskLabel
<1>2. l[1].value # c[1].value
  BY DEF Offset
<1>3. \A k \in 1..1 - 1 : l[k].value = c[k].value
  OBVIOUS
<1>4. compareLabels(l, c) = 1
  BY <1>1, <1>2, <1>3, ComparedAt
<1>5. l[1].value.span = 1 /\ c[1].value.span = 1 /\ Type(l[1]) = "eImplicit" /\ Type(c[1]) = "eImplicit"
  BY <1>1 DEF FirstSegment, Type
<1>6. AnalyzeSpanOne(l, c, 1) = "yes"
  BY <1>5 DEF AnalyzeSpanOne
<1> QED
  BY <1>4, <1>5, <1>6 DEF happensBefore, happensBeforeFrom

\* Labels of the same epoch below two members of a team are concurrent.
LEMMA MemberAnswer ==
  ASSUME NEW p, NEW t, NEW l, NEW c, TaskLabel(p, l), TaskLabel(t, c), Len(p) \in Nat \ {0}, Len(t) \in Nat \ {0},
         Offset(l, 1) = Offset(c, 1), Span(l, 2) = Span(c, 2), Offset(l, 2) # Offset(c, 2)
  PROVE  compareLabels(l, c) = 2 /\ happensBefore(l, c) = "no"
<1>1. /\ l \in Seq(TaskSegment) /\ c \in Seq(TaskSegment) /\ Len(l) = Len(p) + 1 /\ Len(c) = Len(t) + 1
      /\ 2 \in 1..Len(l) /\ 2 <= Len(c) /\ FirstSegment(l[1]) /\ FirstSegment(c[1])
  BY DEF TaskLabel
<1>2. l[2].value # c[2].value
  BY DEF Offset
<1>3. \A k \in 1..2 - 1 : l[k].value = c[k].value
  BY <1>1, SameFirst DEF Offset
<1>4. compareLabels(l, c) = 2
  BY <1>1, <1>2, <1>3, ComparedAt
<1>5. /\ 2 \in 1..Len(p) + 1 /\ 2 \in 1..Len(t) + 1
      /\ Offset(l, 2) < Span(l, 2) /\ Offset(c, 2) < Span(c, 2)
  BY DEF TaskLabel
<1>6. Offset(l, 2) \in Nat /\ Offset(c, 2) \in Nat /\ Span(l, 2) \in Nat
  BY <1>5, OfLabel
<1>7. Span(l, 2) \in Nat \ {0, 1}
  BY <1>5, <1>6
<1>8. Offset(l, 2) % Span(l, 2) = Offset(l, 2) /\ Offset(c, 2) % Span(l, 2) = Offset(c, 2)
  BY <1>5, <1>6, <1>7, ModSmall
<1>9. 2 < Len(l) => Type(l[2 + 1]) # "eWorkShare"
  BY <1>1 DEF TaskLabel
<1>10. analyzeSiblingImpTask(l, c, 2) = "no"
  BY <1>9 DEF analyzeSiblingImpTask
<1>11. AnalyzeTeam(l, c, 2) = "no"
  BY <1>8, <1>10 DEF AnalyzeTeam, Offset, Span
<1> QED
  BY <1>4, <1>7, <1>11 DEF happensBefore, happensBeforeFrom, Span

\* The labels are equal up to position i, and there they are of the same task.
SameTaskAt(l, c, i) == /\ i <= Len(l) /\ i <= Len(c)
                       /\ Offset(l, i) = Offset(c, i) /\ Span(l, i) = Span(c, i) /\ Type(l[i]) = Type(c[i])
                       /\ i = 1 => Waits(l, i) = Waits(c, i)
                       /\ \A k \in 1..i - 1 : l[k].value = c[k].value

\* What a task itself has done before it goes on to the other label
LEMMA OwnAnswer ==
  ASSUME NEW p, NEW t, NEW l, NEW c, TaskLabel(p, l), TaskLabel(t, c), Len(p) \in Nat \ {0}, Len(t) \in Nat \ {0},
         SameTaskAt(l, c, Len(l))
  PROVE  happensBefore(l, c) = "yes" /\ compareLabels(l, c) # eRightIsPrefix
<1> DEFINE i == Len(l)
<1>1. /\ l \in Seq(TaskSegment) /\ c \in Seq(TaskSegment) /\ i = Len(p) + 1 /\ Len(c) = Len(t) + 1
      /\ i \in 1..Len(l) /\ i <= Len(c) /\ i # 1
  BY DEF TaskLabel, SameTaskAt
<1>2. \A k \in 1..i - 1 : l[k].value = c[k].value
  BY DEF SameTaskAt
<1>3. /\ l[i].value.offset = c[i].value.offset /\ l[i].value.span = c[i].value.span
      /\ Type(l[i]) = Type(c[i])
  BY DEF SameTaskAt, Offset, Span
<1>4. l[i] \in TaskSegment
  BY <1>1, Sequences
<1>5. Type(l[i]) \in {"eImplicit", "eExplicit"}
  BY <1>4, OfSegment DEF Type
<1> HIDE DEF i
<1>6. CASE l[i].value = c[i].value
  <2>1. \A k \in 1..Len(l) : l[k].value = c[k].value
    <3>1. ASSUME NEW k \in 1..Len(l) PROVE k \in 1..i - 1 \/ k = i
      BY <1>1 DEF i
    <3> QED
      BY <1>2, <1>6, <3>1
  <2>2. happensBefore(l, c) = "yes"
    BY <1>1, <2>1, ComparedToLonger DEF i
  <2>3. compareLabels(l, c) # eRightIsPrefix
    BY <2>2 DEF happensBefore, happensBeforeFrom, Answer, eRightIsPrefix
  <2> QED
    BY <2>2, <2>3
<1>7. CASE l[i].value # c[i].value
  <2>1. compareLabels(l, c) = i
    BY <1>1, <1>2, <1>7, ComparedAt
  <2>2. analyzeSameTask(l, c, i) = "yes"
    BY DEF analyzeSameTask, i
  <2>3. AnalyzeSpanOne(l, c, i) = "yes"
    BY <1>1, <1>3, <1>5, <2>2 DEF AnalyzeSpanOne
  <2>4. AnalyzeTeam(l, c, i) = "yes"
    BY <1>3, <2>2 DEF AnalyzeTeam
  <2> QED
    BY <1>1, <1>3, <2>1, <2>3, <2>4 DEF happensBefore, happensBeforeFrom, eRightIsPrefix
<1> QED
  BY <1>6, <1>7

\* The end of an explicit task is that of the task of the label if this is the
\* next one, or if everybody from there on has been waited for.
LEMMA ChainAnswer ==
  ASSUME NEW p, NEW l, TaskLabel(p, l), Len(p) \in Nat, NEW i \in 3..Len(l)
  PROVE  /\ analyzeSyncChain(l, i) \in {"yes", "no"}
         /\ analyzeSyncChain(l, i) = "yes" <=> i = Len(l) \/ \A k \in i..Len(l) : Waited(l, k)
<1>1. l \in Seq(TaskSegment) /\ Len(l) = Len(p) + 1
  BY DEF TaskLabel
<1>2. ASSUME NEW k \in i..Len(l)
      PROVE  Type(l[k]) = "eExplicit" /\ ~(l[k].taskGroupLevel > 0) /\ Type(l[k]) # "eImplicit"
  <2>1. k \in 1..Len(l) /\ k \in 3..Len(l)
    BY <1>1
  <2>2. l[k] \in TaskSegment
    BY <1>1, <2>1, Sequences
  <2>3. l[k].taskGroupLevel = 0
    BY <2>2, OfSegment
  <2>4. Type(l[k]) = "eExplicit"
    BY <2>1 DEF TaskLabel
  <2> QED
    BY <2>3, <2>4
<1>3. \A k \in i..Len(l) : \A j \in i..k - 1 : j \in i..Len(l)
  BY <1>1
<1> DEFINE Unwaited(k) == Type(l[k]) = "eExplicit" /\ ~(Type(l[k]) = "eExplicit" /\ l[k].taskGroupLevel > 0)
           /\ ~l[k].value.taskwaited
           Joins(k) == Type(l[k]) = "eImplicit" \/ (Type(l[k]) = "eExplicit" /\ l[k].taskGroupLevel > 0)
<1>4. \A k \in i..Len(l) : (Unwaited(k) => \E j \in i..k - 1 : Joins(j)) <=> Waited(l, k)
  BY <1>2, <1>3 DEF Waited
<1>5. analyzeSyncChain(l, i)
        = Answer(i = Len(l) \/ \A k \in i..Len(l) : Unwaited(k) => \E j \in i..k - 1 : Joins(j))
  BY DEF analyzeSyncChain
<1> HIDE DEF Unwaited, Joins
<1>6. (\A k \in i..Len(l) : Unwaited(k) => \E j \in i..k - 1 : Joins(j)) <=> \A k \in i..Len(l) : Waited(l, k)
  BY <1>4
<1> QED
  BY <1>5, <1>6 DEF Answer

\* What a task below the one at position i has done, and what that one does
\* next, or a task below it on another way
LEMMA BelowAnswer ==
  ASSUME NEW p, NEW t, NEW l, NEW c, TaskLabel(p, l), TaskLabel(t, c), Len(p) \in Nat, Len(t) \in Nat,
         NEW i \in 2..Len(l) - 1, SameTaskAt(l, c, i), Creates(l, i) # Creates(c, i)
  PROVE  /\ compareLabels(l, c) = i
         /\ happensBefore(l, c) = IF Waits(l, i) = Waits(c, i) THEN "no"
                                  ELSE IF Waits(l, i) < Waits(c, i) THEN analyzeSyncChain(l, i + 1)
                                  ELSE "abort"
<1>1. l \in Seq(TaskSegment) /\ c \in Seq(TaskSegment) /\ Len(l) = Len(p) + 1 /\ Len(c) = Len(t) + 1
  BY DEF TaskLabel
<1>2. i \in 1..Len(l) /\ i <= Len(c) /\ i \in 1..Len(c) /\ i # 1 /\ i # Len(l) /\ i + 1 \in 3..Len(l)
      /\ i + 1 \in 1..Len(l)
  BY <1>1 DEF SameTaskAt
<1>3. l[i] \in TaskSegment /\ c[i] \in TaskSegment /\ l[i + 1] \in TaskSegment
  BY <1>1, <1>2, Sequences
<1>4. compareLabels(l, c) = i
  <2>1. l[i].value # c[i].value
    BY DEF Creates
  <2> QED
    BY <1>1, <1>2, <2>1, ComparedAt DEF SameTaskAt
<1>5. /\ l[i].value.offset = c[i].value.offset /\ l[i].value.span = c[i].value.span
      /\ Type(l[i]) = Type(c[i])
  BY DEF SameTaskAt, Offset, Span
<1>6. /\ l[i].taskGroupId = 0 /\ c[i].taskGroupId = 0 /\ l[i].taskGroupLevel = 0
      /\ Type(l[i]) \in {"eImplicit", "eExplicit"} /\ l[i + 1].value.taskGroupSync = FALSE
      /\ Waits(l, i) \in Nat /\ Waits(c, i) \in Nat
  BY <1>3, OfSegment DEF Type, Waits
<1>7. Type(l[i + 1]) = "eExplicit"
  BY <1>2 DEF TaskLabel
<1> DEFINE answer == IF Waits(l, i) = Waits(c, i) THEN "no"
                     ELSE IF Waits(l, i) < Waits(c, i) THEN analyzeSyncChain(l, i + 1)
                     ELSE "abort"
<1>8. CASE i = Len(c)
  <2>1. AnalyzeCurLeaf(l, c, i) = answer
    BY <1>6, <1>7 DEF AnalyzeCurLeaf, Waits, Answer
  <2> QED
    BY <1>2, <1>4, <1>5, <1>6, <1>8, <2>1 DEF happensBefore, happensBeforeFrom, AnalyzeSpanOne, AnalyzeTeam,
       analyzeSameTask
<1>9. CASE i # Len(c)
  <2>1. i + 1 \in 3..Len(c)
    BY <1>1, <1>2, <1>9
  <2>2. Type(c[i + 1]) = "eExplicit"
    BY <2>1 DEF TaskLabel
  <2>3. ~analyzeTaskGroupSync(l, c, i)
    BY <1>6 DEF analyzeTaskGroupSync
  <2>4. analyzeNextExpExp(l, c, i) = answer
    BY <1>6, <2>3 DEF analyzeNextExpExp, Waits
  <2>5. analyzeSameTask(l, c, i) = answer
    BY <1>2, <1>7, <1>9, <2>2, <2>4 DEF analyzeSameTask, dispatchAnalysis
  <2> QED
    BY <1>2, <1>4, <1>5, <1>6, <2>5 DEF happensBefore, happensBeforeFrom, AnalyzeSpanOne, AnalyzeTeam
<1> QED
  BY <1>8, <1>9

-----------------------------------------------------------------------------
(* What it reads off a record and the label of a task                       *)

\* The labels of two stretches share the segments of the way that they share.
LEMMA SameWay ==
  ASSUME TaskTyped, TaskTree, TaskLabels, NEW s \in Stretches, NEW r \in Stretches,
         NEW j \in 0..Len(s[1]), j <= Len(r[1]), SamePath(s[1], r[1], j)
  PROVE  \A i \in 2..j : recorded[s][i] = recorded[r][i]
<1>1. /\ s[1] \in TaskPaths /\ Len(s[1]) \in Nat /\ r[1] \in TaskPaths /\ Len(r[1]) \in Nat
  BY OfStretch
<1>2. ASSUME NEW i \in 2..j PROVE recorded[s][i] = recorded[r][i]
  <2> DEFINE k == i - 1
  <2>1. /\ k \in 1..Len(s[1]) /\ k \in 1..Len(r[1]) /\ k + 1 = i /\ k < Len(s[1]) /\ k < Len(r[1])
        /\ k \in 0..Len(s[1]) /\ k <= Len(r[1]) /\ k + 1 \in 1..j /\ k \in 0..j
    BY <1>1
  <2> HIDE DEF k
  <2>2. recorded[s][k + 1] = At(SubSeq(s[1], 1, k), In(s, k))[k + 1]
    BY <2>1, OfWay
  <2>3. recorded[r][k + 1] = At(SubSeq(r[1], 1, k), In(r, k))[k + 1]
    BY <2>1, OfWay
  <2>4. In(s, k) = In(r, k)
    BY <2>1 DEF In, SamePath
  <2>5. SamePath(s[1], r[1], k)
    BY <2>1 DEF SamePath
  <2>6. SubSeq(s[1], 1, k) = SubSeq(r[1], 1, k)
    BY <1>1, <2>1, <2>5, SamePathTo
  <2> QED
    BY <2>1, <2>2, <2>3, <2>4, <2>6
<1> QED
  BY <1>2

\* The next segments are then of the same task, if the epochs are the same.
LEMMA SameTask ==
  ASSUME TaskTyped, TaskTree, TaskLabels, NEW s \in Stretches, NEW r \in Stretches,
         NEW j \in 1..Len(s[1]), j <= Len(r[1]), SamePath(s[1], r[1], j),
         Offset(recorded[s], 1) = Offset(recorded[r], 1)
  PROVE  SameTaskAt(recorded[s], recorded[r], j + 1)
<1> DEFINE l == recorded[s]
           c == recorded[r]
<1>1. /\ Len(s[1]) \in Nat /\ Len(r[1]) \in Nat
      /\ TaskLabel(s[1], l) /\ TaskLabel(r[1], c)
  BY OfStretch, RecordIs
<1>2. /\ Len(l) = Len(s[1]) + 1 /\ Len(c) = Len(r[1]) + 1 /\ FirstSegment(l[1]) /\ FirstSegment(c[1])
  BY <1>1 DEF TaskLabel
<1>3. j + 1 <= Len(l) /\ j + 1 <= Len(c) /\ j + 1 \in 2..Len(l) /\ j + 1 \in 2..Len(c) /\ j + 1 # 1
      /\ j \in 0..Len(s[1])
  BY <1>1, <1>2
<1>4. s[1][1] = r[1][1]
  BY DEF SamePath
<1>5. Span(l, 2) = Span(c, 2)
  BY <1>4 DEF TaskLabels
<1>6. Offset(l, j + 1) = Offset(c, j + 1) /\ Span(l, j + 1) = Span(c, j + 1) /\ Type(l[j + 1]) = Type(c[j + 1])
  <2>1. CASE j = 1
    BY <1>1, <1>4, <1>5, <2>1 DEF TaskLabel
  <2>2. CASE j # 1
    <3>1. j + 1 \in 3..Len(l) /\ j + 1 \in 3..Len(c)
      BY <1>3, <2>2
    <3> QED
      BY <1>1, <3>1 DEF TaskLabel
  <2> QED
    BY <2>1, <2>2
<1>7. ASSUME NEW k \in 1..(j + 1) - 1 PROVE l[k].value = c[k].value
  <2>1. CASE k = 1
    BY <1>2, <2>1, SameFirst DEF Offset
  <2>2. CASE k # 1
    <3>1. k \in 2..j
      BY <2>2
    <3>2. l[k] = c[k]
      BY <1>3, <3>1, SameWay
    <3> QED
      BY <3>2
  <2> QED
    BY <2>1, <2>2
<1> QED
  BY <1>3, <1>6, <1>7 DEF SameTaskAt

\* The path to an explicit task is that to the task above it and one step.
LEMMA NextOnPath ==
  ASSUME TaskTyped, NEW t \in Tasks, NEW j \in 1..Len(t) - 1
  PROVE  /\ SubSeq(t, 1, j + 1) = Append(SubSeq(t, 1, j), <<t[j + 1][1], NoIndex>>)
         /\ t[j + 1] = <<t[j + 1][1], NoIndex>>
<1>1. /\ t \in TaskPaths /\ Len(t) \in Nat
      /\ \A i \in 2..Len(t) : t[i][2] = NoIndex
      /\ \A i \in 1..Len(t) : t[i] = <<t[i][1], t[i][2]>>
  BY OfTask
<1>2. j + 1 \in 2..Len(t) /\ j + 1 \in 1..Len(t) /\ j \in 0..Len(t) /\ j + 1 \in 0..Len(t)
  BY <1>1
<1>3. t[j + 1] = <<t[j + 1][1], NoIndex>> /\ t[j + 1] \in Nat \X Int
  BY <1>1, <1>2, Sequences DEF TaskPaths
<1> DEFINE a == SubSeq(t, 1, j)
           b == SubSeq(t, 1, j + 1)
<1>4. /\ a \in Seq(Nat \X Int) /\ Len(a) = j /\ \A i \in 1..j : a[i] = t[i]
  BY <1>1, <1>2, PathTo DEF TaskPaths
<1>5. /\ b \in Seq(Nat \X Int) /\ Len(b) = j + 1 /\ \A i \in 1..j + 1 : b[i] = t[i]
  BY <1>1, <1>2, PathTo DEF TaskPaths
<1> HIDE DEF a, b
<1>6. /\ Append(a, t[j + 1]) \in Seq(Nat \X Int) /\ Len(Append(a, t[j + 1])) = Len(a) + 1
      /\ \A i \in 1..Len(a) : Append(a, t[j + 1])[i] = a[i]
      /\ Append(a, t[j + 1])[Len(a) + 1] = t[j + 1]
  BY <1>3, <1>4, Extended
<1>7. ASSUME NEW i \in 1..Len(b) PROVE b[i] = Append(a, t[j + 1])[i]
  <2>1. i \in 1..j \/ i = j + 1
    BY <1>5
  <2> QED
    BY <1>4, <1>5, <1>6, <2>1
<1>8. b = Append(a, t[j + 1])
  BY <1>4, <1>5, <1>6, <1>7, SeqEqual
<1> QED
  BY <1>3, <1>8 DEF a, b

\* Where the ways to two stretches part below a task of the team, or one of them
\* ends there, the counters of that task tell them apart.
LEMMA WaysDiffer ==
  ASSUME TaskTyped, TaskTree, TaskLabels, TaskCounts, NEW s \in Stretches, NEW r \in Stretches,
         r = Stretch(r[1]), NEW j \in 1..Len(s[1]) - 1, j <= Len(r[1]), SamePath(s[1], r[1], j),
         j < Len(r[1]) => s[1][j + 1] # r[1][j + 1]
  PROVE  Creates(recorded[s], j + 1) # Creates(recorded[r], j + 1)
<1>1. /\ s[1] \in Tasks /\ s[1] \in TaskPaths /\ Len(s[1]) \in Nat
      /\ r[1] \in Tasks /\ r[1] \in TaskPaths /\ Len(r[1]) \in Nat
      /\ TaskLabel(s[1], recorded[s]) /\ TaskLabel(r[1], recorded[r])
  BY OfStretch, RecordIs
<1> DEFINE a == SubSeq(s[1], 1, j)
<1>2. /\ j \in 1..Len(s[1]) /\ j \in 1..Len(r[1]) /\ j < Len(s[1]) /\ j \in 0..Len(s[1]) /\ j \in 0..Len(r[1])
      /\ j + 1 \in 0..Len(s[1]) /\ j + 1 \in 1..Len(s[1]) + 1 /\ j + 1 \in 1..Len(r[1]) + 1
      /\ j \in 0..Len(s[1]) - 1 /\ j > 0
  BY <1>1
<1>3. SubSeq(r[1], 1, j) = a
  BY <1>1, <1>2, SamePathTo
<1>4. /\ a \in Lower /\ In(s, j) \in 0..clock[a]
      /\ recorded[s][j + 1] = At(a, In(s, j))[j + 1] /\ Len(a) = j
  BY <1>2, OfWay
<1>5. /\ In(r, j) \in 0..clock[a] /\ recorded[r][j + 1] = At(a, In(r, j))[j + 1]
  BY <1>2, <1>3, OfWay
<1>6. Append(a, <<In(s, j), NoIndex>>) \in Tasks /\ s[1][j + 1] = <<In(s, j), NoIndex>>
  <2>1. In(s, j) = s[1][j + 1][1]
    BY <1>2 DEF In
  <2>2. SubSeq(s[1], 1, j + 1) \in Tasks
    BY <1>1, <1>2 DEF TaskTree
  <2>3. SubSeq(s[1], 1, j + 1) = Append(a, <<s[1][j + 1][1], NoIndex>>) /\ s[1][j + 1] = <<s[1][j + 1][1], NoIndex>>
    BY <1>1, NextOnPath
  <2> QED
    BY <2>1, <2>2, <2>3
<1>7. /\ Creates(recorded[s], j + 1) = Creates(At(a, In(s, j)), Own(a))
      /\ Creates(recorded[r], j + 1) = Creates(At(a, In(r, j)), Own(a))
  BY <1>4, <1>5 DEF Creates, Own
<1>8. Creates(recorded[s], j + 1) \in Nat /\ Creates(recorded[r], j + 1) \in Nat
  BY <1>1, <1>2, OfLabel
<1>9. CASE j = Len(r[1])
  <2>1. In(r, j) = r[2] /\ r[1] = a /\ r[2] = clock[r[1]]
    <3>1. ~(j < Len(r[1]))
      BY <1>2, <1>9
    <3>2. r[1] = a
      BY <1>1, <1>2, <1>3, <1>9, PathTo
    <3>3. r[2] = clock[r[1]]
      BY DEF Stretch
    <3> QED
      BY <3>1, <3>2, <3>3 DEF In
  <2>2. In(s, j) < clock[a]
    BY <1>1, <1>2 DEF TaskTree, In
  <2>3. In(s, j) < In(r, j)
    BY <2>1, <2>2
  <2>4. Creates(At(a, In(s, j)), Own(a)) < Creates(At(a, In(r, j)), Own(a))
    BY <1>4, <1>5, <1>6, <2>3 DEF TaskCounts
  <2> QED
    BY <1>7, <1>8, <2>4
<1>10. CASE j < Len(r[1])
  <2>1. In(r, j) = r[1][j + 1][1] /\ j \in 1..Len(r[1]) - 1 /\ j + 1 \in 0..Len(r[1])
    BY <1>1, <1>2, <1>10 DEF In
  <2>2. SubSeq(r[1], 1, j + 1) \in Tasks
    BY <1>1, <2>1 DEF TaskTree
  <2>3. SubSeq(r[1], 1, j + 1) = Append(a, <<In(r, j), NoIndex>>) /\ r[1][j + 1] = <<In(r, j), NoIndex>>
    BY <1>1, <1>3, <2>1, NextOnPath
  <2>4. Append(a, <<In(r, j), NoIndex>>) \in Tasks
    BY <2>2, <2>3
  <2>5. In(s, j) # In(r, j)
    BY <1>6, <1>10, <2>3
  <2>6. CASE In(s, j) < In(r, j)
    <3>1. Creates(At(a, In(s, j)), Own(a)) < Creates(At(a, In(r, j)), Own(a))
      BY <1>4, <1>5, <1>6, <2>6 DEF TaskCounts
    <3> QED
      BY <1>7, <1>8, <3>1
  <2>7. CASE In(r, j) < In(s, j)
    <3>1. Creates(At(a, In(r, j)), Own(a)) < Creates(At(a, In(s, j)), Own(a))
      BY <1>4, <1>5, <2>4, <2>7 DEF TaskCounts
    <3> QED
      BY <1>7, <1>8, <3>1
  <2>8. In(s, j) \in Int /\ In(r, j) \in Int
    BY <1>4, <1>5
  <2> QED
    BY <2>5, <2>6, <2>7, <2>8
<1>11. j = Len(r[1]) \/ j < Len(r[1])
  BY <1>1, <1>2
<1> QED
  BY <1>9, <1>10, <1>11

\* Without dependences there are no paths, and labels alone decide.
LEMMA NoPath ==
  ASSUME edges = {}, NEW p, NEW q
  PROVE  ~HasPath(p, q)
<1> DEFINE Step1(R) == [n \in Nat |-> IF n = 0 THEN {p}
                                     ELSE R[n - 1] \cup {e[2] : e \in {d \in edges : d[1] \in R[n - 1]}}]
           Reach == CHOOSE R : R = Step1(R)
           same == [n \in Nat |-> {p}]
<1>1. same = Step1(same)
  <2>1. ASSUME NEW n \in Nat PROVE same[n] = Step1(same)[n]
    <3>1. CASE n = 0
      BY <3>1
    <3>2. CASE n # 0
      <4>1. n - 1 \in Nat
        BY <3>2
      <4>2. same[n - 1] = {p} /\ same[n] = {p}
        BY <4>1
      <4>3. {e[2] : e \in {d \in edges : d[1] \in same[n - 1]}} = {}
        OBVIOUS
      <4> QED
        BY <3>2, <4>2, <4>3
    <3> QED
      BY <3>1, <3>2
  <2> QED
    BY <2>1
<1>2. Reach = Step1(Reach)
  BY <1>1
<1>3. Cardinality(edges) = 0
  BY FS_EmptySet
<1>4. Reach[0] = {p}
  BY <1>2
<1>5. PathIn(edges, p, q) <=> p # q /\ q \in Reach[Cardinality(edges)]
  BY DEF PathIn
<1> HIDE DEF Reach
<1>6. ~PathIn(edges, p, q)
  BY <1>3, <1>4, <1>5
<1> QED
  BY <1>6 DEF HasPath

\* An access that is compared, and the stretch of the task that makes the next one
LEMMA ComparedStretch ==
  ASSUME TaskTyped, TaskLabels, TaskCurrent, NEW s \in DOMAIN recorded, NEW t \in Tasks, Compared(s, t)
  PROVE  /\ s \in Stretches /\ t \in Lower /\ Live(t) /\ status[t] = "running"
         /\ Stretch(t) \in Stretches /\ Stretch(t)[1] = t /\ Stretch(t)[2] = clock[t]
         /\ label[t] = recorded[Stretch(t)] /\ Epoch(t) = Offset(recorded[Stretch(t)], 1) /\ s # Stretch(t)
<1>1. s \in Stretches
  BY DEF TaskTyped
<1>2. t # InitialTask /\ status[t] = "running" /\ s # Stretch(t)
  BY DEF Compared, Running, Accesses
<1>3. t \in Lower /\ Live(t) /\ clock[t] \in Nat
  BY <1>2, OfTask DEF Lower, Live
<1>4. Stretch(t) \in Stretches /\ Stretch(t)[1] = t /\ Stretch(t)[2] = clock[t]
  BY <1>3, StretchOf DEF Stretch
<1>5. label[t] = recorded[Stretch(t)]
  BY <1>3 DEF TaskCurrent, Now
<1>6. Epoch(t) = Offset(recorded[Stretch(t)], 1)
  <2>1. Leaving(t) = 0
    BY <1>2 DEF Leaving
  <2>2. TaskLabel(t, recorded[Stretch(t)]) /\ Len(t) \in Nat
    BY <1>4, OfStretch, RecordIs
  <2>3. Offset(recorded[Stretch(t)], 1) \in Int
    BY <2>2, OfLabel
  <2> QED
    BY <2>1, <2>3 DEF Epoch, Now
<1> QED
  BY <1>1, <1>2, <1>3, <1>4, <1>5, <1>6

\* s is behind the last barrier of t.
AnswersEarlier(s, t) == /\ Offset(recorded[s], 1) < Epoch(t)
                        /\ happensBefore(recorded[s], label[t]) = "yes"

\* s and t are of two members of a team or of tasks below them.
AnswersMember(s, t) == /\ s[1][1][1] = t[1][1] /\ s[1][1] # t[1]
                       /\ happensBefore(recorded[s], label[t]) = "no"

\* s is of t or of a task above it.
AnswersOwn(s, t) == /\ Len(s[1]) <= Len(t) /\ SamePath(s[1], t, Len(s[1]))
                    /\ happensBefore(recorded[s], label[t]) = "yes"

\* s is of a task below t, or below one above t on another way.
AnswersBelow(s, t) ==
  \E j \in 1..Len(s[1]) - 1 :
    /\ j <= Len(t) /\ SamePath(s[1], t, j)
    /\ j < Len(t) => s[1][j + 1] # t[j + 1]
    /\ happensBefore(recorded[s], label[t]) =
         IF Waits(recorded[s], j + 1) = Waits(label[t], j + 1) THEN "no"
         ELSE IF Waits(recorded[s], j + 1) < Waits(label[t], j + 1)
              THEN analyzeSyncChain(recorded[s], j + 2)
         ELSE "abort"

\* What happensBefore answers, by the place of the two tasks in the program
LEMMA AnswerOf ==
  ASSUME TaskTyped, TaskTree, TaskLabels, TaskCounts, TaskCurrent, TaskEpochs,
         NEW s \in DOMAIN recorded, NEW t \in Tasks, Compared(s, t)
  PROVE  /\ compareLabels(recorded[s], label[t]) # eRightIsPrefix
         /\ AnswersEarlier(s, t) \/ AnswersMember(s, t) \/ AnswersOwn(s, t) \/ AnswersBelow(s, t)
<1> DEFINE l == recorded[s]
           r == Stretch(t)
           c == label[t]
<1>1. /\ s \in Stretches /\ t \in Lower /\ Live(t) /\ r \in Stretches /\ r[1] = t /\ r[2] = clock[t]
      /\ c = recorded[r] /\ Epoch(t) = Offset(c, 1) /\ s # r
  BY ComparedStretch
<1>2. /\ s[1] \in Lower /\ s[1] \in TaskPaths /\ Len(s[1]) \in Nat \ {0} /\ t \in TaskPaths /\ Len(t) \in Nat \ {0}
      /\ s[1] \in Tasks
  BY <1>1, OfStretch
<1>3. TaskLabel(s[1], l) /\ TaskLabel(t, c) /\ Len(l) = Len(s[1]) + 1 /\ Len(c) = Len(t) + 1
  BY <1>1, RecordIs
<1> HIDE DEF l, c, r
<1>4. Offset(l, 1) <= Offset(c, 1) /\ (Offset(l, 1) = Offset(c, 1) => s[1][1][1] = t[1][1])
  BY <1>1 DEF TaskEpochs, l
<1>5. Offset(l, 1) \in Nat /\ Offset(c, 1) \in Nat
  BY <1>2, <1>3, OfLabel
<1>6. -2 = eRightIsPrefix
  BY DEF eRightIsPrefix
<1>7. CASE Offset(l, 1) < Offset(c, 1)
  <2>1. compareLabels(l, c) = 1 /\ happensBefore(l, c) = "yes"
    BY <1>2, <1>3, <1>5, <1>7, EpochAnswer
  <2>2. AnswersEarlier(s, t)
    BY <1>1, <1>7, <2>1 DEF AnswersEarlier, l, c
  <2> QED
    BY <1>6, <2>1, <2>2 DEF l, c
<1>8. CASE Offset(l, 1) = Offset(c, 1)
  <2>1. PICK j \in 0..Len(s[1]) : /\ j <= Len(t) /\ SamePath(s[1], t, j)
                                  /\ j < Len(s[1]) /\ j < Len(t) => s[1][j + 1] # t[j + 1]
    BY <1>2, Meeting
  <2>2. CASE j = 0
    <3>1. s[1][1] # t[1] /\ s[1][1][1] = t[1][1]
      BY <1>2, <1>4, <1>8, <2>1, <2>2
    <3>2. Offset(l, 2) = s[1][1][2] /\ Offset(c, 2) = t[1][2]
      BY <1>3 DEF TaskLabel
    <3>3. 1 \in 1..Len(s[1]) /\ 1 \in 1..Len(t) /\ t \in Tasks
      BY <1>2
    <3>4. s[1][1] = <<s[1][1][1], s[1][1][2]>> /\ t[1] = <<t[1][1], t[1][2]>>
      BY <1>2, <3>3, OfTask
    <3>5. Offset(l, 2) # Offset(c, 2)
      BY <3>1, <3>2, <3>4
    <3>6. Span(l, 2) = Span(c, 2)
      BY <1>1, <3>1 DEF TaskLabels, l
    <3>7. compareLabels(l, c) = 2 /\ happensBefore(l, c) = "no"
      BY <1>2, <1>3, <1>8, <3>5, <3>6, MemberAnswer
    <3>8. AnswersMember(s, t)
      BY <3>1, <3>7 DEF AnswersMember, l, c
    <3> QED
      BY <1>6, <3>7, <3>8 DEF l, c
  <2>3. CASE j = Len(s[1])
    <3>1. j \in 1..Len(s[1]) /\ j <= Len(r[1]) /\ SamePath(s[1], r[1], j)
      BY <1>1, <1>2, <2>1, <2>3
    <3>2. SameTaskAt(l, c, j + 1)
      BY <1>1, <1>8, <3>1, SameTask DEF l
    <3>3. happensBefore(l, c) = "yes" /\ compareLabels(l, c) # eRightIsPrefix
      BY <1>2, <1>3, <2>3, <3>2, OwnAnswer
    <3>4. AnswersOwn(s, t)
      BY <2>1, <2>3, <3>3 DEF AnswersOwn, l, c
    <3> QED
      BY <3>3, <3>4 DEF l, c
  <2>4. CASE j # 0 /\ j # Len(s[1])
    <3>1. /\ j \in 1..Len(s[1]) /\ j \in 1..Len(s[1]) - 1 /\ j <= Len(r[1]) /\ SamePath(s[1], r[1], j)
          /\ j < Len(r[1]) => s[1][j + 1] # r[1][j + 1]
      BY <1>1, <1>2, <2>1, <2>4
    <3>2. SameTaskAt(l, c, j + 1)
      BY <1>1, <1>8, <3>1, SameTask DEF l
    <3>3. r = Stretch(r[1])
      BY <1>1 DEF r
    <3>4. Creates(l, j + 1) # Creates(c, j + 1)
      BY <1>1, <3>1, <3>3, WaysDiffer DEF l
    <3>5. j + 1 \in 2..Len(l) - 1 /\ (j + 1) + 1 = j + 2
      BY <1>2, <1>3, <3>1
    <3>6. /\ compareLabels(l, c) = j + 1
          /\ happensBefore(l, c) = IF Waits(l, j + 1) = Waits(c, j + 1) THEN "no"
                                   ELSE IF Waits(l, j + 1) < Waits(c, j + 1) THEN analyzeSyncChain(l, j + 2)
                                   ELSE "abort"
      BY <1>2, <1>3, <3>2, <3>4, <3>5, BelowAnswer
    <3>7. AnswersBelow(s, t)
      BY <2>1, <3>1, <3>6 DEF AnswersBelow, l, c
    <3>8. j + 1 # -2
      BY <3>1
    <3> QED
      BY <1>6, <3>6, <3>7, <3>8 DEF l, c
  <2> QED
    BY <2>2, <2>3, <2>4
<1> QED
  BY <1>4, <1>5, <1>7, <1>8

\* What the detector takes for earlier is, or is of a task above.
LEMMA YesMeansOrder ==
  ASSUME NEW M \in Nat, TaskInv(M), NEW s \in DOMAIN recorded, NEW t \in Tasks, Compared(s, t),
         happensBefore(recorded[s], label[t]) = "yes"
  PROVE  RealOrder(s, t) \/ Below(s[1], t)
<1>1. /\ TaskTyped /\ TaskTree /\ TaskLabels /\ TaskCounts /\ TaskCurrent /\ TaskEpochs /\ TaskWaited /\ TaskLineage
  BY DEF TaskInv
<1>2. /\ s \in Stretches /\ t \in Lower /\ Live(t) /\ s # Stretch(t)
      /\ Stretch(t) = <<t, clock[t]>> /\ label[t] = Now(t)
  BY <1>1, ComparedStretch DEF Stretch, Now
<1>3. /\ s[1] \in TaskPaths /\ Len(s[1]) \in Nat \ {0} /\ t \in TaskPaths /\ Len(t) \in Nat
      /\ s = <<s[1], s[2]>> /\ s[2] \in Nat /\ s[2] <= clock[s[1]] /\ clock[s[1]] \in Nat
      /\ TaskLabel(s[1], recorded[s]) /\ Len(recorded[s]) = Len(s[1]) + 1
  BY <1>1, <1>2, OfStretch, OfTask, RecordIs
<1>4. CASE AnswersEarlier(s, t)
  BY <1>1, <1>2, <1>4 DEF AnswersEarlier, TaskEpochs, RealOrder
<1>5. CASE AnswersMember(s, t)
  BY <1>5 DEF AnswersMember
<1>6. CASE AnswersOwn(s, t)
  <2>1. Len(s[1]) <= Len(t) /\ SamePath(s[1], t, Len(s[1]))
    BY <1>6 DEF AnswersOwn
  <2>2. CASE Len(s[1]) = Len(t)
    <3>1. s[1] = t
      BY <1>3, <2>1, <2>2, IsPathTo
    <3>2. s[2] # clock[t]
      BY <1>2, <1>3, <3>1
    <3>3. Lineage(s, t)
      BY <1>3, <3>1, <3>2 DEF Lineage
    <3> QED
      BY <1>1, <1>2, <3>3 DEF TaskLineage, RealOrder
  <2>3. CASE Len(s[1]) # Len(t)
    BY <1>3, <2>1, <2>3 DEF Below
  <2> QED
    BY <2>2, <2>3
<1>7. CASE AnswersBelow(s, t)
  <2>1. PICK j \in 1..Len(s[1]) - 1 :
          /\ j <= Len(t) /\ SamePath(s[1], t, j)
          /\ j < Len(t) => s[1][j + 1] # t[j + 1]
          /\ happensBefore(recorded[s], label[t]) =
               IF Waits(recorded[s], j + 1) = Waits(label[t], j + 1) THEN "no"
               ELSE IF Waits(recorded[s], j + 1) < Waits(label[t], j + 1)
                    THEN analyzeSyncChain(recorded[s], j + 2)
               ELSE "abort"
    BY <1>7 DEF AnswersBelow
  <2>2. Waits(recorded[s], j + 1) < Waits(label[t], j + 1) /\ analyzeSyncChain(recorded[s], j + 2) = "yes"
    BY <2>1
  <2>3. j + 2 \in 3..Len(recorded[s])
    BY <1>3
  <2>4. j + 2 = Len(recorded[s]) \/ \A k \in j + 2..Len(recorded[s]) : Waited(recorded[s], k)
    BY <1>3, <2>2, <2>3, ChainAnswer
  <2>5. Chain(s, j + 2)
    BY <1>3, <2>4 DEF Chain
  <2>6. Joined(s, t, j)
    BY <1>2, <2>1, <2>2 DEF Joined
  <2> QED
    BY <1>1, <1>2, <2>5, <2>6 DEF TaskWaited, RealOrder
<1> QED
  BY <1>1, <1>4, <1>5, <1>6, <1>7, AnswerOf

\* The ways to s and to t part in a task that has waited since, at depth j.
Passed(s, t, j) == /\ j <= Len(t) /\ SamePath(s[1], t, j)
                   /\ j < Len(t) => s[1][j + 1] # t[j + 1]

\* There is one such place.
LEMMA OnePassed ==
  ASSUME NEW s, NEW t, NEW j \in Nat, NEW i \in Nat, j < Len(s[1]), i < Len(s[1]), Len(t) \in Nat,
         Passed(s, t, j), Passed(s, t, i)
  PROVE  i = j
<1>1. ASSUME NEW a \in Nat, NEW b \in Nat, Passed(s, t, a), Passed(s, t, b), a < b PROVE FALSE
  <2>1. a < Len(t) /\ a + 1 \in 1..b
    BY <1>1 DEF Passed
  <2>2. s[1][a + 1] # t[a + 1]
    BY <1>1, <2>1 DEF Passed
  <2>3. s[1][a + 1] = t[a + 1]
    BY <1>1, <2>1 DEF Passed, SamePath
  <2> QED
    BY <2>2, <2>3
<1>2. ~(i < j) /\ ~(j < i)
  BY <1>1
<1> QED
  BY <1>2

\* What has happened before is taken for earlier, but for tasks further down.
LEMMA OrderMeansYes ==
  ASSUME NEW M \in Nat, TaskInv(M), NEW s \in DOMAIN recorded, NEW t \in Tasks, Compared(s, t), RealOrder(s, t)
  PROVE  \/ happensBefore(recorded[s], label[t]) = "yes"
         \/ \E j \in 1..Len(s[1]) - 2 : Joined(s, t, j)
<1>1. /\ TaskTyped /\ TaskTree /\ TaskLabels /\ TaskCounts /\ TaskCurrent /\ TaskEpochs /\ TaskPast
  BY DEF TaskInv
<1>2. /\ s \in Stretches /\ t \in Lower /\ Live(t) /\ label[t] = Now(t) /\ Epoch(t) = Offset(label[t], 1)
  BY <1>1, ComparedStretch DEF Stretch, Now
<1>3. /\ s[1] \in TaskPaths /\ Len(s[1]) \in Nat \ {0} /\ t \in TaskPaths /\ Len(t) \in Nat \ {0}
      /\ TaskLabel(s[1], recorded[s]) /\ Len(recorded[s]) = Len(s[1]) + 1 /\ TaskLabel(t, label[t])
  <2>1. /\ s[1] \in TaskPaths /\ Len(s[1]) \in Nat \ {0}
        /\ TaskLabel(s[1], recorded[s]) /\ Len(recorded[s]) = Len(s[1]) + 1
    BY <1>1, <1>2, OfStretch, RecordIs
  <2>2. Stretch(t) \in Stretches /\ Stretch(t)[1] = t
    BY <1>1, ComparedStretch
  <2>3. TaskLabel(t, label[t]) /\ t \in TaskPaths /\ Len(t) \in Nat \ {0}
    BY <1>1, <1>2, <2>2, OfStretch, RecordIs DEF Now
  <2> QED
    BY <2>1, <2>3
<1>4. s \in past[t] \cap Stretches
  BY <1>2 DEF RealOrder
<1>5. \/ Offset(recorded[s], 1) < Epoch(t)
      \/ Lineage(s, t)
      \/ \E j \in 1..Len(s[1]) - 1 : Joined(s, t, j)
  BY <1>1, <1>2, <1>4 DEF TaskPast
<1>6. CASE Offset(recorded[s], 1) < Epoch(t)
  <2>1. Offset(recorded[s], 1) \in Nat /\ Offset(label[t], 1) \in Nat
    BY <1>3, OfLabel
  <2>2. Offset(recorded[s], 1) # Offset(label[t], 1)
    BY <1>2, <1>6, <2>1
  <2> QED
    BY <1>3, <2>2, EpochAnswer
<1>7. CASE Lineage(s, t)
  <2>1. Len(s[1]) <= Len(t) /\ SamePath(s[1], t, Len(s[1]))
    BY <1>3, <1>7 DEF Lineage, Below, SamePath
  <2>2. ~AnswersMember(s, t)
    BY <1>3, <2>1 DEF AnswersMember, SamePath
  <2>3. ~AnswersBelow(s, t)
    <3>1. ASSUME NEW j \in 1..Len(s[1]) - 1, j <= Len(t), j < Len(t) => s[1][j + 1] # t[j + 1] PROVE FALSE
      <4>1. j < Len(t) /\ j + 1 \in 1..Len(s[1])
        BY <1>3, <2>1
      <4> QED
        BY <2>1, <3>1, <4>1 DEF SamePath
    <3> QED
      BY <3>1 DEF AnswersBelow
  <2> QED
    BY <1>1, <2>2, <2>3, AnswerOf DEF AnswersEarlier, AnswersOwn
<1>8. CASE \E j \in 1..Len(s[1]) - 1 : Joined(s, t, j)
  <2>1. PICK j \in 1..Len(s[1]) - 1 : Joined(s, t, j)
    BY <1>8
  <2>2. CASE j # Len(s[1]) - 1
    <3>1. j \in 1..Len(s[1]) - 2
      BY <1>3, <2>2
    <3> QED
      BY <2>1, <3>1
  <2>3. CASE j = Len(s[1]) - 1
    <3>1. ~AnswersMember(s, t)
      BY <1>3, <2>1 DEF AnswersMember, Joined, SamePath
    <3>2. CASE AnswersBelow(s, t)
      <4>1. PICK i \in 1..Len(s[1]) - 1 :
              /\ i <= Len(t) /\ SamePath(s[1], t, i)
              /\ i < Len(t) => s[1][i + 1] # t[i + 1]
              /\ happensBefore(recorded[s], label[t]) =
                   IF Waits(recorded[s], i + 1) = Waits(label[t], i + 1) THEN "no"
                   ELSE IF Waits(recorded[s], i + 1) < Waits(label[t], i + 1)
                        THEN analyzeSyncChain(recorded[s], i + 2)
                   ELSE "abort"
        BY <3>2 DEF AnswersBelow
      <4>2. i = j
        <5>1. Passed(s, t, i) /\ Passed(s, t, j)
          BY <2>1, <4>1 DEF Passed, Joined
        <5>2. i \in Nat /\ j \in Nat /\ i < Len(s[1]) /\ j < Len(s[1])
          BY <1>3
        <5> QED
          BY <1>3, <5>1, <5>2, OnePassed
      <4>3. Waits(recorded[s], j + 1) < Waits(label[t], j + 1)
        BY <1>2, <2>1 DEF Joined
      <4>4. Waits(recorded[s], j + 1) # Waits(label[t], j + 1)
        <5>1. j + 1 \in 1..Len(s[1]) + 1 /\ j + 1 \in 1..Len(t) + 1
          BY <1>3, <2>1 DEF Joined
        <5>2. Waits(recorded[s], j + 1) \in Nat /\ Waits(label[t], j + 1) \in Nat
          BY <1>3, <5>1, OfLabel
        <5> QED
          BY <4>3, <5>2
      <4>5. happensBefore(recorded[s], label[t]) = analyzeSyncChain(recorded[s], j + 2)
        BY <4>1, <4>2, <4>3, <4>4
      <4>6. j + 2 \in 3..Len(recorded[s]) /\ j + 2 = Len(recorded[s])
        BY <1>3, <2>3
      <4> QED
        BY <1>3, <4>5, <4>6, ChainAnswer
    <3> QED
      BY <1>1, <3>1, <3>2, AnswerOf DEF AnswersEarlier, AnswersOwn
  <2> QED
    BY <2>2, <2>3
<1> QED
  BY <1>5, <1>6, <1>7, <1>8

\* Without taskwaits nothing is counted.
LEMMA NoWaits ==
  ASSUME TaskTyped, TaskTree, TaskLabels, "taskwait" \notin Constructs, NEW s \in Stretches,
         NEW i \in 2..Len(s[1]) + 1
  PROVE  Waits(recorded[s], i) = 0
<1>1. Len(s[1]) \in Nat
  BY OfStretch
<1> DEFINE j == i - 1
<1>2. j \in 1..Len(s[1]) /\ j + 1 = i
  BY <1>1
<1> HIDE DEF j
<1>3. /\ Way(s, j) \in Stretches /\ Way(s, j)[1] = SubSeq(s[1], 1, j) /\ Way(s, j)[2] = In(s, j)
      /\ Len(SubSeq(s[1], 1, j)) = j /\ recorded[s][j + 1] = At(SubSeq(s[1], 1, j), In(s, j))[j + 1]
  BY <1>2, OfWay
<1>4. Waits(recorded[Way(s, j)], j + 1) = 0
  BY <1>3 DEF TaskLabels, Own
<1>5. recorded[Way(s, j)] = At(SubSeq(s[1], 1, j), In(s, j))
  BY DEF At, Way
<1> QED
  BY <1>2, <1>3, <1>4, <1>5 DEF Waits

\* In shallow programs nothing else escapes it.
LEMMA ShallowOrderMeansYes ==
  ASSUME NEW M \in Nat, TaskInv(M), Shallow, NEW s \in DOMAIN recorded, NEW t \in Tasks, Compared(s, t),
         RealOrder(s, t)
  PROVE  happensBefore(recorded[s], label[t]) = "yes"
<1>1. TaskTyped /\ TaskTree /\ TaskLabels /\ TaskCurrent
  BY DEF TaskInv
<1>2. s \in Stretches /\ Stretch(t) \in Stretches /\ Stretch(t)[1] = t
  BY <1>1, ComparedStretch
<1>3. Len(s[1]) \in Nat /\ Len(t) \in Nat /\ Len(s[1]) + 1 <= Len(MaxSteps)
  BY <1>1, <1>2, OfStretch, OfTask
<1>4. ASSUME NEW j \in 1..Len(s[1]) - 2, Joined(s, t, j) PROVE FALSE
  <2>1. CASE "taskwait" \notin Constructs
    <3>1. j + 1 \in 2..Len(s[1]) + 1 /\ j + 1 \in 2..Len(t) + 1
      BY <1>3, <1>4 DEF Joined
    <3>2. Waits(recorded[s], j + 1) = 0 /\ Waits(Now(t), j + 1) = 0
      BY <1>1, <1>2, <2>1, <3>1, NoWaits DEF Now
    <3> QED
      BY <1>4, <3>2 DEF Joined
  <2>2. CASE Len(MaxSteps) <= 3
    <3>1. Len(MaxSteps) \in Int => FALSE
      BY <1>3, <2>2
    <3>2. Len(MaxSteps) \in Int
      <4>1. MaxSteps \in Seq(Nat)
        BY <1>1, BoundsAssumption DEF TaskTyped, MaxSteps
      <4> QED
        BY <4>1, Sequences
    <3> QED
      BY <3>1, <3>2
  <2> QED
    BY <2>1, <2>2 DEF Shallow
<1> QED
  BY <1>4, OrderMeansYes

\* The task that both ways lead through has waited no more than the other knows.
LEMMA NotAbort ==
  ASSUME NEW M \in Nat, TaskInv(M), Shallow, NEW s \in DOMAIN recorded, NEW t \in Tasks, Compared(s, t)
  PROVE  happensBefore(recorded[s], label[t]) \in {"yes", "no"}
<1>1. /\ TaskTyped /\ TaskTree /\ TaskLabels /\ TaskCounts /\ TaskCurrent /\ TaskEpochs /\ TaskMarks
  BY DEF TaskInv
<1>2. /\ s \in Stretches /\ t \in Lower /\ Live(t) /\ label[t] = Now(t)
      /\ Stretch(t) \in Stretches /\ Stretch(t)[1] = t /\ Stretch(t) = <<t, clock[t]>>
  BY <1>1, ComparedStretch DEF Stretch, Now
<1>3. /\ s[1] \in TaskPaths /\ Len(s[1]) \in Nat \ {0} /\ t \in TaskPaths /\ Len(t) \in Nat \ {0}
      /\ TaskLabel(s[1], recorded[s]) /\ Len(recorded[s]) = Len(s[1]) + 1 /\ TaskLabel(t, label[t])
      /\ s[1] \in Tasks /\ Len(s[1]) + 1 <= Len(MaxSteps) /\ Len(t) + 1 <= Len(MaxSteps) /\ clock[t] \in Nat
  <2>1. /\ s[1] \in TaskPaths /\ Len(s[1]) \in Nat \ {0} /\ s[1] \in Tasks
        /\ TaskLabel(s[1], recorded[s]) /\ Len(recorded[s]) = Len(s[1]) + 1
    BY <1>1, <1>2, OfStretch, RecordIs
  <2>2. TaskLabel(t, label[t]) /\ t \in TaskPaths /\ Len(t) \in Nat \ {0} /\ clock[t] \in Nat
    BY <1>1, <1>2, OfStretch, RecordIs DEF Now
  <2> QED
    BY <1>1, <2>1, <2>2, OfTask
<1>4. ASSUME NEW j \in 1..Len(s[1]) - 1, j <= Len(t), SamePath(s[1], t, j)
      PROVE  ~(Waits(label[t], j + 1) < Waits(recorded[s], j + 1))
  <2>1. /\ j + 1 \in 2..Len(s[1]) + 1 /\ j + 1 \in 2..Len(t) + 1 /\ j \in 1..Len(s[1]) /\ j \in 1..Len(t)
        /\ j \in 0..Len(s[1]) /\ j \in 0..Len(t) /\ j < Len(s[1]) /\ j \in 0..Len(s[1]) - 1 /\ j > 0
    BY <1>3, <1>4
  <2>2. CASE "taskwait" \notin Constructs
    <3>1. Waits(recorded[s], j + 1) = 0 /\ Waits(Now(t), j + 1) = 0
      BY <1>1, <1>2, <2>1, <2>2, NoWaits DEF Now
    <3> QED
      BY <1>2, <3>1
  <2>3. CASE Len(MaxSteps) <= 3
    <3>1. Len(MaxSteps) \in Int
      <4>1. MaxSteps \in Seq(Nat)
        BY <1>1, BoundsAssumption DEF TaskTyped, MaxSteps
      <4> QED
        BY <4>1, Sequences
    <3>2. j = 1 /\ (Len(t) = 1 \/ Len(t) = 2)
      <4>1. \A n, m, k \in Int : k <= 3 /\ n + 1 <= k /\ m + 1 <= k => n <= 2 /\ m <= 2
        OBVIOUS
      <4>2. Len(s[1]) <= 2 /\ Len(t) <= 2
        BY <1>3, <2>3, <3>1, <4>1
      <4>3. j \in 1..Len(s[1]) - 1
        OBVIOUS
      <4>4. j = 1
        BY <1>3, <4>2, <4>3
      <4>5. Len(t) = 1 \/ Len(t) = 2
        <5>1. \A n \in Nat \ {0} : n <= 2 => n = 1 \/ n = 2
          OBVIOUS
        <5>2. Len(t) \in Nat \ {0}
          BY <1>3
        <5> QED
          BY <4>2, <5>1, <5>2, Zenon
      <4> QED
        BY <4>4, <4>5
    <3> DEFINE a == SubSeq(s[1], 1, j)
    <3>3. SubSeq(t, 1, j) = a
      BY <1>3, <1>4, <2>1, SamePathTo
    <3>4. /\ a \in Lower /\ Len(a) = j /\ In(s, j) \in 0..clock[a]
          /\ recorded[s][j + 1] = At(a, In(s, j))[j + 1]
      BY <1>1, <1>2, <2>1, OfWay
    <3>5. In(s, j) < clock[a]
      BY <1>1, <1>3, <2>1 DEF TaskTree, In
    <3> HIDE DEF a
    <3>6. Waits(recorded[s], j + 1) = Waits(At(a, In(s, j)), j + 1)
      BY <3>4 DEF Waits
    <3>7. Waits(At(a, In(s, j)), j + 1) <= Waits(Now(t), j + 1)
      <4>1. CASE Len(t) = 1
        <5>1. a = t /\ j + 1 = Own(t)
          BY <1>3, <2>1, <3>2, <3>3, <4>1, PathTo DEF Own
        <5>2. clock[a] \in 0..clock[a] /\ Now(t) = At(a, clock[a])
          BY <1>2, <1>3, <5>1 DEF Now, At
        <5> QED
          BY <1>1, <3>4, <3>5, <5>1, <5>2 DEF TaskCounts
      <4>2. CASE Len(t) = 2
        <5>1. Front(t) = a /\ Len(t) = j + 1 /\ Len(t) > 1
          BY <3>2, <3>3, <4>2 DEF Front
        <5>2. Waits(At(Front(t), In(s, j)), Len(t)) <= Waits(Now(t), Len(t))
          BY <1>1, <1>2, <3>4, <5>1 DEF TaskMarks
        <5> QED
          BY <5>1, <5>2
      <4> QED
        BY <3>2, <4>1, <4>2
    <3>8. Waits(recorded[s], j + 1) \in Nat /\ Waits(label[t], j + 1) \in Nat
      <4>1. j + 1 \in 1..Len(s[1]) + 1 /\ j + 1 \in 1..Len(t) + 1
        BY <2>1
      <4> QED
        BY <1>3, <4>1, OfLabel
    <3> QED
      BY <1>2, <3>6, <3>7, <3>8
  <2> QED
    BY <2>2, <2>3 DEF Shallow
<1>5. CASE AnswersBelow(s, t)
  <2>1. PICK j \in 1..Len(s[1]) - 1 :
          /\ j <= Len(t) /\ SamePath(s[1], t, j)
          /\ j < Len(t) => s[1][j + 1] # t[j + 1]
          /\ happensBefore(recorded[s], label[t]) =
               IF Waits(recorded[s], j + 1) = Waits(label[t], j + 1) THEN "no"
               ELSE IF Waits(recorded[s], j + 1) < Waits(label[t], j + 1)
                    THEN analyzeSyncChain(recorded[s], j + 2)
               ELSE "abort"
    BY <1>5 DEF AnswersBelow
  <2>2. ~(Waits(label[t], j + 1) < Waits(recorded[s], j + 1))
    BY <1>4, <2>1
  <2>3. Waits(recorded[s], j + 1) \in Nat /\ Waits(label[t], j + 1) \in Nat
    <3>1. j + 1 \in 1..Len(s[1]) + 1 /\ j + 1 \in 1..Len(t) + 1
      BY <1>3, <2>1
    <3> QED
      BY <1>3, <3>1, OfLabel
  <2>4. j + 2 \in 3..Len(recorded[s])
    BY <1>3
  <2>5. analyzeSyncChain(recorded[s], j + 2) \in {"yes", "no"}
    BY <1>3, <2>4, ChainAnswer
  <2> QED
    BY <2>1, <2>2, <2>3, <2>5
<1> QED
  BY <1>1, <1>5, AnswerOf DEF AnswersEarlier, AnswersMember, AnswersOwn

\* Labels alone decide, and none is a prefix of a recorded one.
LEMMA DetectedIs ==
  ASSUME NEW M \in Nat, TaskInv(M), NEW s \in DOMAIN recorded, NEW t \in Tasks, Compared(s, t)
  PROVE  /\ Detected(s, t) <=> happensBefore(recorded[s], label[t]) = "no"
         /\ IsRace(recorded[s], label[t]) <=> happensBefore(recorded[s], label[t]) = "no"
         /\ compareLabels(recorded[s], label[t]) # eRightIsPrefix
<1>1. compareLabels(recorded[s], label[t]) # eRightIsPrefix
  BY AnswerOf DEF TaskInv
<1>2. IsRace(recorded[s], label[t]) <=> happensBefore(recorded[s], label[t]) = "no"
  BY <1>1 DEF IsRace, IsRaceFrom, happensBefore
<1>3. ~HasPath(s[1], t)
  BY NoPath DEF TaskInv, TaskTyped
<1> QED
  BY <1>1, <1>2, <1>3 DEF Detected

\* Explicit tasks are those below the members of a team.
LEMMA ExplicitIs ==
  ASSUME TaskTyped, NEW t \in Lower
  PROVE  /\ IsExplicit(t) <=> Len(t) > 1
         /\ IsImplicit(t) <=> Len(t) = 1
         /\ Front(t) = SubSeq(t, 1, Len(t) - 1) /\ Last(t) = t[Len(t)]
<1>1. t \in Tasks
  BY DEF Lower
<1>2. /\ t \in TaskPaths /\ Len(t) \in Nat \ {0} /\ t # InitialTask /\ t[1][2] \in Nat
      /\ \A i \in 2..Len(t) : t[i][2] = NoIndex
  BY <1>1, OfTask DEF Lower
<1>3. Last(t) = t[Len(t)] /\ Front(t) = SubSeq(t, 1, Len(t) - 1)
  BY DEF Last, Front
<1>4. Len(t) = 1 => Last(t)[2] # NoIndex
  BY <1>2, <1>3 DEF NoIndex
<1>5. Len(t) > 1 => Last(t)[2] = NoIndex
  <2>1. ASSUME Len(t) > 1 PROVE Len(t) \in 2..Len(t)
    BY <1>2, <2>1
  <2> QED
    BY <1>2, <1>3, <2>1
<1>6. Len(t) = 1 \/ Len(t) > 1
  <2>1. \A n \in Nat \ {0} : n = 1 \/ n > 1
    OBVIOUS
  <2>2. Len(t) \in Nat \ {0}
    BY <1>2
  <2> QED
    BY <2>1, <2>2, Zenon
<1>7. IsExplicit(t) <=> Len(t) > 1
  BY <1>2, <1>4, <1>5, <1>6 DEF IsExplicit
<1>8. IsImplicit(t) <=> Len(t) = 1
  BY <1>2, <1>6, <1>7 DEF IsImplicit
<1> QED
  BY <1>3, <1>7, <1>8

\* Two explicit tasks of one parent
LEMMA SiblingsYes ==
  ASSUME NEW M \in Nat, TaskInv(M), NEW s \in DOMAIN recorded, NEW t \in Tasks, Compared(s, t), RealOrder(s, t),
         IsExplicit(s[1]), IsExplicit(t), Front(s[1]) = Front(t)
  PROVE  happensBefore(recorded[s], label[t]) = "yes"
<1>1. TaskTyped /\ TaskLabels /\ TaskCurrent
  BY DEF TaskInv
<1>2. s \in Stretches /\ t \in Lower /\ t \in Tasks
  BY <1>1, ComparedStretch
<1>3. /\ s[1] \in Lower /\ s[1] \in TaskPaths /\ t \in TaskPaths /\ Len(s[1]) \in Nat \ {0} /\ Len(t) \in Nat \ {0}
  BY <1>1, <1>2, OfStretch, OfTask
<1>4. SubSeq(s[1], 1, Len(s[1]) - 1) = SubSeq(t, 1, Len(t) - 1)
  BY <1>1, <1>2, <1>3, ExplicitIs
<1> DEFINE n == Len(s[1]) - 1
           m == Len(t) - 1
<1>5. n \in 0..Len(s[1]) /\ m \in 0..Len(t)
  BY <1>3
<1> HIDE DEF n, m
<1>6. /\ Len(SubSeq(s[1], 1, n)) = n /\ \A i \in 1..n : SubSeq(s[1], 1, n)[i] = s[1][i]
      /\ Len(SubSeq(t, 1, m)) = m /\ \A i \in 1..m : SubSeq(t, 1, m)[i] = t[i]
  BY <1>3, <1>5, PathTo
<1>7. n = m /\ \A i \in 1..n : s[1][i] = t[i]
  BY <1>4, <1>6 DEF n, m
<1>8. ASSUME NEW j \in 1..Len(s[1]) - 2, Joined(s, t, j) PROVE FALSE
  <2>1. j < Len(t) /\ j + 1 \in 1..n
    BY <1>3, <1>7 DEF n, m
  <2> QED
    BY <1>7, <1>8, <2>1 DEF Joined
<1> QED
  BY <1>8, OrderMeansYes

\* A member of a team that is over has nothing running beside or below it.
LEMMA DeletedOrdered ==
  ASSUME NEW M \in Nat, TaskInv(M), NEW s \in DOMAIN recorded, NEW t \in Tasks, Compared(s, t),
         IsImplicit(s[1]), happensBefore(recorded[s], label[t]) = "no"
  PROVE  s[1] # t => status[s[1]] # "over"
<1>1. TaskTyped /\ TaskLabels /\ TaskCurrent /\ TaskEpochs /\ TaskEnds
  BY DEF TaskInv
<1>2. /\ s \in Stretches /\ t \in Lower /\ Live(t) /\ status[t] = "running" /\ Epoch(t) = Offset(label[t], 1)
      /\ Stretch(t) \in Stretches /\ Stretch(t)[1] = t /\ label[t] = recorded[Stretch(t)]
  BY <1>1, ComparedStretch
<1>3. /\ s[1] \in Lower /\ Len(s[1]) = 1 /\ Len(t) \in Nat
      /\ TaskLabel(s[1], recorded[s]) /\ TaskLabel(t, label[t])
  BY <1>1, <1>2, OfStretch, RecordIs, ExplicitIs
<1>4. Offset(recorded[s], 1) = Offset(label[t], 1)
  BY <1>3, EpochAnswer
<1>5. s[1][1][1] = t[1][1]
  BY <1>1, <1>2, <1>4 DEF TaskEpochs
<1> QED
  BY <1>1, <1>2, <1>3, <1>5 DEF TaskEnds

-----------------------------------------------------------------------------
(* Steps that record nothing                                                *)

\* StretchIs in the next state
LEMMA StretchWillBe ==
  ASSUME NEW s
  PROVE  s \in Stretches' <=> s[1] \in Lower' /\ s[2] \in 0..clock'[s[1]] /\ s = <<s[1], s[2]>>
<1>1. ASSUME s \in Stretches' PROVE s[1] \in Lower' /\ s[2] \in 0..clock'[s[1]] /\ s = <<s[1], s[2]>>
  <2>1. PICK t \in Lower' : s \in {t} \X (0..clock'[t])
    BY <1>1 DEF Stretches
  <2> QED
    BY <2>1
<1>2. ASSUME s[1] \in Lower', s[2] \in 0..clock'[s[1]], s = <<s[1], s[2]>> PROVE s \in Stretches'
  <2>1. s \in {s[1]} \X (0..clock'[s[1]])
    BY <1>2
  <2> QED
    BY <1>2, <2>1 DEF Stretches
<1> QED
  BY <1>1, <1>2

\* A step that records nothing and moves no clock but that of the initial task
Silent == /\ app' = app /\ edges' = edges /\ Tasks' = Tasks /\ recorded' = recorded
          /\ \A v \in Lower : clock'[v] = clock[v]

\* It leaves the stretches and their labels as they are.
LEMMA SilentSame ==
  ASSUME Silent
  PROVE  /\ Lower' = Lower /\ Stretches' = Stretches
         /\ \A p, n : At(p, n)' = At(p, n)
         /\ \A v \in Lower : Now(v)' = Now(v) /\ Stretch(v)' = Stretch(v)
         /\ Constructs' = Constructs /\ MaxSteps' = MaxSteps
<1>1. Tasks' = Tasks /\ recorded' = recorded /\ app' = app /\ \A v \in Lower : clock'[v] = clock[v]
  BY DEF Silent
<1>2. Lower' = Lower
  BY <1>1 DEF Lower
<1>3. Stretches' = Stretches
  <2>1. ASSUME NEW s PROVE s \in Stretches' <=> s \in Stretches
    BY <1>1, <1>2, StretchIs, StretchWillBe
  <2> QED
    BY <2>1
<1>4. \A p, n : At(p, n)' = At(p, n)
  BY <1>1 DEF At
<1>5. \A v \in Lower : Now(v)' = Now(v) /\ Stretch(v)' = Stretch(v)
  BY <1>1 DEF Now, Stretch
<1> QED
  BY <1>1, <1>2, <1>3, <1>4, <1>5 DEF Constructs, MaxSteps

\* So do the parts of the invariant that are about them alone.
LEMMA SilentLabels ==
  ASSUME Silent, TaskLabels, TaskCounts
  PROVE  TaskLabels' /\ TaskCounts'
<1>1. /\ recorded' = recorded /\ Tasks' = Tasks /\ \A v \in Lower : clock'[v] = clock[v]
      /\ Lower' = Lower /\ Stretches' = Stretches /\ (\A p, n : At(p, n)' = At(p, n))
      /\ Constructs' = Constructs
  BY SilentSame DEF Silent
<1>2. TaskLabels'
  <2>1. ASSUME NEW s \in Stretches
        PROVE  /\ TaskLabel(s[1], recorded[s])
               /\ \A i \in 2..Len(s[1]) : recorded[s][i] = At(SubSeq(s[1], 1, i - 1), s[1][i][1])[i]
    BY DEF TaskLabels
  <2>2. \A s, r \in Stretches : s[1][1][1] = r[1][1][1] => Span(recorded[s], 2) = Span(recorded[r], 2)
    BY DEF TaskLabels
  <2>3. "taskwait" \notin Constructs => \A s \in Stretches : Waits(recorded[s], Own(s[1])) = 0
    BY DEF TaskLabels
  <2>4. ASSUME NEW s \in Stretches'
        PROVE  /\ TaskLabel(s[1], recorded'[s])
               /\ \A i \in 2..Len(s[1]) : recorded'[s][i] = At(SubSeq(s[1], 1, i - 1), s[1][i][1])'[i]
    BY <1>1, <2>1
  <2>5. \A s, r \in Stretches' : s[1][1][1] = r[1][1][1] => Span(recorded'[s], 2) = Span(recorded'[r], 2)
    BY <1>1, <2>2
  <2>6. "taskwait" \notin Constructs' => \A s \in Stretches' : Waits(recorded'[s], Own(s[1])) = 0
    BY <1>1, <2>3
  <2> QED
    BY <2>4, <2>5, <2>6 DEF TaskLabels
<1>3. TaskCounts'
  <2>1. ASSUME NEW p \in Lower, NEW n \in 0..clock[p], NEW m \in 0..clock[p], n < m
        PROVE  /\ Waits(At(p, n), Own(p)) <= Waits(At(p, m), Own(p))
               /\ Creates(At(p, n), Own(p)) <= Creates(At(p, m), Own(p))
               /\ Append(p, <<n, NoIndex>>) \in Tasks => Creates(At(p, n), Own(p)) < Creates(At(p, m), Own(p))
    BY <2>1 DEF TaskCounts
  <2>2. ASSUME NEW p \in Lower', NEW n \in 0..clock'[p], NEW m \in 0..clock'[p], n < m
        PROVE  /\ Waits(At(p, n)', Own(p)) <= Waits(At(p, m)', Own(p))
               /\ Creates(At(p, n)', Own(p)) <= Creates(At(p, m)', Own(p))
               /\ Append(p, <<n, NoIndex>>) \in Tasks' => Creates(At(p, n)', Own(p)) < Creates(At(p, m)', Own(p))
    BY <1>1, <2>1, <2>2
  <2> QED
    BY <2>2 DEF TaskCounts
<1> QED
  BY <1>2, <1>3

\* Task t comes to a barrier, or an explicit task ends.
Rests(t, M) ==
  /\ Silent /\ t \in Lower /\ status[t] = "running"
  /\ DOMAIN status' = Tasks /\ DOMAIN clock' = Tasks /\ DOMAIN groups' = Tasks
  /\ DOMAIN past' = Tasks /\ DOMAIN children' = Tasks
  /\ \A v \in Tasks : /\ clock'[v] = clock[v] /\ past'[v] = past[v] /\ groups'[v] = groups[v]
                      /\ children'[v] = children[v]
                      /\ v # t => status'[v] = status[v] /\ label'[v] = label[v]
  /\ \/ /\ status'[t] \in {"atBarrier", "atEnd"} /\ Len(t) = 1 /\ label'[t] = label[t]
        /\ status'[t] = "atBarrier" => clock[t] < M
     \/ /\ status'[t] = "over" /\ Len(t) > 1 /\ label'[t] = Front(label[t])

\* A task that comes to a barrier or ends preserves the invariant.
LEMMA RestsKeeps ==
  ASSUME NEW M \in Nat, TaskInv(M), NEW t, Rests(t, M)
  PROVE  TaskInv(M)'
<1>1. /\ TaskTyped /\ TaskTree /\ TaskLabels /\ TaskObjects /\ TaskCounts /\ TaskCurrent
      /\ TaskEpochs /\ TaskBounds(M) /\ TaskEnds /\ TaskMarks /\ TaskChain /\ TaskWaited
      /\ TaskLineage /\ TaskPast
  BY DEF TaskInv
<1>2. /\ Silent /\ t \in Lower /\ status[t] = "running" /\ t \in Tasks /\ t # InitialTask
      /\ DOMAIN status' = Tasks /\ DOMAIN clock' = Tasks /\ DOMAIN groups' = Tasks
      /\ DOMAIN past' = Tasks /\ DOMAIN children' = Tasks
  BY DEF Rests, Lower
<1>3. ASSUME NEW v \in Tasks
      PROVE  /\ clock'[v] = clock[v] /\ past'[v] = past[v] /\ groups'[v] = groups[v] /\ children'[v] = children[v]
             /\ v # t => status'[v] = status[v] /\ label'[v] = label[v]
  BY DEF Rests
<1>4. \/ /\ status'[t] \in {"atBarrier", "atEnd"} /\ Len(t) = 1 /\ label'[t] = label[t]
         /\ status'[t] = "atBarrier" => clock[t] < M
      \/ /\ status'[t] = "over" /\ Len(t) > 1 /\ label'[t] = Front(label[t])
  BY DEF Rests
<1>5. /\ app' = app /\ edges' = edges /\ Tasks' = Tasks /\ recorded' = recorded
      /\ Lower' = Lower /\ Stretches' = Stretches /\ (\A p, n : At(p, n)' = At(p, n))
      /\ (\A v \in Lower : Now(v)' = Now(v) /\ Stretch(v)' = Stretch(v))
      /\ Constructs' = Constructs /\ MaxSteps' = MaxSteps
  BY <1>2, SilentSame DEF Silent
<1>6. InitialTask \in Tasks /\ InitialTask \notin Lower /\ \A v \in Lower : v \in Tasks
  BY <1>1 DEF TaskTyped, Lower
<1>7. /\ label'[InitialTask] = label[InitialTask] /\ status'[InitialTask] = status[InitialTask]
      /\ clock'[InitialTask] = clock[InitialTask] /\ past'[InitialTask] = past[InitialTask]
  BY <1>2, <1>3, <1>6
<1>8. ASSUME NEW v \in Tasks
      PROVE  /\ Live(v)' => Live(v)
             /\ status[v] = "over" => status'[v] = "over"
             /\ Len(v) = 1 => (status'[v] = "over" <=> status[v] = "over") /\ (Live(v)' <=> Live(v))
             /\ Leaving(v)' = Leaving(v)
             /\ (status'[v] = "ended") <=> (status[v] = "ended")
  <2>1. CASE v = t
    <3>1. CASE status'[t] \in {"atBarrier", "atEnd"} /\ Len(t) = 1
      BY <1>2, <1>5, <2>1, <3>1 DEF Live, Leaving
    <3>2. CASE status'[t] = "over" /\ Len(t) > 1
      <4>1. Len(t) # 1
        <5>1. \A n : n > 1 => n # 1
          OBVIOUS
        <5> QED
          BY <3>2, <5>1, Zenon
      <4> QED
        BY <1>2, <1>5, <2>1, <3>2, <4>1 DEF Live, Leaving
    <3> QED
      BY <1>4, <3>1, <3>2
  <2>2. CASE v # t
    BY <1>3, <1>5, <2>2 DEF Live, Leaving
  <2> QED
    BY <2>1, <2>2
<1>9. ASSUME NEW v \in Lower PROVE Epoch(v)' = Epoch(v)
  BY <1>5, <1>6, <1>8 DEF Epoch
<1>10. TaskLabels' /\ TaskCounts'
  BY <1>1, <1>2, SilentLabels
<1>11. TaskTyped'
  <2>1. ASSUME NEW v \in Tasks
        PROVE  /\ TaskPath(v) /\ Len(v) + 1 <= Len(MaxSteps')
               /\ status'[v] \in {"running", "forked", "atBarrier", "atEnd", "released", "ended", "over"}
               /\ Len(v) > 1 => status'[v] \in {"running", "over"}
               /\ clock'[v] \in Nat /\ groups'[v] = <<>>
               /\ \A s \in past'[v] : s \in {InitialTask} \X Nat \/ s \in Stretches'
               /\ \A u \in children'[v] : u \in Tasks' /\ Len(u) > 1 /\ Front(u) = v
    <3>1. /\ TaskPath(v) /\ Len(v) + 1 <= Len(MaxSteps)
          /\ status[v] \in {"running", "forked", "atBarrier", "atEnd", "released", "ended", "over"}
          /\ Len(v) > 1 => status[v] \in {"running", "over"}
          /\ clock[v] \in Nat /\ groups[v] = <<>>
          /\ \A s \in past[v] : s \in {InitialTask} \X Nat \/ s \in Stretches
          /\ \A u \in children[v] : u \in Tasks /\ Len(u) > 1 /\ Front(u) = v
      BY <1>1 DEF TaskTyped
    <3>2. /\ status'[v] \in {"running", "forked", "atBarrier", "atEnd", "released", "ended", "over"}
          /\ Len(v) > 1 => status'[v] \in {"running", "over"}
      <4>1. CASE v = t
        <5>1. CASE status'[t] \in {"atBarrier", "atEnd"} /\ Len(t) = 1
          <6>1. ~(Len(t) > 1)
            BY <5>1
          <6> QED
            BY <4>1, <5>1, <6>1, Zenon
        <5>2. CASE status'[t] = "over"
          BY <4>1, <5>2
        <5> QED
          BY <1>4, <5>1, <5>2
      <4>2. CASE v # t
        BY <1>3, <3>1, <4>2
      <4> QED
        BY <4>1, <4>2
    <3> QED
      BY <1>3, <1>5, <3>1, <3>2
  <2>2. /\ app' \in Programs /\ DOMAIN recorded' = Stretches' /\ edges' = {}
        /\ status'[InitialTask] \in {"running", "forked"}
        /\ label'[InitialTask] \in Seq(TaskSegment) /\ Len(label'[InitialTask]) = 1
        /\ FirstSegment(label'[InitialTask][1])
    BY <1>1, <1>5, <1>7 DEF TaskTyped
  <2> QED
    BY <1>2, <1>5, <1>6, <2>1, <2>2 DEF TaskTyped
<1>12. TaskTree'
  <2>1. ASSUME NEW v \in Tasks, NEW j \in 0..Len(v) PROVE SubSeq(v, 1, j) \in Tasks
    BY <1>1 DEF TaskTree
  <2>2. ASSUME NEW v \in Tasks, NEW j \in 0..Len(v) - 1
        PROVE  /\ v[j + 1][1] <= clock'[SubSeq(v, 1, j)]
               /\ j > 0 \/ status'[InitialTask] = "running" => v[j + 1][1] < clock'[SubSeq(v, 1, j)]
    <3>1. /\ v[j + 1][1] <= clock[SubSeq(v, 1, j)]
          /\ j > 0 \/ status[InitialTask] = "running" => v[j + 1][1] < clock[SubSeq(v, 1, j)]
      BY <1>1 DEF TaskTree
    <3>2. v \in TaskPaths
      BY <1>1 DEF TaskTyped, TaskPath
    <3>3. Len(v) \in Nat
      BY <3>2 DEF TaskPaths
    <3>4. j \in 0..Len(v)
      BY <3>3
    <3>5. SubSeq(v, 1, j) \in Tasks
      BY <2>1, <3>4
    <3>6. clock'[SubSeq(v, 1, j)] = clock[SubSeq(v, 1, j)]
      BY <1>3, <3>5
    <3> QED
      BY <1>7, <3>1, <3>6
  <2> QED
    BY <1>5, <2>1, <2>2 DEF TaskTree
<1>13. TaskObjects'
  <2>1. /\ \A s \in Stretches : recorded[s][Own(s[1])].obj[2] <= clock[s[1]]
        /\ \A o \in {recorded[r][1].obj : r \in Stretches} \cup {label[InitialTask][1].obj} :
             /\ o[1] \in Tasks /\ (o[2] <= clock[o[1]] \/ status[o[1]] = "over")
             /\ \A s \in Stretches : recorded[s][Own(s[1])].obj # o
    BY <1>1 DEF TaskObjects
  <2>2. \A s \in Stretches : s[1] \in Tasks
    BY <1>6, StretchIs
  <2>3. \A s \in Stretches : recorded[s][Own(s[1])].obj[2] <= clock'[s[1]]
    BY <1>3, <2>1, <2>2
  <2>4. \A o \in {recorded[r][1].obj : r \in Stretches} \cup {label[InitialTask][1].obj} :
             /\ o[1] \in Tasks /\ (o[2] <= clock'[o[1]] \/ status'[o[1]] = "over")
             /\ \A s \in Stretches : recorded[s][Own(s[1])].obj # o
    BY <1>3, <1>8, <2>1
  <2> QED
    BY <1>5, <1>7, <2>3, <2>4 DEF TaskObjects
<1>14. TaskCurrent'
  <2>1. ASSUME NEW v \in Lower
        PROVE  /\ Live(v)' => label'[v] = Now(v)
               /\ ~Live(v)' /\ Len(v) > 1 => /\ label'[v] \in Seq(TaskSegment) /\ Len(label'[v]) = Len(v)
                                             /\ \A i \in 1..Len(v) : label'[v][i] = Now(v)[i]
    <3>1. /\ Live(v) => label[v] = Now(v)
          /\ ~Live(v) /\ Len(v) > 1 => /\ label[v] \in Seq(TaskSegment) /\ Len(label[v]) = Len(v)
                                       /\ \A i \in 1..Len(v) : label[v][i] = Now(v)[i]
      BY <1>1 DEF TaskCurrent
    <3>2. CASE v # t
      BY <1>3, <1>5, <1>6, <3>1, <3>2 DEF Live
    <3>3. CASE v = t /\ Len(t) = 1
      BY <1>2, <1>4, <1>8, <3>1, <3>3
    <3>4. CASE v = t /\ Len(t) # 1
      <4>1. Live(t) /\ label[t] = Now(t) /\ label'[t] = Front(label[t]) /\ status'[t] = "over"
        BY <1>2, <1>4, <3>1, <3>4 DEF Live
      <4>2. Stretch(t) \in Stretches /\ Stretch(t)[1] = t
        <5>1. clock[t] \in 0..clock[t]
          BY <1>1, <1>2, OfTask
        <5> QED
          BY <1>2, <5>1, StretchOf DEF Stretch
      <4>3. Now(t) \in Seq(TaskSegment) /\ Len(Now(t)) = Len(t) + 1 /\ Len(t) \in Nat
        BY <1>1, <4>2, RecordIs, OfStretch DEF TaskLabel, Now
      <4>4. /\ Front(Now(t)) \in Seq(TaskSegment) /\ Len(Front(Now(t))) = Len(Now(t)) - 1
            /\ \A i \in 1..Len(Now(t)) - 1 : Front(Now(t))[i] = Now(t)[i]
        <5>1. Now(t) # <<>>
          BY <4>3, Sequences
        <5> QED
          BY <4>3, <5>1, FrontOf
      <4>5. Len(Now(t)) - 1 = Len(t)
        BY <4>3
      <4>6. ~Live(v)'
        BY <3>4, <4>1 DEF Live
      <4> QED
        BY <3>4, <4>1, <4>4, <4>5, <4>6
    <3> QED
      BY <3>2, <3>3, <3>4
  <2> QED
    BY <1>5, <2>1 DEF TaskCurrent
<1>15. TaskEpochs'
  <2>1. /\ \A v \in Lower : Live(v) => status[InitialTask] = "forked" /\ v[1][1] = clock[InitialTask]
        /\ \A v, u \in Lower : Live(v) /\ Live(u) => Epoch(v) = Epoch(u)
    BY <1>1 DEF TaskEpochs
  <2>2. \A v \in Lower : \A s \in Stretches : Live(v) =>
          /\ Offset(recorded[s], 1) <= Epoch(v)
          /\ Offset(recorded[s], 1) = Epoch(v) => s[1][1][1] = v[1][1]
          /\ Offset(recorded[s], 1) < Epoch(v) => s \in past[v]
    BY <1>1 DEF TaskEpochs
  <2>3. status[InitialTask] = "running" =>
          \A s \in Stretches : Offset(recorded[s], 1) < Offset(label[InitialTask], 1) /\ s \in past[InitialTask]
    BY <1>1 DEF TaskEpochs
  <2>4. /\ \A v \in Lower' : Live(v)' => status'[InitialTask] = "forked" /\ v[1][1] = clock'[InitialTask]
        /\ \A v, u \in Lower' : Live(v)' /\ Live(u)' => Epoch(v)' = Epoch(u)'
    BY <1>5, <1>6, <1>7, <1>8, <1>9, <2>1
  <2>5. \A v \in Lower' : \A s \in Stretches' : Live(v)' =>
          /\ Offset(recorded'[s], 1) <= Epoch(v)'
          /\ Offset(recorded'[s], 1) = Epoch(v)' => s[1][1][1] = v[1][1]
          /\ Offset(recorded'[s], 1) < Epoch(v)' => s \in past'[v]
    BY <1>3, <1>5, <1>6, <1>8, <1>9, <2>2
  <2>6. status'[InitialTask] = "running" =>
          \A s \in Stretches' : Offset(recorded'[s], 1) < Offset(label'[InitialTask], 1) /\ s \in past'[InitialTask]
    BY <1>5, <1>7, <2>3
  <2> QED
    BY <2>4, <2>5, <2>6 DEF TaskEpochs
<1>16. TaskBounds(M)'
  <2>1. ASSUME NEW v \in Lower', Len(v) = 1, Live(v)'
        PROVE  /\ clock'[v] <= M
               /\ status'[v] \in {"atBarrier", "released"} => clock'[v] < M
               /\ Epoch(v)' <= clock'[InitialTask] * (M + 1) + clock'[v] + Leaving(v)'
    <3>1. v \in Lower /\ v \in Tasks /\ Live(v)
      BY <1>5, <1>6, <1>8, <2>1
    <3>2. /\ clock[v] <= M
          /\ status[v] \in {"atBarrier", "released"} => clock[v] < M
          /\ Epoch(v) <= clock[InitialTask] * (M + 1) + clock[v] + Leaving(v)
      BY <1>1, <2>1, <3>1 DEF TaskBounds
    <3>3. status'[v] \in {"atBarrier", "released"} => clock[v] < M
      BY <1>3, <1>4, <3>1, <3>2
    <3> QED
      BY <1>3, <1>7, <1>8, <1>9, <3>1, <3>2, <3>3
  <2>2. /\ clock'[InitialTask] <= M
        /\ status'[InitialTask] = "forked" => clock'[InitialTask] < M
        /\ Offset(label'[InitialTask], 1) <= clock'[InitialTask] * (M + 1)
    BY <1>1, <1>7 DEF TaskBounds
  <2> QED
    BY <2>1, <2>2 DEF TaskBounds
<1>17. TaskEnds'
  <2>1. ASSUME NEW v \in Lower', NEW u \in Lower', Live(v)', v # u, v[1][1] = u[1][1], Len(u) = 1
        PROVE  status'[u] # "ended" /\ (status'[u] = "over" => status'[v] = "ended")
    <3>1. v \in Lower /\ u \in Lower /\ v \in Tasks /\ u \in Tasks /\ Live(v)
      BY <1>5, <1>6, <1>8, <2>1
    <3>2. status[u] # "ended" /\ (status[u] = "over" => status[v] = "ended")
      BY <1>1, <2>1, <3>1 DEF TaskEnds
    <3> QED
      BY <1>8, <2>1, <3>1, <3>2
  <2>2. ASSUME NEW v \in Lower', status'[v] = "ended", NEW s \in Stretches'
        PROVE  Offset(recorded'[s], 1) < Epoch(v)'
    <3>1. v \in Lower /\ v \in Tasks /\ s \in Stretches
      BY <1>5, <1>6, <2>2
    <3>2. status[v] = "ended"
      BY <1>8, <2>2, <3>1
    <3>3. Offset(recorded[s], 1) < Epoch(v)
      BY <1>1, <3>1, <3>2 DEF TaskEnds
    <3> QED
      BY <1>5, <1>9, <3>1, <3>3
  <2> QED
    BY <2>1, <2>2 DEF TaskEnds
<1>18. TaskMarks'
  <2>1. ASSUME NEW s \in Stretches', NEW i \in 2..Len(s[1]), Waited(recorded'[s], i)
        PROVE  status'[SubSeq(s[1], 1, i)] = "over"
    <3>1. s \in Stretches /\ Waited(recorded[s], i)
      BY <1>5, <2>1
    <3>2. status[SubSeq(s[1], 1, i)] = "over"
      BY <1>1, <3>1 DEF TaskMarks
    <3>3. SubSeq(s[1], 1, i) \in Tasks
      <4>1. s[1] \in Tasks /\ Len(s[1]) \in Nat
        BY <1>1, <3>1, OfStretch
      <4>2. i \in 0..Len(s[1])
        BY <4>1
      <4> QED
        BY <1>1, <4>1, <4>2 DEF TaskTree
    <3> QED
      BY <1>8, <3>2, <3>3
  <2>2. \A v \in Lower' : ~Waited(Now(v)', Own(v))
    BY <1>1, <1>5 DEF TaskMarks
  <2>3. ASSUME NEW v \in Lower', Len(v) > 1, Live(v)', NEW d \in 0..clock'[Front(v)]
        PROVE  Waits(At(Front(v), d)', Len(v)) <= Waits(Now(v)', Len(v))
    <3>1. v \in Lower /\ v \in Tasks /\ Live(v)
      BY <1>5, <1>6, <1>8, <2>3
    <3>2. Front(v) \in Tasks
      <4>1. Len(v) \in Nat /\ Len(v) - 1 \in 0..Len(v)
        BY <1>1, <2>3, <3>1, OfTask
      <4> QED
        BY <1>1, <3>1, <4>1 DEF TaskTree, Front
    <3>3. d \in 0..clock[Front(v)]
      BY <1>3, <3>2
    <3>4. Waits(At(Front(v), d), Len(v)) <= Waits(Now(v), Len(v))
      BY <1>1, <2>3, <3>1, <3>3 DEF TaskMarks
    <3> QED
      BY <1>5, <3>1, <3>4
  <2> QED
    BY <2>1, <2>2, <2>3 DEF TaskMarks
<1>19. \A s, j : Chain(s, j)' <=> Chain(s, j)
  BY <1>5 DEF Chain
<1>20. ASSUME NEW s, NEW v \in Lower, NEW j PROVE Joined(s, v, j)' <=> Joined(s, v, j)
  BY <1>5 DEF Joined
<1>21. ASSUME NEW s, NEW v \in Lower PROVE Lineage(s, v)' <=> Lineage(s, v)
  BY <1>3, <1>6 DEF Lineage
<1>22. TaskChain'
  <2>1. ASSUME NEW s \in Stretches', NEW j \in 1..Len(s[1]) - 1, Chain(s, j + 1)'
        PROVE  s \in past'[SubSeq(s[1], 1, j)]
    <3>1. s \in Stretches /\ Chain(s, j + 1)
      BY <1>5, <1>19, <2>1
    <3>2. s \in past[SubSeq(s[1], 1, j)]
      BY <1>1, <3>1 DEF TaskChain
    <3>3. SubSeq(s[1], 1, j) \in Tasks
      <4>1. s[1] \in Tasks /\ Len(s[1]) \in Nat
        BY <1>1, <3>1, OfStretch
      <4>2. j \in 0..Len(s[1])
        BY <4>1
      <4> QED
        BY <1>1, <4>1, <4>2 DEF TaskTree
    <3> QED
      BY <1>3, <3>2, <3>3
  <2> QED
    BY <2>1 DEF TaskChain
<1>23. TaskWaited'
  <2>1. ASSUME NEW s \in Stretches', NEW v \in Lower', NEW j \in 1..Len(s[1]) - 1,
               Live(v)', Joined(s, v, j)', Chain(s, j + 2)'
        PROVE  s \in past'[v]
    <3>1. s \in Stretches /\ v \in Lower /\ v \in Tasks
      BY <1>5, <1>6
    <3>2. Live(v) /\ Joined(s, v, j) /\ Chain(s, j + 2)
      BY <1>8, <1>19, <1>20, <2>1, <3>1
    <3> QED
      BY <1>1, <1>3, <3>1, <3>2 DEF TaskWaited
  <2> QED
    BY <2>1 DEF TaskWaited
<1>24. TaskLineage'
  <2>1. ASSUME NEW s \in Stretches', NEW v \in Lower', Live(v)', Lineage(s, v)'
        PROVE  s \in past'[v]
    <3>1. s \in Stretches /\ v \in Lower /\ v \in Tasks
      BY <1>5, <1>6
    <3>2. Live(v) /\ Lineage(s, v)
      BY <1>8, <1>21, <2>1, <3>1
    <3> QED
      BY <1>1, <1>3, <3>1, <3>2 DEF TaskLineage
  <2>2. ASSUME NEW v \in Lower', Len(v) > 1, NEW n \in 0..clock'[v] - 1 PROVE <<v, n>> \in past'[v]
    <3>1. v \in Lower /\ past'[v] = past[v] /\ clock'[v] = clock[v]
      BY <1>3, <1>5, <1>6
    <3> QED
      BY <1>1, <2>2, <3>1 DEF TaskLineage
  <2> QED
    BY <2>1, <2>2 DEF TaskLineage
<1>25. TaskPast'
  <2>1. ASSUME NEW v \in Lower', Live(v)' \/ Len(v) > 1, NEW s \in past'[v] \cap Stretches'
        PROVE  \/ Offset(recorded'[s], 1) < Epoch(v)'
               \/ Lineage(s, v)'
               \/ \E j \in 1..Len(s[1]) - 1 : Joined(s, v, j)'
    <3>1. v \in Lower /\ v \in Tasks /\ s \in past[v] \cap Stretches /\ (Live(v) \/ Len(v) > 1)
      BY <1>3, <1>5, <1>6, <1>8, <2>1
    <3>2. \/ Offset(recorded[s], 1) < Epoch(v)
          \/ Lineage(s, v)
          \/ \E j \in 1..Len(s[1]) - 1 : Joined(s, v, j)
      BY <1>1, <3>1 DEF TaskPast
    <3> QED
      BY <1>5, <1>9, <1>20, <1>21, <3>1, <3>2
  <2> QED
    BY <2>1 DEF TaskPast
<1> QED
  BY <1>10, <1>11, <1>12, <1>13, <1>14, <1>15, <1>16, <1>17, <1>18, <1>22, <1>23, <1>24, <1>25 DEF TaskInv

\* A task that goes on is bounded in its stretches.
LEMMA StepBound ==
  ASSUME NEW M \in Nat, TaskProgram(M), TaskTyped, NEW t \in Tasks, CanStep(t)
  PROVE  clock[t] < M
<1>1. MaxSteps \in Seq(Nat)
  BY BoundsAssumption DEF TaskTyped, MaxSteps
<1>2. Len(t) \in Nat /\ Len(t) + 1 <= Len(MaxSteps) /\ clock[t] \in Nat
  BY OfTask
<1>3. Len(t) + 1 \in DOMAIN MaxSteps /\ MaxSteps[Len(t) + 1] \in Nat
  BY <1>1, <1>2
<1>4. MaxSteps[Len(t) + 1] <= M
  BY <1>3 DEF TaskProgram
<1>5. clock[t] < MaxSteps[Len(t) + 1]
  BY DEF CanStep
<1> QED
  BY <1>2, <1>3, <1>4, <1>5

\* Coming to a barrier is such a step.
LEMMA RestsIfBarrierBegin ==
  ASSUME NEW M \in Nat, TaskProgram(M), TaskInv(M), NEW t \in Tasks,
         NEW kind \in {"atBarrier", "atEnd"}, BarrierBegin(t, kind)
  PROVE  Rests(t, M)
<1>1. TaskTyped
  BY DEF TaskInv
<1>2. /\ status[t] = "running" /\ IsImplicit(t) /\ status' = [status EXCEPT ![t] = kind]
      /\ kind = "atBarrier" => CanStep(t)
  BY DEF BarrierBegin, Running
<1>3. /\ app' = app /\ edges' = edges /\ label' = label /\ clock' = clock /\ past' = past
      /\ recorded' = recorded /\ groups' = groups /\ children' = children /\ Tasks' = Tasks
  BY DEF BarrierBegin, data, truth, Tasks
<1>4. t \in Lower /\ Len(t) = 1
  <2>1. t \in Lower
    BY <1>2 DEF IsImplicit, Lower
  <2> QED
    BY <1>1, <1>2, <2>1, ExplicitIs
<1>5. DOMAIN status = Tasks
  BY <1>1 DEF TaskTyped
<1>6. status'[t] = kind /\ DOMAIN status' = Tasks /\ \A v \in Tasks : v # t => status'[v] = status[v]
  BY <1>2, <1>5
<1>7. kind = "atBarrier" => clock[t] < M
  BY <1>1, <1>2, StepBound
<1>8. Silent
  BY <1>3 DEF Silent
<1>9. DOMAIN clock' = Tasks /\ DOMAIN groups' = Tasks /\ DOMAIN past' = Tasks /\ DOMAIN children' = Tasks
  BY <1>1, <1>3 DEF TaskTyped
<1> QED
  BY <1>2, <1>3, <1>4, <1>6, <1>7, <1>8, <1>9 DEF Rests

\* So is the end of an explicit task.
LEMMA RestsIfTaskComplete ==
  ASSUME NEW M \in Nat, TaskInv(M), NEW t \in Tasks, TaskComplete(t)
  PROVE  Rests(t, M)
<1>1. TaskTyped
  BY DEF TaskInv
<1>2. /\ status[t] = "running" /\ IsExplicit(t) /\ status' = [status EXCEPT ![t] = "over"]
      /\ label' = [label EXCEPT ![t] = Front(label[t])]
  BY DEF TaskComplete, Running, mutateTaskComplete
<1>3. /\ app' = app /\ edges' = edges /\ clock' = clock /\ past' = past
      /\ recorded' = recorded /\ groups' = groups /\ children' = children
  BY DEF TaskComplete, truth
<1>4. t \in Lower /\ Len(t) > 1
  <2>1. t \in Lower
    BY <1>2 DEF IsExplicit, Lower
  <2> QED
    BY <1>1, <1>2, <2>1, ExplicitIs
<1>5. DOMAIN status = Tasks
  BY <1>1 DEF TaskTyped
<1>6. status'[t] = "over" /\ DOMAIN status' = Tasks /\ \A v \in Tasks : v # t => status'[v] = status[v]
  BY <1>2, <1>5
<1>7. Tasks' = Tasks /\ label'[t] = Front(label[t]) /\ \A v \in Tasks : v # t => label'[v] = label[v]
  BY <1>2 DEF Tasks
<1>8. Silent
  BY <1>3, <1>7 DEF Silent
<1>9. DOMAIN clock' = Tasks /\ DOMAIN groups' = Tasks /\ DOMAIN past' = Tasks /\ DOMAIN children' = Tasks
  BY <1>1, <1>3 DEF TaskTyped
<1> QED
  BY <1>2, <1>3, <1>4, <1>6, <1>7, <1>8, <1>9 DEF Rests

\* A silent step that forgets nothing of the past, and wakes nobody, keeps all that
\* the invariant says to be past.
LEMMA SilentPast ==
  ASSUME Silent, TaskTyped, TaskTree, TaskChain, TaskWaited, TaskLineage,
         \A v \in Tasks : past[v] \subseteq past'[v],
         \A v \in Lower : Live(v)' => Live(v)
  PROVE  /\ TaskChain' /\ TaskWaited' /\ TaskLineage'
         /\ \A s, j : Chain(s, j)' <=> Chain(s, j)
         /\ \A s : \A v \in Lower : Lineage(s, v)' <=> Lineage(s, v)
         /\ \A s, j : \A v \in Lower : Joined(s, v, j)' <=> Joined(s, v, j)
<1>1. /\ Tasks' = Tasks /\ recorded' = recorded /\ Lower' = Lower /\ Stretches' = Stretches
      /\ (\A v \in Lower : Now(v)' = Now(v) /\ Stretch(v)' = Stretch(v))
      /\ \A v \in Lower : clock'[v] = clock[v]
  BY SilentSame DEF Silent
<1>2. \A v \in Lower : v \in Tasks
  BY DEF Lower
<1>3. \A s, j : Chain(s, j)' <=> Chain(s, j)
  BY <1>1 DEF Chain
<1>4. \A s : \A v \in Lower : Lineage(s, v)' <=> Lineage(s, v)
  BY <1>1 DEF Lineage
<1>5. \A s, j : \A v \in Lower : Joined(s, v, j)' <=> Joined(s, v, j)
  BY <1>1 DEF Joined
<1>6. TaskChain'
  <2>1. ASSUME NEW s \in Stretches', NEW j \in 1..Len(s[1]) - 1, Chain(s, j + 1)'
        PROVE  s \in past'[SubSeq(s[1], 1, j)]
    <3>1. s \in Stretches /\ Chain(s, j + 1)
      BY <1>1, <1>3, <2>1
    <3>2. s \in past[SubSeq(s[1], 1, j)]
      BY <3>1 DEF TaskChain
    <3>3. SubSeq(s[1], 1, j) \in Tasks
      <4>1. s[1] \in Tasks /\ Len(s[1]) \in Nat
        BY <3>1, OfStretch
      <4>2. j \in 0..Len(s[1])
        BY <4>1
      <4> QED
        BY <4>1, <4>2 DEF TaskTree
    <3> QED
      BY <3>2, <3>3
  <2> QED
    BY <2>1 DEF TaskChain
<1>7. TaskWaited'
  <2>1. ASSUME NEW s \in Stretches', NEW v \in Lower', NEW j \in 1..Len(s[1]) - 1,
               Live(v)', Joined(s, v, j)', Chain(s, j + 2)'
        PROVE  s \in past'[v]
    <3>1. s \in Stretches /\ v \in Lower /\ v \in Tasks
      BY <1>1, <1>2
    <3>2. Live(v) /\ Joined(s, v, j) /\ Chain(s, j + 2)
      BY <1>3, <1>5, <2>1, <3>1
    <3>3. s \in past[v]
      BY <3>1, <3>2 DEF TaskWaited
    <3> QED
      BY <3>1, <3>3
  <2> QED
    BY <2>1 DEF TaskWaited
<1>8. TaskLineage'
  <2>1. ASSUME NEW s \in Stretches', NEW v \in Lower', Live(v)', Lineage(s, v)'
        PROVE  s \in past'[v]
    <3>1. s \in Stretches /\ v \in Lower /\ v \in Tasks
      BY <1>1, <1>2
    <3>2. Live(v) /\ Lineage(s, v)
      BY <1>4, <2>1, <3>1
    <3>3. s \in past[v]
      BY <3>1, <3>2 DEF TaskLineage
    <3> QED
      BY <3>1, <3>3
  <2>2. ASSUME NEW v \in Lower', Len(v) > 1, NEW n \in 0..clock'[v] - 1 PROVE <<v, n>> \in past'[v]
    <3>1. v \in Lower /\ v \in Tasks /\ clock'[v] = clock[v]
      BY <1>1, <1>2
    <3>2. <<v, n>> \in past[v]
      BY <2>2, <3>1 DEF TaskLineage
    <3> QED
      BY <3>1, <3>2
  <2> QED
    BY <2>1, <2>2 DEF TaskLineage
<1> QED
  BY <1>3, <1>4, <1>5, <1>6, <1>7, <1>8

\* Marking once more keeps a phase of zero.
LEMMA OrOfZeros == BitwiseOr(0, 0) = 0
<1> DEFINE Bit(n, i) == (n \div 2^i) % 2 = 1
           P(c) == \A i \in 0..3 : Bit(c, i) <=> Bit(0, i) \/ Bit(0, i)
<1>1. 2^0 = 1 /\ 2^1 = 2 /\ 2^2 = 4 /\ 2^3 = 8
  OBVIOUS
<1>2. P(0)
  OBVIOUS
<1>3. ASSUME NEW c \in 0..CounterLimit-1, P(c) PROVE c = 0
  <2>1. c \in 0..15
    BY DEF CounterLimit
  <2>2. ~Bit(0, 0) /\ ~Bit(0, 1) /\ ~Bit(0, 2) /\ ~Bit(0, 3)
    BY <1>1
  <2>3. ~Bit(c, 0) /\ ~Bit(c, 1) /\ ~Bit(c, 2) /\ ~Bit(c, 3)
    BY <1>3, <2>2
  <2>4. (c \div 1) % 2 # 1 /\ (c \div 2) % 2 # 1 /\ (c \div 4) % 2 # 1 /\ (c \div 8) % 2 # 1
    BY <1>1, <2>3
  <2> QED
    BY <2>1, <2>4
<1>4. BitwiseOr(0, 0) = CHOOSE c \in 0..CounterLimit-1 : P(c)
  BY DEF BitwiseOr
<1>5. 0 \in 0..CounterLimit-1
  BY DEF CounterLimit
<1> HIDE DEF P
<1> QED
  BY <1>2, <1>3, <1>4, <1>5

-----------------------------------------------------------------------------
(* The barrier opens                                                        *)

\* The members of the team that is running
Members == {t \in Lower : Len(t) = 1 /\ t[1][1] = clock[InitialTask]}

\* All live tasks are at the barrier, and whoever goes on is past all that was done.
Freed(kind) ==
  /\ Silent /\ label' = label /\ clock' = clock /\ groups' = groups /\ children' = children
  /\ kind \in {"atBarrier", "atEnd"} /\ status[InitialTask] = "forked"
  /\ \A t \in Lower : Live(t) => t \in Members
  /\ \A t \in Members : status[t] = kind
  /\ DOMAIN status' = Tasks /\ DOMAIN past' = Tasks
  /\ \A t \in Tasks : t \notin Members => status'[t] = status[t] /\ past'[t] = past[t]
  /\ \A t \in Members :
       /\ status'[t] = IF kind = "atBarrier" THEN "released" ELSE IF t[1][2] = 0 THEN "ended" ELSE "over"
       /\ past[t] \subseteq past'[t]
       /\ \A s \in Stretches : s[1][1][1] = clock[InitialTask] => s \in past'[t]
       /\ \A s \in past'[t] : s \in {InitialTask} \X Nat \/ s \in Stretches

\* BarrierComplete does that.
LEMMA FreedIfBarrierComplete ==
  ASSUME NEW M \in Nat, TaskInv(M), NEW q \in Tasks, IsImplicit(q), BarrierComplete(Region(q))
  PROVE  \E kind : Freed(kind)
<1> DEFINE r == Region(q)
           region == {u \in Tasks : InRegion(u, r)}
           everything == (UNION {Upto(u) : u \in region}) \cup {s \in DOMAIN recorded : s[1] \in region}
<1>1. TaskTyped /\ TaskEpochs
  BY DEF TaskInv
<1>2. PICK kind \in {"atBarrier", "atEnd"} :
           /\ \A u \in Team(r) : status[u] = kind
           /\ \A u \in region : IsExplicit(u) => status[u] = "over"
           /\ status' = [u \in Tasks |->
                IF u \notin Team(r) THEN status[u]
                ELSE IF kind = "atBarrier" THEN "released"
                ELSE IF Last(u)[2] = 0 THEN "ended"
                ELSE "over"]
  BY DEF BarrierComplete
<1>3. past' = [u \in Tasks |-> IF u \in Team(r) THEN everything ELSE past[u]]
  BY DEF BarrierComplete
<1>4. /\ app' = app /\ edges' = edges /\ label' = label /\ clock' = clock /\ recorded' = recorded
      /\ groups' = groups /\ children' = children /\ Tasks' = Tasks
  BY DEF BarrierComplete, data, Tasks
<1>5. q \in Lower /\ Len(q) = 1 /\ q \in TaskPaths
  <2>1. q \in Lower
    BY DEF IsImplicit, Lower
  <2> QED
    BY <1>1, <2>1, ExplicitIs, OfTask
<1>6. r[1] = InitialTask /\ Len(r[1]) = 0 /\ r[2] = q[1][1]
  <2>1. Front(q) = SubSeq(q, 1, 0) /\ Last(q) = q[1]
    <3>1. Front(q) = SubSeq(q, 1, Len(q) - 1) /\ Last(q) = q[Len(q)]
      BY <1>1, <1>5, ExplicitIs
    <3> QED
      BY <1>5, <3>1
  <2>2. 0 \in 0..Len(q)
    BY <1>5
  <2>3. SubSeq(q, 1, 0) = InitialTask /\ Len(SubSeq(q, 1, 0)) = 0
    BY <1>5, <2>2, PathTo
  <2> QED
    BY <2>1, <2>3 DEF Region
<1> HIDE DEF r
<1>7. ASSUME NEW t \in Tasks PROVE InRegion(t, r) <=> t \in Lower /\ t[1][1] = q[1][1]
  <2>1. t \in TaskPaths /\ Len(t) \in Nat /\ (t \in Lower <=> Len(t) > 0)
    BY <1>1, OfTask
  <2>2. IsPrefix(InitialTask, t)
    BY <2>1 DEF IsPrefix, InitialTask, TaskPaths
  <2> QED
    BY <1>6, <2>1, <2>2 DEF InRegion
<1>8. ASSUME NEW t PROVE t \in Team(r) <=> t \in Lower /\ Len(t) = 1 /\ t[1][1] = q[1][1]
  <2>1. t \in Team(r) <=> t \in Tasks /\ InRegion(t, r) /\ Len(t) = Len(r[1]) + 1 /\ IsImplicit(t)
    BY DEF Team
  <2>2. t \in Lower => t \in Tasks /\ (IsImplicit(t) <=> Len(t) = 1)
    BY <1>1, ExplicitIs DEF Lower
  <2> QED
    BY <1>6, <1>7, <2>1, <2>2
<1>9. q[1][1] = clock[InitialTask] /\ status[InitialTask] = "forked"
  <2>1. q \in Team(r)
    BY <1>5, <1>8
  <2>2. Live(q)
    BY <1>2, <2>1 DEF Live
  <2> QED
    BY <1>1, <1>5, <2>2 DEF TaskEpochs
<1>10. \A t : t \in Team(r) <=> t \in Members
  BY <1>8, <1>9 DEF Members
<1>11. ASSUME NEW t \in Lower, Live(t) PROVE t \in Members
  <2>1. t[1][1] = q[1][1] /\ t \in Tasks /\ InRegion(t, r)
    BY <1>1, <1>7, <1>9, <1>11 DEF TaskEpochs, Lower
  <2>2. ~IsExplicit(t)
    BY <1>2, <1>11, <2>1 DEF Live
  <2>3. Len(t) = 1
    BY <1>1, <2>2, ExplicitIs, OfTask, <2>1, <1>11 DEF IsImplicit
  <2> QED
    BY <1>9, <2>1, <2>3 DEF Members
<1>12. ASSUME NEW t \in Members
       PROVE  /\ status'[t] = IF kind = "atBarrier" THEN "released" ELSE IF t[1][2] = 0 THEN "ended" ELSE "over"
              /\ past'[t] = everything /\ t \in region
  <2>1. t \in Team(r) /\ t \in Tasks /\ t \in Lower /\ Len(t) = 1
    BY <1>10 DEF Members, Lower
  <2>2. Last(t) = t[1]
    BY <1>1, <2>1, ExplicitIs
  <2>3. t \in region
    BY <2>1 DEF Team
  <2> QED
    BY <1>2, <1>3, <2>1, <2>2, <2>3
<1>13. ASSUME NEW s \in Stretches, s[1][1][1] = clock[InitialTask] PROVE s \in everything
  <2>1. s[1] \in Lower /\ s[1] \in Tasks /\ s \in DOMAIN recorded
    BY <1>1, OfStretch
  <2>2. s[1] \in region
    BY <1>7, <1>9, <1>13, <2>1
  <2> QED
    BY <2>1, <2>2
<1>14. ASSUME NEW s \in everything PROVE s \in {InitialTask} \X Nat \/ s \in Stretches
  <2>1. CASE s \in DOMAIN recorded
    BY <1>1, <2>1 DEF TaskTyped
  <2>2. CASE \E u \in region : s \in Upto(u)
    <3>1. PICK u \in region : s \in Upto(u)
      BY <2>2
    <3>2. u \in Lower /\ u \in Tasks
      BY <1>7, <3>1
    <3>3. CASE s \in past[u]
      BY <1>1, <3>2, <3>3 DEF TaskTyped
    <3>4. CASE s = Stretch(u)
      <4>1. clock[u] \in 0..clock[u]
        BY <1>1, <3>2, OfTask
      <4> QED
        BY <3>2, <3>4, <4>1, StretchOf DEF Stretch
    <3> QED
      BY <3>1, <3>3, <3>4 DEF Upto
  <2> QED
    BY <1>14, <2>1, <2>2
<1>15. ASSUME NEW t \in Tasks, t \notin Members PROVE status'[t] = status[t] /\ past'[t] = past[t]
  BY <1>2, <1>3, <1>10, <1>15
<1>16. \A t \in Members : past[t] \subseteq everything
  BY <1>12 DEF Upto
<1>17. DOMAIN status' = Tasks /\ DOMAIN past' = Tasks
  BY <1>2, <1>3
<1>18. Silent
  BY <1>4 DEF Silent
<1>19. \A t \in Members : status[t] = kind
  BY <1>2, <1>10
<1> HIDE DEF everything, region
<1>20. Freed(kind)
  BY <1>4, <1>9, <1>11, <1>12, <1>13, <1>14, <1>15, <1>16, <1>17, <1>18, <1>19 DEF Freed
<1> QED
  BY <1>20

\* The opening of a barrier preserves the invariant.
LEMMA FreedKeeps ==
  ASSUME NEW M \in Nat, TaskInv(M), NEW kind, Freed(kind)
  PROVE  TaskInv(M)'
<1>1. /\ TaskTyped /\ TaskTree /\ TaskLabels /\ TaskObjects /\ TaskCounts /\ TaskCurrent
      /\ TaskEpochs /\ TaskBounds(M) /\ TaskEnds /\ TaskMarks /\ TaskChain /\ TaskWaited
      /\ TaskLineage /\ TaskPast
  BY DEF TaskInv
<1>2. /\ Silent /\ label' = label /\ clock' = clock /\ groups' = groups /\ children' = children
      /\ kind \in {"atBarrier", "atEnd"} /\ status[InitialTask] = "forked"
      /\ DOMAIN status' = Tasks /\ DOMAIN past' = Tasks
  BY DEF Freed
<1>3. /\ app' = app /\ edges' = edges /\ Tasks' = Tasks /\ recorded' = recorded
      /\ Lower' = Lower /\ Stretches' = Stretches /\ (\A p, n : At(p, n)' = At(p, n))
      /\ (\A v \in Lower : Now(v)' = Now(v) /\ Stretch(v)' = Stretch(v))
      /\ Constructs' = Constructs /\ MaxSteps' = MaxSteps
  BY <1>2, SilentSame DEF Silent
<1>4. InitialTask \in Tasks /\ InitialTask \notin Lower /\ \A v \in Lower : v \in Tasks
  BY <1>1 DEF TaskTyped, Lower
<1>5. ASSUME NEW v \in Tasks, v \notin Members PROVE status'[v] = status[v] /\ past'[v] = past[v]
  BY <1>5 DEF Freed
<1>6. ASSUME NEW v \in Members
      PROVE  /\ status[v] = kind
             /\ status'[v] = IF kind = "atBarrier" THEN "released" ELSE IF v[1][2] = 0 THEN "ended" ELSE "over"
             /\ past[v] \subseteq past'[v]
             /\ \A s \in Stretches : s[1][1][1] = clock[InitialTask] => s \in past'[v]
             /\ \A s \in past'[v] : s \in {InitialTask} \X Nat \/ s \in Stretches
             /\ v \in Lower /\ v \in Tasks /\ Len(v) = 1 /\ v[1][1] = clock[InitialTask]
  BY <1>4 DEF Freed, Members
<1>7. ASSUME NEW v \in Lower, Live(v) PROVE v \in Members
  BY <1>7 DEF Freed
<1>8. status'[InitialTask] = status[InitialTask] /\ past'[InitialTask] = past[InitialTask]
  BY <1>4, <1>5 DEF Members
<1>9. ASSUME NEW v \in Members
      PROVE  /\ Live(v) /\ Leaving(v) = 0
             /\ Live(v)' => Leaving(v)' = 1 /\ Epoch(v)' = Epoch(v) + 1 /\ Epoch(v) \in Nat
             /\ status'[v] \in {"released", "ended", "over"}
  <2>1. Live(v) /\ Leaving(v) = 0
    BY <1>2, <1>6 DEF Live, Leaving
  <2>2. status'[v] \in {"released", "ended", "over"}
    BY <1>6
  <2>3. Live(v)' => Leaving(v)' = 1
    BY <2>2 DEF Live, Leaving
  <2>4. Offset(Now(v), 1) \in Nat
    <3>1. clock[v] \in 0..clock[v]
      BY <1>1, <1>6, OfTask
    <3>2. Stretch(v) \in Stretches /\ Stretch(v)[1] = v
      BY <1>6, <3>1, StretchOf DEF Stretch
    <3>3. TaskLabel(v, Now(v))
      BY <1>1, <3>2, RecordIs DEF Now
    <3> QED
      BY <1>6, <3>3, OfLabel
  <2>5. Epoch(v) = Offset(Now(v), 1) + 0
    BY <2>1 DEF Epoch
  <2>6. Epoch(v)' = Offset(Now(v), 1) + Leaving(v)'
    BY <1>3, <1>6 DEF Epoch
  <2> QED
    BY <2>1, <2>2, <2>3, <2>4, <2>5, <2>6
<1>10. ASSUME NEW v \in Lower, Live(v)' PROVE v \in Members /\ Live(v)
  <2>1. CASE v \in Members
    BY <1>9, <2>1
  <2>2. CASE v \notin Members
    BY <1>3, <1>4, <1>5, <1>7, <1>10, <2>2 DEF Live
  <2> QED
    BY <2>1, <2>2
<1>11. ASSUME NEW v \in Tasks
       PROVE  /\ past[v] \subseteq past'[v]
              /\ status[v] = "over" => status'[v] = "over"
              /\ status'[v] \in {"running", "forked", "atBarrier", "atEnd", "released", "ended", "over"}
              /\ Len(v) > 1 => v \notin Members /\ status'[v] = status[v]
  <2>1. CASE v \in Members
    <3>1. status[v] # "over" /\ ~(Len(v) > 1)
      <4>1. \A n : n = 1 => ~(n > 1)
        OBVIOUS
      <4> QED
        BY <1>2, <1>6, <2>1, <4>1
    <3> QED
      BY <1>6, <1>9, <2>1, <3>1
  <2>2. CASE v \notin Members
    BY <1>1, <1>5, <2>2 DEF TaskTyped
  <2> QED
    BY <2>1, <2>2
<1>12. TaskLabels' /\ TaskCounts'
  BY <1>1, <1>2, SilentLabels
<1>13. /\ TaskChain' /\ TaskWaited' /\ TaskLineage'
       /\ \A s : \A v \in Lower : Lineage(s, v)' <=> Lineage(s, v)
       /\ \A s, j : \A v \in Lower : Joined(s, v, j)' <=> Joined(s, v, j)
  <2>1. \A v \in Tasks : past[v] \subseteq past'[v]
    BY <1>11
  <2>2. \A v \in Lower : Live(v)' => Live(v)
    BY <1>10
  <2> QED
    BY <1>1, <1>2, <2>1, <2>2, SilentPast
<1>14. TaskTyped'
  <2>1. ASSUME NEW v \in Tasks
        PROVE  /\ TaskPath(v) /\ Len(v) + 1 <= Len(MaxSteps')
               /\ status'[v] \in {"running", "forked", "atBarrier", "atEnd", "released", "ended", "over"}
               /\ Len(v) > 1 => status'[v] \in {"running", "over"}
               /\ clock'[v] \in Nat /\ groups'[v] = <<>>
               /\ \A s \in past'[v] : s \in {InitialTask} \X Nat \/ s \in Stretches'
               /\ \A u \in children'[v] : u \in Tasks' /\ Len(u) > 1 /\ Front(u) = v
    <3>1. /\ TaskPath(v) /\ Len(v) + 1 <= Len(MaxSteps)
          /\ Len(v) > 1 => status[v] \in {"running", "over"}
          /\ clock[v] \in Nat /\ groups[v] = <<>>
          /\ \A s \in past[v] : s \in {InitialTask} \X Nat \/ s \in Stretches
          /\ \A u \in children[v] : u \in Tasks /\ Len(u) > 1 /\ Front(u) = v
      BY <1>1 DEF TaskTyped
    <3>2. \A s \in past'[v] : s \in {InitialTask} \X Nat \/ s \in Stretches
      BY <1>5, <1>6, <3>1
    <3> QED
      BY <1>2, <1>3, <1>11, <3>1, <3>2
  <2>2. /\ app' \in Programs /\ DOMAIN recorded' = Stretches' /\ edges' = {}
        /\ status'[InitialTask] \in {"running", "forked"}
        /\ label'[InitialTask] \in Seq(TaskSegment) /\ Len(label'[InitialTask]) = 1
        /\ FirstSegment(label'[InitialTask][1])
        /\ DOMAIN clock' = Tasks /\ DOMAIN groups' = Tasks /\ DOMAIN children' = Tasks
    BY <1>1, <1>2, <1>3, <1>8 DEF TaskTyped
  <2> QED
    BY <1>2, <1>3, <1>4, <2>1, <2>2 DEF TaskTyped
<1>15. TaskTree'
  BY <1>1, <1>2, <1>3, <1>8 DEF TaskTree
<1>16. TaskObjects'
  <2>1. /\ \A s \in Stretches : recorded[s][Own(s[1])].obj[2] <= clock[s[1]]
        /\ \A o \in {recorded[r][1].obj : r \in Stretches} \cup {label[InitialTask][1].obj} :
             /\ o[1] \in Tasks /\ (o[2] <= clock[o[1]] \/ status[o[1]] = "over")
             /\ \A s \in Stretches : recorded[s][Own(s[1])].obj # o
    BY <1>1 DEF TaskObjects
  <2>2. \A o \in {recorded[r][1].obj : r \in Stretches} \cup {label[InitialTask][1].obj} :
             /\ o[1] \in Tasks /\ (o[2] <= clock[o[1]] \/ status'[o[1]] = "over")
             /\ \A s \in Stretches : recorded[s][Own(s[1])].obj # o
    BY <1>11, <2>1
  <2> QED
    BY <1>2, <1>3, <2>1, <2>2 DEF TaskObjects
<1>17. TaskCurrent'
  <2>1. ASSUME NEW v \in Lower
        PROVE  /\ Live(v)' => label'[v] = Now(v)
               /\ ~Live(v)' /\ Len(v) > 1 => /\ label'[v] \in Seq(TaskSegment) /\ Len(label'[v]) = Len(v)
                                             /\ \A i \in 1..Len(v) : label'[v][i] = Now(v)[i]
    <3>1. /\ Live(v) => label[v] = Now(v)
          /\ ~Live(v) /\ Len(v) > 1 => /\ label[v] \in Seq(TaskSegment) /\ Len(label[v]) = Len(v)
                                       /\ \A i \in 1..Len(v) : label[v][i] = Now(v)[i]
      BY <1>1 DEF TaskCurrent
    <3>2. Live(v)' => label'[v] = Now(v)
      BY <1>2, <1>10, <3>1
    <3>3. ~Live(v)' /\ Len(v) > 1 => ~Live(v)
      BY <1>3, <1>4, <1>11 DEF Live
    <3> QED
      BY <1>2, <3>1, <3>2, <3>3
  <2> QED
    BY <1>3, <2>1 DEF TaskCurrent
<1>18. ASSUME NEW v \in Lower, Live(v)', NEW s \in Stretches
       PROVE  /\ Offset(recorded[s], 1) < Epoch(v)' /\ s \in past'[v]
              /\ v[1][1] = clock[InitialTask] /\ Epoch(v)' = Epoch(v) + 1 /\ Epoch(v) \in Nat
  <2>1. v \in Members /\ Live(v)
    BY <1>10, <1>18
  <2>2. v[1][1] = clock[InitialTask] /\ Epoch(v)' = Epoch(v) + 1 /\ Epoch(v) \in Nat
    BY <1>6, <1>9, <1>18, <2>1
  <2>3. /\ Offset(recorded[s], 1) <= Epoch(v)
        /\ Offset(recorded[s], 1) = Epoch(v) => s[1][1][1] = v[1][1]
        /\ Offset(recorded[s], 1) < Epoch(v) => s \in past[v]
    BY <1>1, <2>1 DEF TaskEpochs
  <2>4. Offset(recorded[s], 1) \in Nat
    <3>1. TaskLabel(s[1], recorded[s]) /\ Len(s[1]) \in Nat \ {0}
      BY <1>1, RecordIs, OfStretch
    <3> QED
      BY <3>1, OfLabel
  <2>5. Offset(recorded[s], 1) < Epoch(v)'
    BY <2>2, <2>3, <2>4
  <2>6. s \in past'[v]
    <3>1. CASE Offset(recorded[s], 1) = Epoch(v)
      BY <1>6, <2>1, <2>2, <2>3, <3>1
    <3>2. CASE Offset(recorded[s], 1) < Epoch(v)
      BY <1>6, <2>1, <2>3, <3>2
    <3> QED
      BY <2>2, <2>3, <2>4, <3>1, <3>2
  <2> QED
    BY <2>2, <2>5, <2>6
<1>19. TaskEpochs'
  <2>1. ASSUME NEW v \in Lower, Live(v)'
        PROVE  status'[InitialTask] = "forked" /\ v[1][1] = clock'[InitialTask]
    BY <1>2, <1>6, <1>8, <1>10, <2>1
  <2>2. ASSUME NEW v \in Lower, NEW u \in Lower, Live(v)', Live(u)' PROVE Epoch(v)' = Epoch(u)'
    <3>1. v \in Members /\ u \in Members /\ Live(v) /\ Live(u)
      BY <1>10, <2>2
    <3>2. Epoch(v)' = Epoch(v) + 1 /\ Epoch(u)' = Epoch(u) + 1 /\ Epoch(v) \in Nat
      BY <1>9, <2>2, <3>1
    <3>3. Epoch(v) = Epoch(u)
      BY <1>1, <3>1 DEF TaskEpochs
    <3> QED
      BY <3>2, <3>3
  <2>3. ASSUME NEW v \in Lower, NEW s \in Stretches, Live(v)'
        PROVE  /\ Offset(recorded[s], 1) <= Epoch(v)'
               /\ Offset(recorded[s], 1) = Epoch(v)' => s[1][1][1] = v[1][1]
               /\ Offset(recorded[s], 1) < Epoch(v)' => s \in past'[v]
    <3>1. Offset(recorded[s], 1) < Epoch(v)' /\ s \in past'[v] /\ Epoch(v)' \in Nat
      BY <1>18, <2>3
    <3>2. Offset(recorded[s], 1) \in Nat
      <4>1. TaskLabel(s[1], recorded[s]) /\ Len(s[1]) \in Nat \ {0}
        BY <1>1, RecordIs, OfStretch
      <4> QED
        BY <4>1, OfLabel
    <3> QED
      BY <3>1, <3>2
  <2>4. status'[InitialTask] # "running"
    BY <1>2, <1>8
  <2> QED
    BY <1>3, <2>1, <2>2, <2>3, <2>4 DEF TaskEpochs
<1>20. TaskBounds(M)'
  <2>1. ASSUME NEW v \in Lower', Len(v) = 1, Live(v)'
        PROVE  /\ clock'[v] <= M
               /\ status'[v] \in {"atBarrier", "released"} => clock'[v] < M
               /\ Epoch(v)' <= clock'[InitialTask] * (M + 1) + clock'[v] + Leaving(v)'
    <3>1. v \in Lower /\ v \in Tasks /\ Live(v) /\ v \in Members
      BY <1>3, <1>4, <1>10, <2>1
    <3>2. /\ clock[v] <= M
          /\ status[v] \in {"atBarrier", "released"} => clock[v] < M
          /\ Epoch(v) <= clock[InitialTask] * (M + 1) + clock[v] + Leaving(v)
      BY <1>1, <2>1, <3>1 DEF TaskBounds
    <3>3. status'[v] \in {"atBarrier", "released"} => clock[v] < M
      BY <1>2, <1>6, <3>1, <3>2
    <3>4. Epoch(v)' = Epoch(v) + 1 /\ Leaving(v) = 0 /\ Leaving(v)' = 1 /\ Epoch(v) \in Nat
      BY <1>9, <2>1, <3>1
    <3>5. clock[InitialTask] \in Nat /\ clock[v] \in Nat
      BY <1>1, <1>4, <3>1, OfTask
    <3> DEFINE c == clock[InitialTask] * (M + 1)
    <3>6. c \in Nat
      BY <3>5
    <3>7. Epoch(v) <= c + clock[v] + 0
      BY <3>2, <3>4
    <3> HIDE DEF c
    <3>8. Epoch(v) + 1 <= c + clock[v] + 1
      BY <3>4, <3>5, <3>6, <3>7
    <3>9. Epoch(v)' <= c + clock[v] + Leaving(v)'
      BY <3>4, <3>8
    <3> USE DEF c
    <3> QED
      BY <1>2, <3>2, <3>3, <3>9
  <2>2. /\ clock'[InitialTask] <= M
        /\ status'[InitialTask] = "forked" => clock'[InitialTask] < M
        /\ Offset(label'[InitialTask], 1) <= clock'[InitialTask] * (M + 1)
    BY <1>1, <1>2, <1>8 DEF TaskBounds
  <2> QED
    BY <2>1, <2>2 DEF TaskBounds
<1>21. TaskEnds'
  <2>1. ASSUME NEW v \in Lower', NEW u \in Lower', Live(v)', v # u, v[1][1] = u[1][1], Len(u) = 1
        PROVE  status'[u] # "ended" /\ (status'[u] = "over" => status'[v] = "ended")
    <3>1. v \in Lower /\ u \in Lower /\ v \in Tasks /\ u \in Tasks /\ v \in Members
      BY <1>3, <1>4, <1>10, <2>1
    <3>2. u \in Members
      BY <1>6, <2>1, <3>1 DEF Members
    <3>3. CASE kind = "atBarrier"
      BY <1>6, <3>2, <3>3
    <3>4. CASE kind # "atBarrier"
      <4>1. status'[v] = "ended" /\ v[1][2] = 0
        BY <1>3, <1>6, <2>1, <3>1, <3>4 DEF Live
      <4>2. u[1][2] # 0
        <5>1. v[1] = <<v[1][1], v[1][2]>> /\ u[1] = <<u[1][1], u[1][2]>> /\ v \in TaskPaths /\ u \in TaskPaths
          BY <1>1, <1>6, <3>1, <3>2, OfTask
        <5>2. v = <<v[1]>> /\ u = <<u[1]>>
          BY <1>6, <3>1, <3>2, <5>1 DEF TaskPaths
        <5> QED
          BY <2>1, <4>1, <5>1, <5>2
      <4> QED
        BY <1>6, <3>2, <3>4, <4>1, <4>2
    <3> QED
      BY <3>3, <3>4
  <2>2. ASSUME NEW v \in Lower', status'[v] = "ended", NEW s \in Stretches'
        PROVE  Offset(recorded'[s], 1) < Epoch(v)'
    <3>1. v \in Lower /\ v \in Tasks /\ s \in Stretches
      BY <1>3, <1>4, <2>2
    <3>2. Live(v)'
      BY <1>3, <2>2, <3>1 DEF Live
    <3> QED
      BY <1>3, <1>18, <3>1, <3>2
  <2> QED
    BY <2>1, <2>2 DEF TaskEnds
<1>22. TaskMarks'
  <2>1. ASSUME NEW s \in Stretches', NEW i \in 2..Len(s[1]), Waited(recorded'[s], i)
        PROVE  status'[SubSeq(s[1], 1, i)] = "over"
    <3>1. s \in Stretches /\ Waited(recorded[s], i)
      BY <1>3, <2>1
    <3>2. status[SubSeq(s[1], 1, i)] = "over"
      BY <1>1, <3>1 DEF TaskMarks
    <3>3. SubSeq(s[1], 1, i) \in Tasks
      <4>1. s[1] \in Tasks /\ Len(s[1]) \in Nat
        BY <1>1, <3>1, OfStretch
      <4>2. i \in 0..Len(s[1])
        BY <4>1
      <4> QED
        BY <1>1, <4>1, <4>2 DEF TaskTree
    <3> QED
      BY <1>11, <3>2, <3>3
  <2>2. \A v \in Lower' : ~Waited(Now(v)', Own(v))
    BY <1>1, <1>3 DEF TaskMarks
  <2>3. ASSUME NEW v \in Lower', Len(v) > 1, Live(v)', NEW d \in 0..clock'[Front(v)]
        PROVE  Waits(At(Front(v), d)', Len(v)) <= Waits(Now(v)', Len(v))
    <3>1. v \in Lower /\ v \in Tasks /\ Live(v) /\ d \in 0..clock[Front(v)]
      BY <1>2, <1>3, <1>4, <1>10, <2>3
    <3>2. Waits(At(Front(v), d), Len(v)) <= Waits(Now(v), Len(v))
      BY <1>1, <2>3, <3>1 DEF TaskMarks
    <3> QED
      BY <1>3, <3>1, <3>2
  <2> QED
    BY <2>1, <2>2, <2>3 DEF TaskMarks
<1>23. TaskPast'
  <2>1. ASSUME NEW v \in Lower', Live(v)' \/ Len(v) > 1, NEW s \in past'[v] \cap Stretches'
        PROVE  \/ Offset(recorded'[s], 1) < Epoch(v)'
               \/ Lineage(s, v)'
               \/ \E j \in 1..Len(s[1]) - 1 : Joined(s, v, j)'
    <3>1. v \in Lower /\ v \in Tasks /\ s \in Stretches
      BY <1>3, <1>4
    <3>2. CASE Live(v)'
      BY <1>3, <1>18, <3>1, <3>2
    <3>3. CASE ~Live(v)'
      <4>1. Len(v) > 1 /\ status'[v] = status[v] /\ past'[v] = past[v]
        BY <1>5, <1>11, <2>1, <3>1, <3>3
      <4>2. Epoch(v)' = Epoch(v)
        BY <1>3, <3>1, <4>1 DEF Epoch, Leaving
      <4>3. \/ Offset(recorded[s], 1) < Epoch(v)
            \/ Lineage(s, v)
            \/ \E j \in 1..Len(s[1]) - 1 : Joined(s, v, j)
        BY <1>1, <3>1, <4>1 DEF TaskPast
      <4> QED
        BY <1>3, <1>13, <3>1, <4>2, <4>3
    <3> QED
      BY <3>2, <3>3
  <2> QED
    BY <2>1 DEF TaskPast
<1> QED
  BY <1>12, <1>13, <1>14, <1>15, <1>16, <1>17, <1>19, <1>20, <1>21, <1>22, <1>23 DEF TaskInv

-----------------------------------------------------------------------------
(* The labels of a task that goes on                                        *)

\* The clone of the first segment that a barrier moves
LEMMA FirstMoves ==
  ASSUME NEW seg, FirstSegment(seg), NEW x \in TaskPaths \X Nat, seg.value.offset + 1 < OffsetLimit
  PROVE  LET moved == [seg EXCEPT !.value.offset = (seg.value.offset + seg.value.span) % OffsetLimit, !.obj = x]
         IN  FirstSegment(moved) /\ moved.value.offset = seg.value.offset + 1 /\ moved.obj = x
<1> DEFINE k == seg.value.offset + 1
           w == [seg.value EXCEPT !.offset = k]
           moved == [seg EXCEPT !.value = w, !.obj = x]
<1>1. seg \in TaskSegment /\ seg.value \in TaskValue /\ seg.value.span = 1 /\ seg.value.offset \in Nat
      /\ seg.value.type = "eImplicit" /\ seg.value.taskwait = 0 /\ seg.value.taskcreate = 0
      /\ ~seg.value.taskwaited
  BY OfSegment DEF FirstSegment
<1>2. k \in 0..OffsetLimit-1 /\ k % OffsetLimit = k
  BY <1>1, ModSmall, OffsetLimitAssumption
<1>3. (seg.value.offset + seg.value.span) % OffsetLimit = k
  BY <1>1, <1>2
<1> HIDE DEF k
<1>4. w \in TaskValue /\ w.offset = k
  BY <1>1, <1>2 DEF TaskValue
<1>5. /\ w.type = seg.value.type /\ w.span = seg.value.span /\ w.taskwait = seg.value.taskwait
      /\ w.taskcreate = seg.value.taskcreate /\ w.taskwaited = seg.value.taskwaited
  BY <1>1 DEF TaskValue
<1> HIDE DEF w
<1>6. moved \in TaskSegment /\ moved.value = w /\ moved.obj = x
  BY <1>1, <1>4 DEF TaskSegment
<1>7. FirstSegment(moved)
  BY <1>1, <1>5, <1>6 DEF FirstSegment
<1>8. [seg EXCEPT !.value.offset = (seg.value.offset + seg.value.span) % OffsetLimit, !.obj = x] = moved
  BY <1>3 DEF w
<1> QED
  BY <1>4, <1>6, <1>7, <1>8 DEF k

\* The label of a member of a team after a barrier
LEMMA BarrierLabel ==
  ASSUME NEW p \in TaskPaths, Len(p) = 1, NEW l, TaskLabel(p, l), NEW x \in TaskPaths \X Nat,
         Offset(l, 1) + 1 < OffsetLimit
  PROVE  LET b == mutateBarrierEnd(l, x)
         IN  /\ TaskLabel(p, b) /\ b[2] = l[2] /\ FirstSegment(b[1])
             /\ Offset(b, 1) = Offset(l, 1) + 1 /\ b[1].obj = x
<1> DEFINE b == mutateBarrierEnd(l, x)
           moved == [l[1] EXCEPT !.value.offset = (l[1].value.offset + l[1].value.span) % OffsetLimit, !.obj = x]
<1>1. /\ l \in Seq(TaskSegment) /\ Len(l) = 2 /\ FirstSegment(l[1]) /\ l[1] \in TaskSegment
  BY DEF TaskLabel, FirstSegment
<1>2. FirstSegment(moved) /\ moved.value.offset = l[1].value.offset + 1 /\ moved.obj = x
  BY <1>1, FirstMoves, ZenonT(40) DEF Offset
<1>3. b = [l EXCEPT ![1] = moved]
  <2>1. Len(l) - 1 = 1 /\ 1 \in DOMAIN l
    BY <1>1
  <2>2. b = [l EXCEPT ![Len(l) - 1].value.offset = (@ + l[Len(l) - 1].value.span) % OffsetLimit,
                      ![Len(l) - 1].obj = x]
    BY DEF mutateBarrierEnd
  <2>3. b = [l EXCEPT ![1].value.offset = (@ + l[1].value.span) % OffsetLimit, ![1].obj = x]
    BY <2>1, <2>2
  <2> QED
    BY <2>1, <2>3
<1> HIDE DEF b, moved
<1>4. b \in Seq(TaskSegment) /\ Len(b) = 2 /\ b[1] = moved /\ b[2] = l[2]
  <2>1. moved \in TaskSegment /\ 1 \in 1..Len(l) /\ 2 \in 1..Len(l)
    BY <1>1, <1>2 DEF FirstSegment
  <2>2. /\ b \in Seq(TaskSegment) /\ Len(b) = Len(l)
        /\ \A i \in 1..Len(l) : b[i] = IF i = 1 THEN moved ELSE l[i]
    <3>1. l \in Seq(TaskSegment)
      BY <1>1
    <3>2. ASSUME NEW k \in 1..Len(l), NEW m \in TaskSegment
          PROVE  /\ [l EXCEPT ![k] = m] \in Seq(TaskSegment) /\ Len([l EXCEPT ![k] = m]) = Len(l)
                 /\ \A i \in 1..Len(l) : [l EXCEPT ![k] = m][i] = IF i = k THEN m ELSE l[i]
      BY <3>1, ExceptSeq
    <3>3. /\ [l EXCEPT ![1] = moved] \in Seq(TaskSegment) /\ Len([l EXCEPT ![1] = moved]) = Len(l)
          /\ \A i \in 1..Len(l) : [l EXCEPT ![1] = moved][i] = IF i = 1 THEN moved ELSE l[i]
      BY <2>1, <3>2, Zenon
    <3> QED
      BY <1>3, <3>3, Zenon
  <2> QED
    BY <1>1, <2>1, <2>2
<1>5. TaskLabel(p, b)
  <2>1. /\ Type(l[2]) = "eImplicit" /\ Offset(l, 2) = p[1][2] /\ Offset(l, 2) < Span(l, 2)
        /\ l[2].obj[1] = SubSeq(p, 1, 1)
    <3>1. 2 \in 2..Len(l) /\ 2 - 1 = 1
      BY <1>1
    <3> QED
      BY <3>1 DEF TaskLabel
  <2>2. \A i \in 3..Len(b) : FALSE
    BY <1>4
  <2>3. \A i \in 2..Len(b) : i = 2
    BY <1>4
  <2> QED
    BY <1>2, <1>4, <2>1, <2>2, <2>3 DEF TaskLabel, Offset, Span
<1> QED
  BY <1>2, <1>4, <1>5 DEF b, Offset

\* The records when a task goes on that has a label of this kind
LEMMA RecordsOf ==
  ASSUME NEW t, t # InitialTask, NEW l \in Seq(TaskSegment), l # <<>>
  PROVE  /\ DOMAIN Records(t, l) = DOMAIN recorded \cup {NextStretch(t)}
         /\ \A s \in DOMAIN recorded : s # NextStretch(t) => Records(t, l)[s] = recorded[s]
         /\ Records(t, l)[NextStretch(t)] = l
<1>1. Accesses(t, l)
  <2>1. Last(l) \in TaskSegment
    BY FrontOf
  <2> QED
    BY <2>1, OfSegment DEF Accesses, Type
<1> DEFINE g == One(NextStretch(t), l)
<1>2. DOMAIN g = {NextStretch(t)} /\ g[NextStretch(t)] = l
  BY DEF One
<1>3. Records(t, l) = Extend(recorded, g)
  BY <1>1 DEF Records
<1> HIDE DEF g
<1>4. /\ DOMAIN Extend(recorded, g) = DOMAIN recorded \cup DOMAIN g
      /\ \A x \in DOMAIN g : Extend(recorded, g)[x] = g[x]
      /\ \A x \in DOMAIN recorded : x \notin DOMAIN g => Extend(recorded, g)[x] = recorded[x]
  BY Extending
<1> QED
  BY <1>2, <1>3, <1>4

\* The record of the current stretch
LEMMA NowIs ==
  ASSUME TaskTyped, TaskLabels, NEW t \in Lower
  PROVE  /\ Stretch(t) \in Stretches /\ Stretch(t)[1] = t /\ Stretch(t)[2] = clock[t]
         /\ Stretch(t) = <<t, clock[t]>>
         /\ TaskLabel(t, Now(t)) /\ Now(t) = At(t, clock[t]) /\ clock[t] \in 0..clock[t]
         /\ Len(Now(t)) = Len(t) + 1 /\ Now(t) \in Seq(TaskSegment) /\ Len(t) \in Nat \ {0} /\ Own(t) = Len(t) + 1
<1>1. clock[t] \in 0..clock[t] /\ Len(t) \in Nat /\ Len(t) > 0
  BY OfTask DEF Lower
<1>2. Stretch(t) \in Stretches /\ Stretch(t)[1] = t
  BY <1>1, StretchOf DEF Stretch
<1>3. TaskLabel(t, Now(t)) /\ Now(t) = At(t, clock[t]) /\ Stretch(t)[2] = clock[t]
  BY <1>2, RecordIs DEF Now, At, Stretch
<1>4. Len(Now(t)) = Len(t) + 1 /\ Now(t) \in Seq(TaskSegment)
  BY <1>3 DEF TaskLabel
<1>5. Len(t) \in Nat \ {0}
  BY <1>1
<1> QED
  BY <1>1, <1>2, <1>3, <1>4, <1>5 DEF Stretch, Own

\* The offset does not wrap when a member of a team leaves a barrier.
LEMMA NoWrapOfTask ==
  ASSUME NEW M \in Nat, TaskProgram(M), TaskInv(M), NEW t \in Lower, status[t] \in {"released", "ended"}
  PROVE  /\ Live(t) /\ Len(t) = 1 /\ label[t] = Now(t) /\ t[1][1] = clock[InitialTask]
         /\ Epoch(t) = Offset(Now(t), 1) + 1 /\ Offset(Now(t), 1) + 1 < OffsetLimit
         /\ Epoch(t) <= (clock[InitialTask] + 1) * (M + 1)
         /\ Epoch(t) <= clock[InitialTask] * (M + 1) + clock[t] + 1
         /\ clock[InitialTask] < M /\ clock[t] <= M /\ Offset(Now(t), 1) \in Nat
<1>1. TaskTyped /\ TaskLabels /\ TaskCurrent /\ TaskEpochs /\ TaskBounds(M)
  BY DEF TaskInv
<1>2. Live(t) /\ t \in Tasks
  BY DEF Live, Lower
<1>3. Len(t) = 1
  <2>1. ~(Len(t) > 1)
    BY <1>1, <1>2 DEF TaskTyped
  <2>2. Len(t) \in Nat \ {0}
    BY <1>1, NowIs
  <2>3. \A n \in Nat \ {0} : ~(n > 1) => n = 1
    OBVIOUS
  <2> QED
    BY <2>1, <2>2, <2>3, Zenon
<1>4. label[t] = Now(t) /\ status[InitialTask] = "forked" /\ t[1][1] = clock[InitialTask]
  BY <1>1, <1>2 DEF TaskCurrent, TaskEpochs
<1>5. Offset(Now(t), 1) \in Nat
  <2>1. TaskLabel(t, Now(t)) /\ Len(t) \in Nat
    BY <1>1, <1>3, NowIs
  <2> QED
    BY <2>1, OfLabel
<1>6. Leaving(t) = 1 /\ Epoch(t) = Offset(Now(t), 1) + 1
  BY DEF Epoch, Leaving
<1>7. /\ clock[InitialTask] < M /\ clock[t] <= M
      /\ Epoch(t) <= clock[InitialTask] * (M + 1) + clock[t] + 1
  BY <1>1, <1>2, <1>3, <1>4, <1>6 DEF TaskBounds
<1>8. clock[InitialTask] \in Nat /\ clock[t] \in Nat
  BY <1>1, <1>2, OfTask DEF TaskTyped
<1>9. Epoch(t) <= (clock[InitialTask] + 1) * (M + 1)
  <2>1. \A c, d, e \in Nat : d <= M /\ e <= c * (M + 1) + d + 1 => e <= (c + 1) * (M + 1)
    OBVIOUS
  <2>2. Epoch(t) \in Nat
    BY <1>5, <1>6
  <2> QED
    BY <1>7, <1>8, <2>1, <2>2
<1>10. Epoch(t) < OffsetLimit
  <2>1. \A c \in Nat : c < M => (c + 1) * (M + 1) <= M * (M + 1)
    <3>1. ASSUME NEW c \in Nat, c < M PROVE (c + 1) * (M + 1) <= M * (M + 1)
      <4>1. c + 1 \in Nat /\ c + 1 <= M /\ M + 1 \in Nat
        BY <3>1
      <4> QED
        BY <4>1
    <3> QED
      BY <3>1
  <2>2. 1 + M * (M + 1) <= OffsetLimit
    BY DEF TaskProgram
  <2>3. Epoch(t) \in Nat /\ M * (M + 1) \in Nat /\ (clock[InitialTask] + 1) * (M + 1) \in Nat
    BY <1>5, <1>6, <1>8
  <2>4. (clock[InitialTask] + 1) * (M + 1) <= M * (M + 1)
    BY <1>7, <1>8, <2>1
  <2> DEFINE a == (clock[InitialTask] + 1) * (M + 1)
             b == M * (M + 1)
  <2>5. a \in Nat /\ b \in Nat /\ a <= b /\ Epoch(t) <= a /\ 1 + b <= OffsetLimit
    BY <1>9, <2>2, <2>3, <2>4
  <2> HIDE DEF a, b
  <2> QED
    BY <2>3, <2>5, OffsetLimitAssumption
<1> QED
  BY <1>2, <1>3, <1>4, <1>5, <1>6, <1>7, <1>9, <1>10

-----------------------------------------------------------------------------
(* The region ends                                                          *)

\* Task t is the last of its team and the initial task goes on.
Leaves(t, M) ==
  /\ Silent /\ groups' = groups /\ children' = children
  /\ t \in Lower /\ status[t] = "ended" /\ status'[t] = "over" /\ past'[t] = past[t] /\ label'[t] = label[t]
  /\ \A d \in {DOMAIN status', DOMAIN clock', DOMAIN past'} : d = Tasks
  /\ \A v \in Lower : v # t => status'[v] = status[v] /\ past'[v] = past[v] /\ label'[v] = label[v]
  /\ status'[InitialTask] = "running" /\ clock'[InitialTask] = clock[InitialTask] + 1
  /\ past'[InitialTask] = Upto(InitialTask) \cup past[t]
  /\ label'[InitialTask] \in Seq(TaskSegment) /\ Len(label'[InitialTask]) = 1
  /\ FirstSegment(label'[InitialTask][1]) /\ Offset(label'[InitialTask], 1) = Epoch(t)
  /\ label'[InitialTask][1].obj = NextStretch(t)
  /\ Epoch(t) <= (clock[InitialTask] + 1) * (M + 1) /\ clock[InitialTask] < M

\* ImplicitTaskEnd does that.
LEMMA LeavesIfImplicitTaskEnd ==
  ASSUME NEW M \in Nat, TaskProgram(M), TaskInv(M), NEW t \in Tasks, ImplicitTaskEnd(t)
  PROVE  Leaves(t, M)
<1> DEFINE b == mutateBarrierEnd(label[t], NextStretch(t))
<1>1. TaskTyped /\ TaskLabels /\ TaskCurrent
  BY DEF TaskInv
<1>2. status[t] = "ended" /\ t \in Lower
  BY <1>1 DEF ImplicitTaskEnd, Lower, TaskTyped
<1>3. /\ Len(t) = 1 /\ label[t] = Now(t) /\ Epoch(t) = Offset(Now(t), 1) + 1
      /\ Offset(Now(t), 1) + 1 < OffsetLimit
      /\ Epoch(t) <= (clock[InitialTask] + 1) * (M + 1) /\ clock[InitialTask] < M
  BY <1>2, NoWrapOfTask
<1>4. Front(t) = InitialTask
  <2>1. Front(t) = SubSeq(t, 1, 0) /\ t \in TaskPaths /\ 0 \in 0..Len(t)
    BY <1>1, <1>2, <1>3, ExplicitIs, OfTask
  <2> QED
    BY <2>1, PathTo
<1>5. t \in TaskPaths /\ NextStretch(t) \in TaskPaths \X Nat /\ TaskLabel(t, Now(t))
  <2>1. t \in TaskPaths /\ clock[t] \in Nat /\ TaskLabel(t, Now(t))
    BY <1>1, <1>2, OfTask, NowIs
  <2> QED
    BY <2>1 DEF NextStretch
<1>6. TaskLabel(t, b) /\ FirstSegment(b[1]) /\ Offset(b, 1) = Offset(Now(t), 1) + 1 /\ b[1].obj = NextStretch(t)
  BY <1>3, <1>5, BarrierLabel
<1>7. /\ label' = [label EXCEPT ![InitialTask] = Front(b)]
      /\ recorded' = Records(InitialTask, Front(b))
      /\ clock' = [clock EXCEPT ![InitialTask] = @ + 1]
      /\ past' = [past EXCEPT ![InitialTask] = Upto(InitialTask) \cup past[t]]
      /\ status' = [status EXCEPT ![t] = "over", ![InitialTask] = "running"]
      /\ app' = app /\ edges' = edges /\ groups' = groups /\ children' = children
  BY <1>4 DEF ImplicitTaskEnd, Continue, Relabel, Labels, mutateParentImpEnd
<1> HIDE DEF b
<1>8. recorded' = recorded
  BY <1>7 DEF Records, Accesses
<1>9. Front(b) \in Seq(TaskSegment) /\ Len(Front(b)) = 1 /\ Front(b)[1] = b[1]
  <2>1. b \in Seq(TaskSegment) /\ Len(b) = 2
    BY <1>3, <1>6 DEF TaskLabel
  <2>2. b # <<>>
    BY <2>1
  <2>3. /\ Front(b) \in Seq(TaskSegment) /\ Len(Front(b)) = Len(b) - 1
        /\ \A i \in 1..Len(b) - 1 : Front(b)[i] = b[i]
    BY <2>1, <2>2, FrontOf
  <2>4. 1 \in 1..Len(b) - 1
    BY <2>1
  <2> QED
    BY <2>1, <2>3, <2>4
<1>10. /\ InitialTask \in Tasks /\ t # InitialTask /\ InitialTask \notin Lower /\ (\A v \in Lower : v \in Tasks)
       /\ DOMAIN status = Tasks /\ DOMAIN clock = Tasks /\ DOMAIN past = Tasks /\ DOMAIN label = Tasks
  BY <1>1, <1>2 DEF TaskTyped, Lower, Tasks
<1>11. /\ label'[InitialTask] = Front(b) /\ clock'[InitialTask] = clock[InitialTask] + 1
       /\ past'[InitialTask] = Upto(InitialTask) \cup past[t] /\ status'[InitialTask] = "running"
       /\ status'[t] = "over" /\ past'[t] = past[t] /\ label'[t] = label[t]
  BY <1>7, <1>10
<1>12. /\ DOMAIN status' = Tasks /\ DOMAIN clock' = Tasks /\ DOMAIN past' = Tasks /\ Tasks' = Tasks
  BY <1>7, <1>10 DEF Tasks
<1>13. ASSUME NEW v \in Lower
       PROVE  clock'[v] = clock[v] /\ past'[v] = past[v] /\ label'[v] = label[v]
              /\ (v # t => status'[v] = status[v])
  <2>1. v \in Tasks /\ v # InitialTask
    BY <1>10
  <2> QED
    BY <1>7, <1>10, <2>1
<1>14. Silent
  BY <1>7, <1>8, <1>12, <1>13 DEF Silent
<1>15. Offset(Front(b), 1) = Epoch(t) /\ FirstSegment(Front(b)[1]) /\ Front(b)[1].obj = NextStretch(t)
  BY <1>3, <1>6, <1>9 DEF Offset
<1> QED
  BY <1>2, <1>3, <1>7, <1>9, <1>11, <1>12, <1>13, <1>14, <1>15 DEF Leaves

\* The end of a region preserves the invariant.
LEMMA LeavesKeeps ==
  ASSUME NEW M \in Nat, TaskInv(M), NEW t, Leaves(t, M)
  PROVE  TaskInv(M)'
<1>1. /\ TaskTyped /\ TaskTree /\ TaskLabels /\ TaskObjects /\ TaskCounts /\ TaskCurrent
      /\ TaskEpochs /\ TaskBounds(M) /\ TaskEnds /\ TaskMarks /\ TaskChain /\ TaskWaited
      /\ TaskLineage /\ TaskPast
  BY DEF TaskInv
<1>2. /\ Silent /\ groups' = groups /\ children' = children
      /\ t \in Lower /\ status[t] = "ended" /\ status'[t] = "over" /\ past'[t] = past[t] /\ label'[t] = label[t]
      /\ DOMAIN status' = Tasks /\ DOMAIN clock' = Tasks /\ DOMAIN past' = Tasks
      /\ status'[InitialTask] = "running" /\ clock'[InitialTask] = clock[InitialTask] + 1
      /\ past'[InitialTask] = Upto(InitialTask) \cup past[t]
      /\ label'[InitialTask] \in Seq(TaskSegment) /\ Len(label'[InitialTask]) = 1
      /\ FirstSegment(label'[InitialTask][1]) /\ Offset(label'[InitialTask], 1) = Epoch(t)
      /\ label'[InitialTask][1].obj = NextStretch(t)
      /\ Epoch(t) <= (clock[InitialTask] + 1) * (M + 1) /\ clock[InitialTask] < M
  BY DEF Leaves
<1>3. /\ app' = app /\ edges' = edges /\ Tasks' = Tasks /\ recorded' = recorded
      /\ Lower' = Lower /\ Stretches' = Stretches /\ (\A p, n : At(p, n)' = At(p, n))
      /\ (\A v \in Lower : Now(v)' = Now(v) /\ Stretch(v)' = Stretch(v))
      /\ Constructs' = Constructs /\ MaxSteps' = MaxSteps
      /\ (\A v \in Lower : clock'[v] = clock[v])
  BY <1>2, SilentSame DEF Silent
<1>4. /\ InitialTask \in Tasks /\ InitialTask \notin Lower
      /\ \A v : v \in Lower <=> v \in Tasks /\ v # InitialTask
  BY <1>1 DEF TaskTyped, Lower
<1>5. ASSUME NEW v \in Lower
      PROVE  /\ past'[v] = past[v] /\ label'[v] = label[v] /\ (v # t => status'[v] = status[v])
  BY <1>2, <1>5 DEF Leaves
<1>6. clock[InitialTask] \in Nat /\ clock[t] \in Nat /\ Live(t) /\ t \in Tasks
  BY <1>1, <1>2, <1>4, OfTask DEF Live
<1>7. ASSUME NEW v \in Lower PROVE ~Live(v)'
  <2>1. SUFFICES ASSUME v # t, Live(v) PROVE FALSE
    BY <1>2, <1>3, <1>4, <1>5 DEF Live
  <2>2. v[1][1] = t[1][1]
    BY <1>1, <1>2, <1>6, <2>1 DEF TaskEpochs
  <2>3. Len(t) = 1
    <3>1. Len(t) \in Nat \ {0} /\ ~(Len(t) > 1)
      BY <1>1, <1>2, <1>6, NowIs DEF TaskTyped
    <3>2. \A n \in Nat \ {0} : ~(n > 1) => n = 1
      OBVIOUS
    <3> QED
      BY <3>1, <3>2, Zenon
  <2> QED
    BY <1>1, <1>2, <2>1, <2>2, <2>3 DEF TaskEnds
<1>8. ASSUME NEW s \in Stretches PROVE Offset(recorded[s], 1) < Epoch(t) /\ s \in past[t]
  <2>1. Offset(recorded[s], 1) < Epoch(t)
    BY <1>1, <1>2 DEF TaskEnds
  <2> QED
    BY <1>1, <1>2, <1>6, <2>1 DEF TaskEpochs
<1>9. \A v \in Tasks : past[v] \subseteq past'[v]
  BY <1>2, <1>4, <1>5 DEF Upto
<1>10. \A v \in Tasks : status[v] = "over" => status'[v] = "over"
  <2>1. status[InitialTask] # "over"
    BY <1>1 DEF TaskTyped
  <2> QED
    BY <1>2, <1>4, <1>5, <2>1
<1>11. TaskLabels' /\ TaskCounts'
  BY <1>1, <1>2, SilentLabels
<1>12. /\ TaskChain' /\ TaskWaited' /\ TaskLineage'
       /\ \A s : \A v \in Lower : Lineage(s, v)' <=> Lineage(s, v)
       /\ \A s, j : \A v \in Lower : Joined(s, v, j)' <=> Joined(s, v, j)
  <2>1. \A v \in Lower : Live(v)' => Live(v)
    BY <1>7
  <2> QED
    BY <1>1, <1>2, <1>9, <2>1, SilentPast
<1>13. TaskTyped'
  <2>1. ASSUME NEW v \in Tasks
        PROVE  /\ TaskPath(v) /\ Len(v) + 1 <= Len(MaxSteps')
               /\ status'[v] \in {"running", "forked", "atBarrier", "atEnd", "released", "ended", "over"}
               /\ Len(v) > 1 => status'[v] \in {"running", "over"}
               /\ clock'[v] \in Nat /\ groups'[v] = <<>>
               /\ \A s \in past'[v] : s \in {InitialTask} \X Nat \/ s \in Stretches'
               /\ \A u \in children'[v] : u \in Tasks' /\ Len(u) > 1 /\ Front(u) = v
    <3>1. ASSUME NEW w \in Tasks
          PROVE  /\ TaskPath(w) /\ Len(w) + 1 <= Len(MaxSteps)
                 /\ status[w] \in {"running", "forked", "atBarrier", "atEnd", "released", "ended", "over"}
                 /\ Len(w) > 1 => status[w] \in {"running", "over"}
                 /\ clock[w] \in Nat /\ groups[w] = <<>>
                 /\ \A s \in past[w] : s \in {InitialTask} \X Nat \/ s \in Stretches
                 /\ \A u \in children[w] : u \in Tasks /\ Len(u) > 1 /\ Front(u) = w
      BY <1>1, <3>1 DEF TaskTyped
    <3>2. /\ status'[v] \in {"running", "forked", "atBarrier", "atEnd", "released", "ended", "over"}
          /\ Len(v) > 1 => status'[v] \in {"running", "over"}
      <4>1. CASE v = InitialTask
        BY <1>2, <4>1
      <4>2. CASE v = t
        BY <1>2, <4>2
      <4>3. CASE v # t /\ v # InitialTask
        BY <1>4, <1>5, <3>1, <4>3
      <4> QED
        BY <4>1, <4>2, <4>3
    <3>3. clock'[v] \in Nat
      <4>1. CASE v = InitialTask
        BY <1>2, <1>6, <4>1
      <4>2. CASE v # InitialTask
        BY <1>3, <1>4, <3>1, <4>2
      <4> QED
        BY <4>1, <4>2
    <3>4. \A s \in past'[v] : s \in {InitialTask} \X Nat \/ s \in Stretches
      <4>1. CASE v = InitialTask
        <5>1. Stretch(InitialTask) \in {InitialTask} \X Nat
          BY <1>6 DEF Stretch
        <5> QED
          BY <1>2, <1>4, <1>6, <3>1, <4>1, <5>1 DEF Upto
      <4>2. CASE v # InitialTask
        BY <1>4, <1>5, <3>1, <4>2
      <4> QED
        BY <4>1, <4>2
    <3> QED
      BY <1>2, <1>3, <3>1, <3>2, <3>3, <3>4
  <2>2. /\ app' \in Programs /\ DOMAIN recorded' = Stretches' /\ edges' = {}
        /\ status'[InitialTask] \in {"running", "forked"}
        /\ DOMAIN groups' = Tasks /\ DOMAIN children' = Tasks
    BY <1>1, <1>2, <1>3 DEF TaskTyped
  <2> QED
    BY <1>2, <1>3, <1>4, <2>1, <2>2 DEF TaskTyped
<1>14. TaskTree'
  <2>1. ASSUME NEW v \in Tasks, NEW j \in 0..Len(v) PROVE SubSeq(v, 1, j) \in Tasks
    BY <1>1 DEF TaskTree
  <2>2. ASSUME NEW v \in Tasks, NEW j \in 0..Len(v) - 1
        PROVE  /\ v[j + 1][1] <= clock'[SubSeq(v, 1, j)]
               /\ j > 0 \/ status'[InitialTask] = "running" => v[j + 1][1] < clock'[SubSeq(v, 1, j)]
    <3>1. /\ v[j + 1][1] <= clock[SubSeq(v, 1, j)]
          /\ j > 0 => v[j + 1][1] < clock[SubSeq(v, 1, j)]
      BY <1>1 DEF TaskTree
    <3>2. v \in TaskPaths /\ Len(v) \in Nat /\ j \in 0..Len(v) /\ v[j + 1][1] \in Nat
      <4>1. v \in TaskPaths /\ Len(v) \in Nat
        BY <1>1, OfTask
      <4>2. j + 1 \in 1..Len(v) /\ j \in 0..Len(v)
        BY <4>1
      <4> QED
        BY <1>1, <4>1, <4>2, OfTask
    <3>3. SubSeq(v, 1, j) \in Tasks
      BY <2>1, <3>2
    <3>4. CASE j = 0
      <4>1. SubSeq(v, 1, j) = InitialTask
        BY <3>2, <3>4, PathTo
      <4>2. v[j + 1][1] <= clock[InitialTask] /\ clock'[SubSeq(v, 1, j)] = clock[InitialTask] + 1
        BY <1>2, <3>1, <4>1
      <4> QED
        BY <1>6, <3>2, <4>2
    <3>5. CASE j > 0
      <4>1. SubSeq(v, 1, j) \in Lower
        <5>1. SubSeq(v, 1, j) # InitialTask
          BY <3>2, <3>5, PathTo
        <5> QED
          BY <1>4, <3>3, <5>1
      <4>2. clock'[SubSeq(v, 1, j)] = clock[SubSeq(v, 1, j)]
        BY <1>3, <4>1
      <4> QED
        BY <3>1, <3>5, <4>2
    <3> QED
      BY <3>4, <3>5
  <2> QED
    BY <1>3, <2>1, <2>2 DEF TaskTree
<1>15. TaskObjects'
  <2>1. /\ \A s \in Stretches : recorded[s][Own(s[1])].obj[2] <= clock[s[1]]
        /\ \A o \in {recorded[r][1].obj : r \in Stretches} \cup {label[InitialTask][1].obj} :
             /\ o[1] \in Tasks /\ (o[2] <= clock[o[1]] \/ status[o[1]] = "over")
             /\ \A s \in Stretches : recorded[s][Own(s[1])].obj # o
    BY <1>1 DEF TaskObjects
  <2>2. \A s \in Stretches : recorded[s][Own(s[1])].obj[2] <= clock'[s[1]]
    <3>1. \A s \in Stretches : s[1] \in Lower
      BY StretchIs
    <3> QED
      BY <1>3, <2>1, <3>1
  <2>3. ASSUME NEW o \in {recorded[r][1].obj : r \in Stretches}
        PROVE  /\ o[1] \in Tasks /\ (o[2] <= clock'[o[1]] \/ status'[o[1]] = "over")
               /\ \A s \in Stretches : recorded[s][Own(s[1])].obj # o
    <3>1. /\ o[1] \in Tasks /\ (o[2] <= clock[o[1]] \/ status[o[1]] = "over")
          /\ \A s \in Stretches : recorded[s][Own(s[1])].obj # o
      BY <2>1
    <3>2. CASE status[o[1]] = "over"
      BY <1>10, <3>1, <3>2
    <3>3. CASE status[o[1]] # "over" /\ o[1] # InitialTask
      BY <1>3, <1>4, <3>1, <3>3
    <3>4. CASE o[1] = InitialTask
      <4>1. status[InitialTask] # "over"
        BY <1>1 DEF TaskTyped
      <4>2. o[2] <= clock[InitialTask]
        BY <3>1, <3>4, <4>1
      <4>3. PICK r \in Stretches : o = recorded[r][1].obj
        BY <2>3
      <4>4. o[2] \in Nat
        <5>1. TaskLabel(r[1], recorded[r])
          BY <1>1, RecordIs
        <5>2. recorded[r][1].obj \in TaskPaths \X Nat
          BY <5>1 DEF TaskLabel, FirstSegment, TaskSegment
        <5> QED
          BY <4>3, <5>2
      <4>5. o[2] <= clock'[InitialTask]
        BY <1>2, <1>6, <4>2, <4>4
      <4> QED
        BY <3>1, <3>4, <4>5
    <3> QED
      BY <3>1, <3>2, <3>3, <3>4
  <2>4. LET o == NextStretch(t)
        IN  /\ o[1] \in Tasks /\ (o[2] <= clock'[o[1]] \/ status'[o[1]] = "over")
            /\ \A s \in Stretches : recorded[s][Own(s[1])].obj # o
    <3>1. NextStretch(t) = <<t, clock[t] + 1>>
      BY DEF NextStretch
    <3>2. ASSUME NEW s \in Stretches, recorded[s][Own(s[1])].obj = <<t, clock[t] + 1>> PROVE FALSE
      <4>1. /\ TaskLabel(s[1], recorded[s]) /\ s[1] \in TaskPaths /\ Len(s[1]) \in Nat \ {0}
            /\ Own(s[1]) = Len(s[1]) + 1
        BY <1>1, RecordIs, OfStretch
      <4>2. Own(s[1]) \in 2..Len(recorded[s]) /\ Own(s[1]) - 1 = Len(s[1]) /\ Len(s[1]) \in 0..Len(s[1])
        BY <4>1 DEF TaskLabel
      <4>3. recorded[s][Own(s[1])].obj[1] = SubSeq(s[1], 1, Len(s[1]))
        BY <4>1, <4>2 DEF TaskLabel
      <4>4. s[1] = t
        <5>1. SubSeq(s[1], 1, Len(s[1])) = s[1]
          BY <4>1, <4>2, PathTo
        <5>2. <<t, clock[t] + 1>>[1] = t
          OBVIOUS
        <5> QED
          BY <3>2, <4>3, <5>1, <5>2
      <4>5. clock[t] + 1 <= clock[t]
        BY <2>1, <3>2, <4>4
      <4> QED
        BY <1>6, <4>5
    <3> QED
      BY <1>2, <1>6, <3>1, <3>2
  <2> QED
    BY <1>2, <1>3, <2>2, <2>3, <2>4 DEF TaskObjects
<1>16. TaskCurrent'
  <2>1. ASSUME NEW v \in Lower, Len(v) > 1
        PROVE  /\ label'[v] \in Seq(TaskSegment) /\ Len(label'[v]) = Len(v)
               /\ \A i \in 1..Len(v) : label'[v][i] = Now(v)[i]
    <3>1. v # t
      BY <1>1, <1>2, <1>6, <2>1 DEF TaskTyped
    <3>2. ~Live(v)
      BY <1>3, <1>5, <1>7, <3>1 DEF Live
    <3> QED
      BY <1>1, <1>5, <2>1, <3>2 DEF TaskCurrent
  <2> QED
    BY <1>3, <1>7, <2>1 DEF TaskCurrent
<1>17. TaskEpochs'
  <2>1. \A s \in Stretches : Offset(recorded[s], 1) < Offset(label'[InitialTask], 1) /\ s \in past'[InitialTask]
    BY <1>2, <1>8
  <2> QED
    BY <1>3, <1>7, <2>1 DEF TaskEpochs
<1>18. TaskBounds(M)'
  <2>1. clock'[InitialTask] <= M
    BY <1>2, <1>6
  <2> QED
    BY <1>2, <1>3, <1>7, <2>1 DEF TaskBounds
<1>19. TaskEnds'
  <2>1. ASSUME NEW v \in Lower, status'[v] = "ended" PROVE FALSE
    <3>1. Live(v)'
      BY <1>3, <1>4, <2>1 DEF Live
    <3> QED
      BY <1>7, <3>1
  <2> QED
    BY <1>3, <1>7, <2>1 DEF TaskEnds
<1>20. TaskMarks'
  <2>1. ASSUME NEW s \in Stretches', NEW i \in 2..Len(s[1]), Waited(recorded'[s], i)
        PROVE  status'[SubSeq(s[1], 1, i)] = "over"
    <3>1. s \in Stretches /\ Waited(recorded[s], i)
      BY <1>3, <2>1
    <3>2. status[SubSeq(s[1], 1, i)] = "over"
      BY <1>1, <3>1 DEF TaskMarks
    <3>3. SubSeq(s[1], 1, i) \in Tasks
      <4>1. s[1] \in Tasks /\ Len(s[1]) \in Nat
        BY <1>1, <3>1, OfStretch
      <4>2. i \in 0..Len(s[1])
        BY <4>1
      <4> QED
        BY <1>1, <4>1, <4>2 DEF TaskTree
    <3> QED
      BY <1>10, <3>2, <3>3
  <2>2. \A v \in Lower' : ~Waited(Now(v)', Own(v))
    BY <1>1, <1>3 DEF TaskMarks
  <2> QED
    BY <1>3, <1>7, <2>1, <2>2 DEF TaskMarks
<1>21. TaskPast'
  <2>1. ASSUME NEW v \in Lower, Len(v) > 1, NEW s \in past'[v] \cap Stretches
        PROVE  \/ Offset(recorded'[s], 1) < Epoch(v)'
               \/ Lineage(s, v)'
               \/ \E j \in 1..Len(s[1]) - 1 : Joined(s, v, j)'
    <3>1. v # t
      BY <1>1, <1>2, <1>6, <2>1 DEF TaskTyped
    <3>2. Epoch(v)' = Epoch(v) /\ s \in past[v]
      BY <1>3, <1>5, <3>1 DEF Epoch, Leaving
    <3>3. \/ Offset(recorded[s], 1) < Epoch(v)
          \/ Lineage(s, v)
          \/ \E j \in 1..Len(s[1]) - 1 : Joined(s, v, j)
      BY <1>1, <2>1, <3>2 DEF TaskPast
    <3> QED
      BY <1>3, <1>12, <3>2, <3>3
  <2> QED
    BY <1>3, <1>7, <2>1 DEF TaskPast
<1> QED
  BY <1>11, <1>12, <1>13, <1>14, <1>15, <1>16, <1>17, <1>18, <1>19, <1>20, <1>21 DEF TaskInv

-----------------------------------------------------------------------------
(* New tasks and their labels                                               *)

\* Two functions without a common argument, joined
LEMMA Joining ==
  ASSUME NEW f, NEW g, DOMAIN f \cap DOMAIN g = {}
  PROVE  /\ DOMAIN Extend(f, g) = DOMAIN f \cup DOMAIN g
         /\ \A x \in DOMAIN g : Extend(f, g)[x] = g[x]
         /\ \A x \in DOMAIN f : Extend(f, g)[x] = f[x]
<1>1. \A x \in DOMAIN f : x \notin DOMAIN g
  OBVIOUS
<1>2. \A x \in DOMAIN f : x \notin DOMAIN g => Extend(f, g)[x] = f[x]
  BY DEF Extend
<1>3. \A x \in DOMAIN g : Extend(f, g)[x] = g[x]
  BY DEF Extend
<1> QED
  BY <1>1, <1>2, <1>3, Extending

\* A new segment
LEMMA NewSegment ==
  ASSUME NEW type \in {"eImplicit", "eExplicit"}, NEW k \in 0..OffsetLimit-1, NEW n \in Nat,
         NEW x \in TaskPaths \X Nat
  PROVE  LET seg == BaseSegment(type, k, n, x)
         IN  /\ seg \in TaskSegment /\ seg.obj = x /\ seg.value.type = type /\ seg.value.offset = k
             /\ seg.value.span = n
             /\ seg.value.taskwait = 0 /\ seg.value.taskcreate = 0 /\ ~seg.value.taskwaited
<1>1. k % OffsetLimit = k
  BY ModSmall, OffsetLimitAssumption
<1> DEFINE v == [type |-> type, offset |-> k, span |-> n,
                 taskwait |-> 0, phase |-> 0, loopCount |-> 0, taskcreate |-> 0,
                 bit2 |-> FALSE, taskwaited |-> FALSE, taskGroupSync |-> FALSE]
           seg == BaseSegment(type, k, n, x)
<1>2. v \in TaskValue
  BY DEF TaskValue
<1>3. seg = [value |-> v, workShareId |-> 0, single |-> "no",
             taskGroupId |-> 0, taskGroupLevel |-> 0, taskwaitPhase |-> 0, obj |-> x]
  BY <1>1 DEF BaseSegment
<1>4. /\ v.type = type /\ v.offset = k /\ v.span = n /\ v.taskwait = 0 /\ v.taskcreate = 0 /\ ~v.taskwaited
  OBVIOUS
<1> HIDE DEF v
<1>5. seg \in TaskSegment /\ seg.value = v /\ seg.obj = x
  BY <1>2, <1>3 DEF TaskSegment
<1> QED
  BY <1>4, <1>5

\* Member k of the team that the initial task forks in stretch c
LEMMA NewMember ==
  ASSUME NEW c \in Nat, NEW k \in Nat
  PROVE  LET u == Append(InitialTask, <<c, k>>)
         IN  /\ u \in TaskPaths /\ Len(u) = 1 /\ u[1] = <<c, k>> /\ Last(u) = <<c, k>>
             /\ SubSeq(u, 1, 1) = u /\ SubSeq(u, 1, 0) = InitialTask /\ u # InitialTask
             /\ u[1][1] = c /\ u[1][2] = k
<1> DEFINE S == Nat \X Int
           u == Append(InitialTask, <<c, k>>)
<1>1. InitialTask \in Seq(S) /\ Len(InitialTask) = 0 /\ <<c, k>> \in S
  BY DEF InitialTask
<1>2. ASSUME NEW e \in S
      PROVE  /\ Append(InitialTask, e) \in Seq(S) /\ Len(Append(InitialTask, e)) = 1
             /\ Append(InitialTask, e)[1] = e /\ Last(Append(InitialTask, e)) = e
             /\ Append(InitialTask, e) # <<>>
  <2> HIDE DEF S
  <2>1. /\ Append(InitialTask, e) \in Seq(S) /\ Len(Append(InitialTask, e)) = Len(InitialTask) + 1
        /\ Append(InitialTask, e)[Len(InitialTask) + 1] = e /\ Last(Append(InitialTask, e)) = e
        /\ Append(InitialTask, e) # <<>>
    BY <1>1, Extended, ZenonT(40)
  <2> QED
    BY <1>1, <2>1
<1>3. u \in TaskPaths /\ Len(u) = 1 /\ u[1] = <<c, k>> /\ Last(u) = <<c, k>> /\ u # InitialTask
  BY <1>1, <1>2 DEF TaskPaths, InitialTask
<1> HIDE DEF u
<1>4. SubSeq(u, 1, 1) = u /\ SubSeq(u, 1, 0) = InitialTask
  <2>1. 0 \in 0..Len(u) /\ 1 \in 0..Len(u)
    BY <1>3
  <2> QED
    BY <1>3, <2>1, PathTo
<1>5. u[1][1] = c /\ u[1][2] = k
  BY <1>3
<1> QED
  BY <1>3, <1>4, <1>5 DEF u

\* A path with a step more
LEMMA PathAdded ==
  ASSUME NEW p \in TaskPaths, NEW e \in Nat \X Int
  PROVE  /\ Append(p, e) \in TaskPaths /\ Len(Append(p, e)) = Len(p) + 1
         /\ Append(p, e)[Len(Append(p, e))] = e /\ Append(p, e) # <<>>
         /\ \A i \in 1..Len(p) : Append(p, e)[i] = p[i]
<1> DEFINE S == Nat \X Int
           q == Append(p, e)
<1>1. p \in Seq(S) /\ e \in S
  BY DEF TaskPaths
<1> HIDE DEF S
<1>2. /\ q \in Seq(S) /\ Len(q) = Len(p) + 1 /\ q[Len(p) + 1] = e /\ q # <<>>
      /\ \A i \in 1..Len(p) : q[i] = p[i]
  BY <1>1, Extended
<1> HIDE DEF q
<1>3. q \in TaskPaths
  BY <1>2 DEF S, TaskPaths
<1> QED
  BY <1>2, <1>3 DEF q

\* A label with a segment more
LEMMA SegmentAdded ==
  ASSUME NEW m \in Seq(TaskSegment), NEW e \in TaskSegment
  PROVE  /\ Append(m, e) \in Seq(TaskSegment) /\ Len(Append(m, e)) = Len(m) + 1
         /\ \A i \in 1..Len(m) : Append(m, e)[i] = m[i]
         /\ Append(m, e)[Len(m) + 1] = e
  BY Extended

\* The first label of a member of a team
LEMMA TeamLabel ==
  ASSUME NEW l \in Seq(TaskSegment), Len(l) = 1, FirstSegment(l[1]),
         NEW u \in TaskPaths, Len(u) = 1, NEW n \in 1..OffsetLimit, u[1][2] \in 0..n-1
  PROVE  LET b == genImpTaskLabel(l, u[1][2], n, <<u, 0>>)
         IN  /\ TaskLabel(u, b) /\ b[1] = l[1] /\ b[2].obj = <<u, 0>>
             /\ Span(b, 2) = n /\ ~Waited(b, 2) /\ Waits(b, 2) = 0
<1> DEFINE k == u[1][2]
           seg == BaseSegment("eImplicit", k, n, <<u, 0>>)
           b == genImpTaskLabel(l, k, n, <<u, 0>>)
<1>1. k \in 0..OffsetLimit-1 /\ k \in 0..n-1 /\ n \in Nat /\ k < n
  BY OffsetLimitAssumption
<1>2. <<u, 0>> \in TaskPaths \X Nat
  OBVIOUS
<1>3. b = Append(l, seg)
  BY DEF genImpTaskLabel
<1> HIDE DEF k
<1>4. /\ seg \in TaskSegment /\ seg.obj = <<u, 0>> /\ seg.value.type = "eImplicit" /\ seg.value.offset = k
      /\ seg.value.span = n /\ seg.value.taskwait = 0 /\ seg.value.taskcreate = 0 /\ ~seg.value.taskwaited
  BY <1>1, <1>2, NewSegment
<1> HIDE DEF seg, b
<1>5. b \in Seq(TaskSegment) /\ Len(b) = 2 /\ b[1] = l[1] /\ b[2] = seg
  <2>1. /\ b \in Seq(TaskSegment) /\ Len(b) = Len(l) + 1
        /\ \A i \in 1..Len(l) : b[i] = l[i]
        /\ b[Len(l) + 1] = seg
    <3>1. seg \in TaskSegment
      BY <1>4
    <3>2. /\ Append(l, seg) \in Seq(TaskSegment) /\ Len(Append(l, seg)) = Len(l) + 1
          /\ \A i \in 1..Len(l) : Append(l, seg)[i] = l[i]
          /\ Append(l, seg)[Len(l) + 1] = seg
      BY <3>1, SegmentAdded
    <3> QED
      BY <1>3, <3>2
  <2> QED
    BY <2>1
<1>6. SubSeq(u, 1, 1) = u
  <2>1. 1 \in 0..Len(u)
    OBVIOUS
  <2> QED
    BY <2>1, PathTo
<1>7. TaskLabel(u, b)
  <2>1. \A i \in 3..Len(b) : FALSE
    BY <1>5
  <2>2. \A i \in 2..Len(b) : i = 2
    BY <1>5
  <2>3. seg.obj[1] = SubSeq(u, 1, 2 - 1)
    BY <1>4, <1>6
  <2> QED
    BY <1>1, <1>4, <1>5, <2>1, <2>2, <2>3 DEF TaskLabel, Offset, Span, Type, k
<1> QED
  BY <1>4, <1>5, <1>7 DEF b, k, Span, Waited, Waits

-----------------------------------------------------------------------------
(* A region begins                                                          *)

\* The initial task forks the team N of the given size.
Starts(size, N, M) ==
  /\ app' = app /\ edges' = edges /\ size \in 1..OffsetLimit
  /\ status[InitialTask] = "running" /\ clock[InitialTask] < M /\ 2 <= Len(MaxSteps)
  /\ \A d \in {DOMAIN status', DOMAIN clock', DOMAIN groups', DOMAIN past', DOMAIN children'} : d = Tasks'
  /\ Tasks' = Tasks \cup N /\ N \cap Tasks = {}
  /\ status'[InitialTask] = "forked"
  /\ \A v \in Tasks : /\ label'[v] = label[v] /\ clock'[v] = clock[v] /\ past'[v] = past[v]
                      /\ groups'[v] = groups[v] /\ children'[v] = children[v]
                      /\ v # InitialTask => status'[v] = status[v]
  /\ \A u \in N :
       /\ u \in TaskPaths /\ Len(u) = 1 /\ u[1][1] = clock[InitialTask] /\ u[1][2] \in 0..size-1
       /\ SubSeq(u, 1, 1) = u /\ SubSeq(u, 1, 0) = InitialTask /\ u # InitialTask
       /\ status'[u] = "running" /\ clock'[u] = 0 /\ groups'[u] = <<>> /\ children'[u] = {}
       /\ past'[u] = Upto(InitialTask)
       /\ TaskLabel(u, label'[u]) /\ label'[u][1] = label[InitialTask][1] /\ label'[u][2].obj = <<u, 0>>
       /\ Span(label'[u], 2) = size /\ ~Waited(label'[u], 2) /\ Waits(label'[u], 2) = 0
       /\ recorded'[<<u, 0>>] = label'[u]
  /\ DOMAIN recorded' = DOMAIN recorded \cup {<<u, 0>> : u \in N}
  /\ \A s \in DOMAIN recorded : recorded'[s] = recorded[s]

\* ParallelBegin does that.
LEMMA StartsIfParallelBegin ==
  ASSUME NEW M \in Nat, TaskProgram(M), TaskInv(M), NEW t \in Tasks, NEW size \in TeamSizes, ParallelBegin(t, size)
  PROVE  \E N : Starts(size, N, M)
<1>1. TaskTyped /\ TaskTree
  BY DEF TaskInv
<1>2. t = InitialTask
  BY DEF ParallelBegin, TaskProgram
<1> DEFINE c == clock[InitialTask]
           N == {Append(InitialTask, <<c, k>>) : k \in 0..size-1}
           LabelOf(u) == genImpTaskLabel(label[InitialTask], Last(u)[2], size, <<u, 0>>)
           forked == [status EXCEPT ![InitialTask] = "forked"]
           labels == [u \in N |-> LabelOf(u)]
           running == [u \in N |-> "running"]
           zeros == [u \in N |-> 0]
           upto == [u \in N |-> Upto(InitialTask)]
           none == [u \in N |-> <<>>]
           empty == [u \in N |-> {}]
           records == [s \in {<<u, 0>> : u \in N} |-> LabelOf(s[1])]
<1>3. /\ status[InitialTask] = "running" /\ app' = app /\ edges' = edges
      /\ CanStep(InitialTask) /\ Len(InitialTask) + 1 < Len(MaxSteps)
  BY <1>2 DEF ParallelBegin, CanHaveTasks, CanStep, Running
<1>4. /\ label' = Extend(label, labels)
      /\ status' = Extend(forked, running)
      /\ clock' = Extend(clock, zeros)
      /\ past' = Extend(past, upto)
      /\ recorded' = Extend(recorded, records)
      /\ groups' = Extend(groups, none)
      /\ children' = Extend(children, empty)
  BY <1>2 DEF ParallelBegin, Birth
<1> HIDE DEF forked
<1>5. /\ DOMAIN labels = N /\ DOMAIN running = N /\ DOMAIN zeros = N /\ DOMAIN upto = N /\ DOMAIN none = N
      /\ DOMAIN empty = N /\ DOMAIN records = {<<u, 0>> : u \in N}
  OBVIOUS
<1>6. \A u \in N : /\ labels[u] = LabelOf(u) /\ running[u] = "running" /\ zeros[u] = 0
                   /\ upto[u] = Upto(InitialTask)
                   /\ none[u] = <<>> /\ empty[u] = {} /\ records[<<u, 0>>] = LabelOf(u)
  <2> HIDE DEF N, LabelOf
  <2> QED
    OBVIOUS
<1> HIDE DEF labels, running, zeros, upto, none, empty, records
<1>7. c \in Nat /\ c < M /\ InitialTask \in Tasks
  BY <1>1, <1>3, StepBound, OfTask DEF TaskTyped
<1>8. size \in 1..OffsetLimit
  BY <1>1, BoundsAssumption DEF TaskTyped, TeamSizes
<1>9. 2 <= Len(MaxSteps)
  <2>1. MaxSteps \in Seq(Nat)
    BY <1>1, BoundsAssumption DEF TaskTyped, MaxSteps
  <2>2. Len(MaxSteps) \in Nat /\ Len(InitialTask) = 0
    BY <2>1 DEF InitialTask
  <2> QED
    BY <1>3, <2>2
<1>10. ASSUME NEW u \in N
       PROVE  /\ u \in TaskPaths /\ Len(u) = 1 /\ u[1][1] = c /\ u[1][2] \in 0..size-1
              /\ SubSeq(u, 1, 1) = u /\ SubSeq(u, 1, 0) = InitialTask /\ u # InitialTask
              /\ TaskLabel(u, LabelOf(u)) /\ LabelOf(u)[1] = label[InitialTask][1] /\ LabelOf(u)[2].obj = <<u, 0>>
              /\ Span(LabelOf(u), 2) = size /\ ~Waited(LabelOf(u), 2) /\ Waits(LabelOf(u), 2) = 0
  <2>1. PICK k \in 0..size-1 : u = Append(InitialTask, <<c, k>>)
    OBVIOUS
  <2>2. k \in Nat
    BY <1>8
  <2> HIDE DEF N, c, LabelOf
  <2>3. /\ u \in TaskPaths /\ Len(u) = 1 /\ u[1] = <<c, k>> /\ Last(u) = <<c, k>>
        /\ SubSeq(u, 1, 1) = u /\ SubSeq(u, 1, 0) = InitialTask /\ u # InitialTask
        /\ u[1][1] = c /\ u[1][2] = k
    BY <1>7, <2>1, <2>2, NewMember
  <2>4. LabelOf(u) = genImpTaskLabel(label[InitialTask], u[1][2], size, <<u, 0>>)
    BY <2>3 DEF LabelOf
  <2>5. label[InitialTask] \in Seq(TaskSegment) /\ Len(label[InitialTask]) = 1
        /\ FirstSegment(label[InitialTask][1])
    BY <1>1 DEF TaskTyped
  <2>6. u[1][2] \in 0..size-1
    BY <2>3
  <2> DEFINE b == genImpTaskLabel(label[InitialTask], u[1][2], size, <<u, 0>>)
  <2> HIDE DEF b
  <2>7. /\ TaskLabel(u, b) /\ b[1] = label[InitialTask][1] /\ b[2].obj = <<u, 0>>
        /\ Span(b, 2) = size /\ ~Waited(b, 2) /\ Waits(b, 2) = 0
    BY <1>8, <2>3, <2>5, <2>6, TeamLabel DEF b
  <2> QED
    BY <2>3, <2>4, <2>6, <2>7 DEF b
<1>11. N \cap Tasks = {}
  <2>1. ASSUME NEW u \in N, u \in Tasks PROVE FALSE
    <3>1. Len(u) = 1 /\ u[1][1] = c /\ SubSeq(u, 1, 0) = InitialTask
      BY <1>10
    <3>2. 0 \in 0..Len(u) - 1
      BY <3>1
    <3>3. u[0 + 1][1] < clock[SubSeq(u, 1, 0)]
      BY <1>1, <1>3, <2>1, <3>2 DEF TaskTree
    <3>4. 0 + 1 = 1
      OBVIOUS
    <3>5. u[1][1] < c
      BY <3>1, <3>3, <3>4
    <3> QED
      BY <1>7, <3>1, <3>5
  <2> QED
    BY <2>1
<1> HIDE DEF N, LabelOf
<1>12. /\ DOMAIN status = Tasks /\ DOMAIN clock = Tasks /\ DOMAIN groups = Tasks
       /\ DOMAIN past = Tasks /\ DOMAIN children = Tasks /\ DOMAIN label = Tasks
  BY <1>1 DEF TaskTyped, Tasks
<1>13. /\ DOMAIN forked = Tasks /\ forked[InitialTask] = "forked"
       /\ \A v \in Tasks : v # InitialTask => forked[v] = status[v]
  BY <1>7, <1>12 DEF forked
<1>14. /\ DOMAIN label' = Tasks \cup N /\ (\A u \in N : label'[u] = labels[u])
       /\ \A v \in Tasks : label'[v] = label[v]
  <2>1. label' = Extend(label, labels) /\ DOMAIN label \cap DOMAIN labels = {}
    BY <1>4, <1>5, <1>11, <1>12
  <2>2. /\ DOMAIN Extend(label, labels) = DOMAIN label \cup DOMAIN labels
        /\ \A x \in DOMAIN labels : Extend(label, labels)[x] = labels[x]
        /\ \A x \in DOMAIN label : Extend(label, labels)[x] = label[x]
    BY <2>1, Joining
  <2> QED
    BY <1>5, <1>12, <2>1, <2>2
<1>15. /\ DOMAIN status' = Tasks \cup N /\ (\A u \in N : status'[u] = running[u])
       /\ \A v \in Tasks : status'[v] = forked[v]
  <2>1. status' = Extend(forked, running) /\ DOMAIN forked \cap DOMAIN running = {}
    BY <1>4, <1>5, <1>11, <1>13
  <2>2. /\ DOMAIN Extend(forked, running) = DOMAIN forked \cup DOMAIN running
        /\ \A x \in DOMAIN running : Extend(forked, running)[x] = running[x]
        /\ \A x \in DOMAIN forked : Extend(forked, running)[x] = forked[x]
    BY <2>1, Joining
  <2> QED
    BY <1>5, <1>13, <2>1, <2>2
<1>16. /\ DOMAIN clock' = Tasks \cup N /\ (\A u \in N : clock'[u] = zeros[u])
       /\ \A v \in Tasks : clock'[v] = clock[v]
  <2>1. clock' = Extend(clock, zeros) /\ DOMAIN clock \cap DOMAIN zeros = {}
    BY <1>4, <1>5, <1>11, <1>12
  <2>2. /\ DOMAIN Extend(clock, zeros) = DOMAIN clock \cup DOMAIN zeros
        /\ \A x \in DOMAIN zeros : Extend(clock, zeros)[x] = zeros[x]
        /\ \A x \in DOMAIN clock : Extend(clock, zeros)[x] = clock[x]
    BY <2>1, Joining
  <2> QED
    BY <1>5, <1>12, <2>1, <2>2
<1>17. /\ DOMAIN past' = Tasks \cup N /\ (\A u \in N : past'[u] = upto[u])
       /\ \A v \in Tasks : past'[v] = past[v]
  <2>1. past' = Extend(past, upto) /\ DOMAIN past \cap DOMAIN upto = {}
    BY <1>4, <1>5, <1>11, <1>12
  <2>2. /\ DOMAIN Extend(past, upto) = DOMAIN past \cup DOMAIN upto
        /\ \A x \in DOMAIN upto : Extend(past, upto)[x] = upto[x]
        /\ \A x \in DOMAIN past : Extend(past, upto)[x] = past[x]
    BY <2>1, Joining
  <2> QED
    BY <1>5, <1>12, <2>1, <2>2
<1>18. /\ DOMAIN groups' = Tasks \cup N /\ (\A u \in N : groups'[u] = none[u])
       /\ \A v \in Tasks : groups'[v] = groups[v]
  <2>1. groups' = Extend(groups, none) /\ DOMAIN groups \cap DOMAIN none = {}
    BY <1>4, <1>5, <1>11, <1>12
  <2>2. /\ DOMAIN Extend(groups, none) = DOMAIN groups \cup DOMAIN none
        /\ \A x \in DOMAIN none : Extend(groups, none)[x] = none[x]
        /\ \A x \in DOMAIN groups : Extend(groups, none)[x] = groups[x]
    BY <2>1, Joining
  <2> QED
    BY <1>5, <1>12, <2>1, <2>2
<1>19. /\ DOMAIN children' = Tasks \cup N /\ (\A u \in N : children'[u] = empty[u])
       /\ \A v \in Tasks : children'[v] = children[v]
  <2>1. children' = Extend(children, empty) /\ DOMAIN children \cap DOMAIN empty = {}
    BY <1>4, <1>5, <1>11, <1>12
  <2>2. /\ DOMAIN Extend(children, empty) = DOMAIN children \cup DOMAIN empty
        /\ \A x \in DOMAIN empty : Extend(children, empty)[x] = empty[x]
        /\ \A x \in DOMAIN children : Extend(children, empty)[x] = children[x]
    BY <2>1, Joining
  <2> QED
    BY <1>5, <1>12, <2>1, <2>2
<1>20. \A u \in N : <<u, 0>> \notin DOMAIN recorded
  <2>1. ASSUME NEW u \in N, <<u, 0>> \in DOMAIN recorded PROVE FALSE
    <3>1. <<u, 0>> \in Stretches
      BY <1>1, <2>1 DEF TaskTyped
    <3>2. u \in Tasks
      BY <3>1, StretchIs DEF Lower
    <3> QED
      BY <1>11, <3>2
  <2> QED
    BY <2>1, ZenonT(40)
<1>21. /\ DOMAIN recorded' = DOMAIN recorded \cup {<<u, 0>> : u \in N}
       /\ (\A u \in N : recorded'[<<u, 0>>] = records[<<u, 0>>])
       /\ \A s \in DOMAIN recorded : recorded'[s] = recorded[s]
  <2>1. DOMAIN recorded \cap DOMAIN records = {}
    BY <1>5, <1>20
  <2>2. /\ DOMAIN Extend(recorded, records) = DOMAIN recorded \cup DOMAIN records
        /\ \A x \in DOMAIN records : Extend(recorded, records)[x] = records[x]
        /\ \A x \in DOMAIN recorded : Extend(recorded, records)[x] = recorded[x]
    BY <2>1, Joining
  <2> QED
    BY <1>4, <1>5, <2>2
<1>22. Tasks' = Tasks \cup N
  BY <1>14 DEF Tasks
<1>23. /\ \A d \in {DOMAIN status', DOMAIN clock', DOMAIN groups', DOMAIN past', DOMAIN children'} : d = Tasks'
  BY <1>15, <1>16, <1>17, <1>18, <1>19, <1>22
<1>24. ASSUME NEW v \in Tasks
       PROVE  /\ label'[v] = label[v] /\ clock'[v] = clock[v] /\ past'[v] = past[v]
              /\ groups'[v] = groups[v] /\ children'[v] = children[v]
              /\ v # InitialTask => status'[v] = status[v]
  BY <1>13, <1>14, <1>15, <1>16, <1>17, <1>18, <1>19
<1>25. ASSUME NEW u \in N
       PROVE  /\ status'[u] = "running" /\ clock'[u] = 0 /\ groups'[u] = <<>> /\ children'[u] = {}
              /\ past'[u] = Upto(InitialTask)
              /\ label'[u] = LabelOf(u) /\ recorded'[<<u, 0>>] = LabelOf(u)
  BY <1>6, <1>14, <1>15, <1>16, <1>17, <1>18, <1>19, <1>21
<1>26. status'[InitialTask] = "forked"
  BY <1>7, <1>13, <1>15
<1>27. ASSUME NEW u \in N
       PROVE  /\ u \in TaskPaths /\ Len(u) = 1 /\ u[1][1] = clock[InitialTask] /\ u[1][2] \in 0..size-1
              /\ SubSeq(u, 1, 1) = u /\ SubSeq(u, 1, 0) = InitialTask /\ u # InitialTask
              /\ status'[u] = "running" /\ clock'[u] = 0 /\ groups'[u] = <<>> /\ children'[u] = {}
              /\ past'[u] = Upto(InitialTask)
              /\ TaskLabel(u, label'[u]) /\ label'[u][1] = label[InitialTask][1] /\ label'[u][2].obj = <<u, 0>>
              /\ Span(label'[u], 2) = size /\ ~Waited(label'[u], 2) /\ Waits(label'[u], 2) = 0
              /\ recorded'[<<u, 0>>] = label'[u]
  BY <1>10, <1>25
<1>28. Starts(size, N, M)
  BY <1>3, <1>7, <1>8, <1>9, <1>11, <1>21, <1>22, <1>23, <1>24, <1>26, <1>27 DEF Starts
<1> QED
  BY <1>28

\* The beginning of a region preserves the invariant.
LEMMA StartsKeeps ==
  ASSUME NEW M \in Nat, TaskInv(M), NEW size, NEW N, Starts(size, N, M)
  PROVE  TaskInv(M)'
<1> DEFINE c == clock[InitialTask]
           New == {<<u, 0>> : u \in N}
<1>1. /\ TaskTyped /\ TaskTree /\ TaskLabels /\ TaskObjects /\ TaskCounts /\ TaskCurrent
      /\ TaskEpochs /\ TaskBounds(M) /\ TaskEnds /\ TaskMarks /\ TaskChain /\ TaskWaited
      /\ TaskLineage /\ TaskPast
  BY DEF TaskInv
<1>2. /\ app' = app /\ edges' = edges /\ size \in 1..OffsetLimit
      /\ status[InitialTask] = "running" /\ clock[InitialTask] < M /\ 2 <= Len(MaxSteps)
      /\ DOMAIN status' = Tasks' /\ DOMAIN clock' = Tasks' /\ DOMAIN groups' = Tasks'
      /\ DOMAIN past' = Tasks' /\ DOMAIN children' = Tasks'
      /\ Tasks' = Tasks \cup N /\ N \cap Tasks = {} /\ status'[InitialTask] = "forked"
      /\ DOMAIN recorded' = DOMAIN recorded \cup New
      /\ \A s \in DOMAIN recorded : recorded'[s] = recorded[s]
  BY DEF Starts
<1>3. ASSUME NEW v \in Tasks
      PROVE  /\ label'[v] = label[v] /\ clock'[v] = clock[v] /\ past'[v] = past[v]
             /\ groups'[v] = groups[v] /\ children'[v] = children[v]
             /\ v # InitialTask => status'[v] = status[v]
  BY <1>3 DEF Starts
<1>40. \A u \in N : Len(u) = 1
  BY DEF Starts
<1>400. \A n : n = 1 => /\ n + 1 = 2 /\ ~(n > 1)
                      /\ (\A i \in 2..n : FALSE)
                      /\ (\A j \in 0..n : j = 0 \/ j = 1)
                      /\ (\A j \in 0..n-1 : j = 0)
  OBVIOUS
<1>41. ASSUME NEW u \in N
       PROVE  /\ u[1][1] = c /\ u[1][2] \in Nat
              /\ SubSeq(u, 1, 1) = u /\ SubSeq(u, 1, 0) = InitialTask /\ u # InitialTask
  <2>1. /\ u[1][1] = c /\ u[1][2] \in 0..size-1
        /\ SubSeq(u, 1, 1) = u /\ SubSeq(u, 1, 0) = InitialTask /\ u # InitialTask
    BY DEF Starts
  <2>2. \A k \in 0..size-1 : k \in Nat
    BY <1>2
  <2> QED
    BY <2>1, <2>2, Zenon
<1>42. \A u \in N : /\ status'[u] = "running" /\ clock'[u] = 0 /\ groups'[u] = <<>> /\ children'[u] = {}
                    /\ past'[u] = Upto(InitialTask) /\ u \in TaskPaths
  BY DEF Starts
<1>43. ASSUME NEW u \in N
       PROVE  /\ TaskLabel(u, label'[u]) /\ label'[u][1] = label[InitialTask][1] /\ label'[u][2].obj = <<u, 0>>
              /\ Span(label'[u], 2) = size /\ ~Waited(label'[u], 2) /\ Waits(label'[u], 2) = 0
              /\ recorded'[<<u, 0>>] = label'[u]
  BY DEF Starts
<1>4. ASSUME NEW u \in N
      PROVE  /\ u \in TaskPaths /\ Len(u) = 1 /\ u[1][1] = c /\ u[1][2] \in Nat
             /\ SubSeq(u, 1, 1) = u /\ SubSeq(u, 1, 0) = InitialTask /\ u # InitialTask
             /\ status'[u] = "running" /\ clock'[u] = 0 /\ groups'[u] = <<>> /\ children'[u] = {}
             /\ past'[u] = Upto(InitialTask)
             /\ TaskLabel(u, label'[u]) /\ label'[u][1] = label[InitialTask][1] /\ label'[u][2].obj = <<u, 0>>
             /\ Span(label'[u], 2) = size /\ ~Waited(label'[u], 2) /\ Waits(label'[u], 2) = 0
             /\ recorded'[<<u, 0>>] = label'[u]
  BY <1>40, <1>41, <1>42, <1>43
<1>5. /\ InitialTask \in Tasks /\ InitialTask \notin Lower /\ InitialTask \notin N /\ c \in Nat
      /\ \A v : v \in Lower <=> v \in Tasks /\ v # InitialTask
  BY <1>1, <1>2, OfTask DEF TaskTyped, Lower
<1>6. \A v : v \in Lower' <=> v \in Lower \/ v \in N
  BY <1>2, <1>4, <1>5 DEF Lower
<1>7. \A v \in Lower : v \notin N
  BY <1>2, <1>5
<1> HIDE DEF c
<1>8. ASSUME NEW s PROVE s \in Stretches' <=> s \in Stretches \/ s \in New
  <2>1. s \in Stretches' <=> s[1] \in Lower' /\ s[2] \in 0..clock'[s[1]] /\ s = <<s[1], s[2]>>
    BY StretchWillBe
  <2>2. s \in Stretches <=> s[1] \in Lower /\ s[2] \in 0..clock[s[1]] /\ s = <<s[1], s[2]>>
    BY StretchIs
  <2>3. CASE s[1] \in Lower
    <3>1. clock'[s[1]] = clock[s[1]] /\ s[1] \notin N
      BY <1>3, <1>5, <1>7, <2>3
    <3>2. s \notin New
      BY <3>1
    <3> QED
      BY <1>6, <2>1, <2>2, <2>3, <3>1, <3>2
  <2>4. CASE s[1] \in N
    <3>0. \A n : n \in 0..0 <=> n = 0
      OBVIOUS
    <3>1. clock'[s[1]] = 0 /\ s[1] \notin Lower /\ \A n : n \in 0..0 <=> n = 0
      BY <1>42, <1>7, <2>4, <3>0, Zenon
    <3>2. s \in New <=> s = <<s[1], 0>>
      BY <2>4
    <3> QED
      BY <1>6, <2>1, <2>2, <2>4, <3>1, <3>2
  <2>5. CASE s[1] \notin Lower /\ s[1] \notin N
    <3>1. s \notin New
      BY <2>5
    <3> QED
      BY <1>6, <2>1, <2>2, <2>5, <3>1
  <2> QED
    BY <2>3, <2>4, <2>5
<1>9. ASSUME NEW s \in Stretches
      PROVE  /\ recorded'[s] = recorded[s] /\ s[1] \in Lower /\ s[1] \in Tasks /\ s[1] \notin N
             /\ s[1][1][1] < c /\ s[1][1][1] # c
             /\ Len(s[1]) \in Nat \ {0} /\ s[1] \in TaskPaths /\ TaskLabel(s[1], recorded[s])
             /\ clock'[s[1]] = clock[s[1]]
  <2>1. /\ s[1] \in Lower /\ s[1] \in Tasks /\ Len(s[1]) \in Nat \ {0} /\ s[1] \in TaskPaths
        /\ s \in DOMAIN recorded /\ TaskLabel(s[1], recorded[s])
    BY <1>1, OfStretch, RecordIs
  <2>2. s[1][1][1] < c /\ s[1][1][1] \in Nat
    <3>1. 0 \in 0..Len(s[1]) - 1 /\ 0 \in 0..Len(s[1]) /\ 0 + 1 = 1 /\ 1 \in 1..Len(s[1])
      BY <2>1
    <3>2. SubSeq(s[1], 1, 0) = InitialTask
      BY <2>1, <3>1, PathTo
    <3>3. s[1][0 + 1][1] < clock[SubSeq(s[1], 1, 0)]
      BY <1>1, <1>2, <2>1, <3>1 DEF TaskTree
    <3>4. s[1][1][1] \in Nat
      BY <1>1, <2>1, <3>1, OfTask
    <3> QED
      BY <3>1, <3>2, <3>3, <3>4 DEF c
  <2>3. s[1][1][1] # c
    BY <1>5, <2>2
  <2> QED
    BY <1>2, <1>3, <1>7, <2>1, <2>2, <2>3
<1>10. ASSUME NEW s \in New
       PROVE  /\ s[1] \in N /\ s[2] = 0 /\ s = <<s[1], 0>> /\ recorded'[s] = label'[s[1]]
  BY <1>4
<1>11. ASSUME NEW v \in Lower
       PROVE  /\ ~Live(v) /\ ~Live(v)' /\ Now(v)' = Now(v) /\ Stretch(v)' = Stretch(v) /\ Epoch(v)' = Epoch(v)
              /\ clock'[v] = clock[v] /\ past'[v] = past[v] /\ label'[v] = label[v] /\ status'[v] = status[v]
              /\ v \in Tasks /\ v \notin N /\ v # InitialTask
              /\ \A n \in 0..clock[v] : At(v, n)' = At(v, n)
  <2>1. /\ v \in Tasks /\ v # InitialTask /\ v \notin N
        /\ clock'[v] = clock[v] /\ past'[v] = past[v] /\ label'[v] = label[v] /\ status'[v] = status[v]
    BY <1>3, <1>5, <1>7
  <2>2. ~Live(v)
    BY <1>1, <1>2 DEF TaskEpochs
  <2>3. ~Live(v)'
    BY <2>1, <2>2 DEF Live
  <2>4. \A n \in 0..clock[v] : At(v, n)' = At(v, n)
    <3>1. ASSUME NEW n \in 0..clock[v] PROVE recorded'[<<v, n>>] = recorded[<<v, n>>]
      <4>1. <<v, n>> \in Stretches
        BY StretchOf
      <4> QED
        BY <1>9, <4>1
    <3> QED
      BY <3>1 DEF At
  <2>5. Now(v)' = Now(v) /\ Stretch(v)' = Stretch(v)
    <3>1. Stretch(v) \in Stretches
      BY <1>1, NowIs
    <3>2. recorded'[Stretch(v)] = recorded[Stretch(v)]
      BY <1>9, <3>1
    <3> QED
      BY <2>1, <3>2 DEF Now, Stretch
  <2>6. Epoch(v)' = Epoch(v)
    BY <2>1, <2>5 DEF Epoch, Leaving
  <2> QED
    BY <2>1, <2>2, <2>3, <2>4, <2>5, <2>6
<1>12. ASSUME NEW u \in N
       PROVE  /\ Live(u)' /\ Now(u)' = label'[u] /\ Stretch(u)' = <<u, 0>>
              /\ Leaving(u)' = 0 /\ Epoch(u)' = Offset(label[InitialTask], 1)
              /\ Offset(label'[u], 1) = Offset(label[InitialTask], 1)
              /\ Offset(label[InitialTask], 1) \in Nat /\ Own(u) = 2
  <2>1. Live(u)' /\ Leaving(u)' = 0
    BY <1>2, <1>4 DEF Live, Leaving
  <2>2. Stretch(u)' = <<u, 0>> /\ Now(u)' = label'[u]
    BY <1>4 DEF Stretch, Now
  <2>3. Offset(label'[u], 1) = Offset(label[InitialTask], 1)
    BY <1>4 DEF Offset
  <2>4. Offset(label[InitialTask], 1) \in Nat
    BY <1>1, OfSegment DEF TaskTyped, FirstSegment, Offset
  <2>5. Epoch(u)' = Offset(label'[u], 1) + 0
    BY <2>1, <2>2 DEF Epoch
  <2>6. Own(u) = 2
    BY <1>40, <1>400, Zenon DEF Own
  <2> QED
    BY <2>1, <2>2, <2>3, <2>4, <2>5, <2>6
<1> HIDE DEF New
<1>13. TaskTyped'
  <2>1. ASSUME NEW v \in Tasks'
        PROVE  /\ TaskPath(v) /\ Len(v) + 1 <= Len(MaxSteps')
               /\ status'[v] \in {"running", "forked", "atBarrier", "atEnd", "released", "ended", "over"}
               /\ Len(v) > 1 => status'[v] \in {"running", "over"}
               /\ clock'[v] \in Nat /\ groups'[v] = <<>>
               /\ \A s \in past'[v] : s \in {InitialTask} \X Nat \/ s \in Stretches'
               /\ \A u \in children'[v] : u \in Tasks' /\ Len(u) > 1 /\ Front(u) = v
    <3>0. MaxSteps' = MaxSteps
      BY <1>2 DEF MaxSteps
    <3>1. ASSUME NEW w \in Tasks
          PROVE  /\ TaskPath(w) /\ Len(w) + 1 <= Len(MaxSteps)
                 /\ status[w] \in {"running", "forked", "atBarrier", "atEnd", "released", "ended", "over"}
                 /\ Len(w) > 1 => status[w] \in {"running", "over"}
                 /\ clock[w] \in Nat /\ groups[w] = <<>>
                 /\ \A s \in past[w] : s \in {InitialTask} \X Nat \/ s \in Stretches
                 /\ \A u \in children[w] : u \in Tasks /\ Len(u) > 1 /\ Front(u) = w
      BY <1>1, <3>1 DEF TaskTyped
    <3>2. CASE v \in Tasks
      <4>1. /\ status'[v] \in {"running", "forked", "atBarrier", "atEnd", "released", "ended", "over"}
            /\ Len(v) > 1 => status'[v] \in {"running", "over"}
        <5>1. CASE v = InitialTask
          <6>1. Len(v) = 0
            BY <5>1 DEF InitialTask
          <6> QED
            BY <1>2, <5>1, <6>1
        <5>2. CASE v # InitialTask
          BY <1>3, <3>1, <3>2, <5>2
        <5> QED
          BY <5>1, <5>2
      <4>2. \A s \in past'[v] : s \in {InitialTask} \X Nat \/ s \in Stretches'
        BY <1>3, <1>8, <3>1, <3>2
      <4>3. \A u \in children'[v] : u \in Tasks' /\ Len(u) > 1 /\ Front(u) = v
        BY <1>2, <1>3, <3>1, <3>2
      <4> QED
        BY <1>3, <3>0, <3>1, <3>2, <4>1, <4>2, <4>3
    <3>3. CASE v \in N
      <4>1. TaskPath(v)
        <5>1. \A i \in 2..Len(v) : FALSE
          BY <1>40, <1>400, <3>3, Zenon
        <5>2. v[1][2] \in Nat
          BY <1>2, <1>4, <3>3
        <5> QED
          BY <1>4, <3>3, <5>1, <5>2 DEF TaskPath
      <4>2. Len(v) + 1 <= Len(MaxSteps') /\ ~(Len(v) > 1)
        <5>1. Len(v) + 1 = 2 /\ ~(Len(v) > 1)
          BY <1>40, <1>400, <3>3, Zenon
        <5> QED
          BY <1>2, <1>4, <3>0, <3>3, <5>1
      <4>3. \A s \in past'[v] : s \in {InitialTask} \X Nat \/ s \in Stretches'
        <5>1. Stretch(InitialTask) \in {InitialTask} \X Nat
          BY <1>5 DEF Stretch, c
        <5> QED
          <6>1. \A s \in past[InitialTask] : s \in {InitialTask} \X Nat \/ s \in Stretches'
            BY <1>5, <1>8, <3>1
          <6> QED
            BY <1>42, <3>3, <5>1, <6>1 DEF Upto
      <4>4. clock'[v] \in Nat /\ groups'[v] = <<>> /\ children'[v] = {} /\ status'[v] = "running"
        BY <1>42, <3>3
      <4> QED
        BY <4>1, <4>2, <4>3, <4>4
    <3> QED
      BY <1>2, <3>2, <3>3
  <2>2. /\ app' \in Programs /\ edges' = {}
        /\ label'[InitialTask] \in Seq(TaskSegment) /\ Len(label'[InitialTask]) = 1
        /\ FirstSegment(label'[InitialTask][1])
    BY <1>1, <1>2, <1>3, <1>5 DEF TaskTyped
  <2>3. DOMAIN recorded' = Stretches'
    BY <1>1, <1>2, <1>8 DEF TaskTyped
  <2> QED
    BY <1>2, <1>5, <2>1, <2>2, <2>3 DEF TaskTyped
<1>14. TaskTree'
  <2>1. ASSUME NEW v \in Tasks'
        PROVE  /\ \A j \in 0..Len(v) : SubSeq(v, 1, j) \in Tasks'
               /\ \A j \in 0..Len(v) - 1 :
                   /\ v[j + 1][1] <= clock'[SubSeq(v, 1, j)]
                   /\ j > 0 \/ status'[InitialTask] = "running" => v[j + 1][1] < clock'[SubSeq(v, 1, j)]
    <3>1. CASE v \in Tasks
      <4>1. ASSUME NEW j \in 0..Len(v) PROVE SubSeq(v, 1, j) \in Tasks
        BY <1>1, <3>1 DEF TaskTree
      <4>2. ASSUME NEW j \in 0..Len(v) - 1
            PROVE  /\ v[j + 1][1] <= clock'[SubSeq(v, 1, j)]
                   /\ j > 0 \/ status'[InitialTask] = "running" => v[j + 1][1] < clock'[SubSeq(v, 1, j)]
        <5>1. /\ v[j + 1][1] <= clock[SubSeq(v, 1, j)]
              /\ j > 0 => v[j + 1][1] < clock[SubSeq(v, 1, j)]
          BY <1>1, <3>1 DEF TaskTree
        <5>2. Len(v) \in Nat
          BY <1>1, <3>1, OfTask
        <5>3. j \in 0..Len(v)
          BY <5>2
        <5>4. clock'[SubSeq(v, 1, j)] = clock[SubSeq(v, 1, j)]
          BY <1>3, <4>1, <5>3
        <5>5. status'[InitialTask] # "running"
          BY <1>2
        <5> QED
          BY <5>1, <5>4, <5>5
      <4> QED
        BY <1>2, <4>1, <4>2
    <3>2. CASE v \in N
      <4>1. \A j \in 0..Len(v) : SubSeq(v, 1, j) \in Tasks'
        <5>1. \A j \in 0..Len(v) : j = 0 \/ j = 1
          BY <1>40, <1>400, <3>2, Zenon
        <5>2. SubSeq(v, 1, 1) = v /\ SubSeq(v, 1, 0) = InitialTask
          BY <1>41, <3>2
        <5>3. v \in Tasks' /\ InitialTask \in Tasks'
          BY <1>2, <1>5, <3>2
        <5> QED
          BY <5>1, <5>2, <5>3, Zenon
      <4>2. ASSUME NEW j \in 0..Len(v) - 1
            PROVE  /\ v[j + 1][1] <= clock'[SubSeq(v, 1, j)]
                   /\ j > 0 \/ status'[InitialTask] = "running" => v[j + 1][1] < clock'[SubSeq(v, 1, j)]
        <5>0. 0 + 1 = 1 /\ ~(0 > 0)
          OBVIOUS
        <5>1. j = 0 /\ 0 + 1 = 1 /\ ~(0 > 0)
          BY <1>40, <1>400, <3>2, <5>0, Zenon
        <5>2. v[j + 1][1] = c /\ clock'[SubSeq(v, 1, j)] = c /\ ~(j > 0)
          <6>1. j = 0 /\ j + 1 = 1 /\ ~(j > 0)
            BY <5>1
          <6>2. v[1][1] = c /\ SubSeq(v, 1, 0) = InitialTask
            BY <1>4, <3>2
          <6>3. clock'[InitialTask] = c
            BY <1>3, <1>5 DEF c
          <6> QED
            BY <6>1, <6>2, <6>3
        <5>3. status'[InitialTask] # "running"
          BY <1>2
        <5> QED
          <6>1. c <= c
            BY <1>5 DEF c
          <6> QED
            BY <5>2, <5>3, <6>1, ZenonT(40)
      <4> QED
        BY <4>1, <4>2
    <3> QED
      BY <1>2, <3>1, <3>2
  <2> QED
    BY <2>1 DEF TaskTree
<1>15. TaskLabels'
  <2>1. ASSUME NEW s \in Stretches'
        PROVE  /\ TaskLabel(s[1], recorded'[s])
               /\ \A i \in 2..Len(s[1]) : recorded'[s][i] = At(SubSeq(s[1], 1, i - 1), s[1][i][1])'[i]
    <3>1. CASE s \in Stretches
      <4>1. TaskLabel(s[1], recorded'[s])
        BY <1>9, <3>1
      <4>2. ASSUME NEW i \in 2..Len(s[1]) PROVE recorded'[s][i] = At(SubSeq(s[1], 1, i - 1), s[1][i][1])'[i]
        <5>1. recorded[s][i] = At(SubSeq(s[1], 1, i - 1), s[1][i][1])[i]
          BY <1>1, <3>1 DEF TaskLabels
        <5>2. i - 1 \in 1..Len(s[1]) /\ i - 1 < Len(s[1]) /\ i - 1 + 1 = i
          BY <1>9, <3>1
        <5>3. Way(s, i - 1) \in Stretches
          BY <1>1, <3>1, <5>2, OfWay
        <5>4. Way(s, i - 1) = <<SubSeq(s[1], 1, i - 1), s[1][i][1]>>
          BY <5>2 DEF Way, In
        <5>5. At(SubSeq(s[1], 1, i - 1), s[1][i][1])' = At(SubSeq(s[1], 1, i - 1), s[1][i][1])
          BY <1>9, <5>3, <5>4 DEF At
        <5> QED
          BY <1>9, <3>1, <5>1, <5>5
      <4> QED
        BY <4>1, <4>2
    <3>2. CASE s \in New
      <4>1. s[1] \in N /\ recorded'[s] = label'[s[1]]
        BY <1>10, <3>2
      <4>2. \A i \in 2..Len(s[1]) : FALSE
        BY <1>40, <1>400, <4>1, Zenon
      <4> QED
        BY <1>4, <4>1, <4>2
    <3> QED
      BY <1>8, <3>1, <3>2
  <2>2. ASSUME NEW s \in Stretches', NEW r \in Stretches', s[1][1][1] = r[1][1][1]
        PROVE  Span(recorded'[s], 2) = Span(recorded'[r], 2)
    <3>1. CASE s \in Stretches
      <4>1. r \in Stretches
        BY <1>4, <1>8, <1>9, <1>10, <2>2, <3>1
      <4> QED
        BY <1>1, <1>9, <2>2, <3>1, <4>1 DEF TaskLabels
    <3>2. CASE s \in New
      <4>1. r \in New
        BY <1>4, <1>8, <1>9, <1>10, <2>2, <3>2
      <4> QED
        BY <1>4, <1>10, <3>2, <4>1
    <3> QED
      BY <1>8, <3>1, <3>2
  <2>3. ASSUME "taskwait" \notin Constructs', NEW s \in Stretches' PROVE Waits(recorded'[s], Own(s[1])) = 0
    <3>1. CASE s \in Stretches
      <4>1. "taskwait" \notin Constructs
        BY <1>2, <2>3 DEF Constructs
      <4> QED
        BY <1>1, <1>9, <3>1, <4>1 DEF TaskLabels
    <3>2. CASE s \in New
      BY <1>4, <1>10, <1>12, <3>2
    <3> QED
      BY <1>8, <3>1, <3>2
  <2> QED
    BY <2>1, <2>2, <2>3 DEF TaskLabels
<1>16. TaskObjects'
  <2> DEFINE O == {recorded[r][1].obj : r \in Stretches} \cup {label[InitialTask][1].obj}
  <2>1. /\ \A s \in Stretches : recorded[s][Own(s[1])].obj[2] <= clock[s[1]]
        /\ \A o \in O :
             /\ o[1] \in Tasks /\ (o[2] <= clock[o[1]] \/ status[o[1]] = "over")
             /\ \A s \in Stretches : recorded[s][Own(s[1])].obj # o
    BY <1>1 DEF TaskObjects
  <2>2. {recorded'[r][1].obj : r \in Stretches'} \cup {label'[InitialTask][1].obj} \subseteq O
    <3>1. ASSUME NEW r \in Stretches' PROVE recorded'[r][1].obj \in O
      <4>1. CASE r \in Stretches
        BY <1>9, <4>1
      <4>2. CASE r \in New
        BY <1>4, <1>10, <4>2
      <4> QED
        BY <1>8, <4>1, <4>2
    <3>2. label'[InitialTask][1].obj \in O
      BY <1>3, <1>5
    <3> QED
      BY <3>1, <3>2
  <2>3. ASSUME NEW s \in Stretches' PROVE recorded'[s][Own(s[1])].obj[2] <= clock'[s[1]]
    <3>1. CASE s \in Stretches
      BY <1>9, <2>1, <3>1
    <3>2. CASE s \in New
      <4>1. recorded'[s][Own(s[1])].obj = <<s[1], 0>> /\ clock'[s[1]] = 0
        BY <1>4, <1>10, <1>12, <3>2
      <4> QED
        BY <4>1
    <3> QED
      BY <1>8, <3>1, <3>2
  <2>4. ASSUME NEW o \in O
        PROVE  /\ o[1] \in Tasks' /\ (o[2] <= clock'[o[1]] \/ status'[o[1]] = "over")
               /\ \A s \in Stretches' : recorded'[s][Own(s[1])].obj # o
    <3>1. /\ o[1] \in Tasks /\ (o[2] <= clock[o[1]] \/ status[o[1]] = "over")
          /\ \A s \in Stretches : recorded[s][Own(s[1])].obj # o
      BY <2>1
    <3>2. o[2] <= clock'[o[1]] \/ status'[o[1]] = "over"
      <4>1. status[InitialTask] # "over"
        BY <1>2
      <4> QED
        BY <1>3, <3>1, <4>1
    <3>3. ASSUME NEW s \in Stretches', recorded'[s][Own(s[1])].obj = o PROVE FALSE
      <4>1. CASE s \in Stretches
        BY <1>9, <3>1, <3>3, <4>1
      <4>2. CASE s \in New
        <5>1. recorded'[s][Own(s[1])].obj = <<s[1], 0>> /\ s[1] \in N
          BY <1>4, <1>10, <1>12, <4>2
        <5>2. o[1] = s[1]
          BY <3>3, <5>1
        <5> QED
          BY <1>2, <3>1, <5>1, <5>2
      <4> QED
        BY <1>8, <4>1, <4>2
    <3> QED
      BY <1>2, <3>1, <3>2, <3>3
  <2> HIDE DEF O
  <2> QED
    BY <2>2, <2>3, <2>4 DEF TaskObjects
<1>17. TaskCounts'
  <2>1. ASSUME NEW p \in Lower', NEW n \in 0..clock'[p], NEW m \in 0..clock'[p], n < m
        PROVE  /\ Waits(At(p, n)', Own(p)) <= Waits(At(p, m)', Own(p))
               /\ Creates(At(p, n)', Own(p)) <= Creates(At(p, m)', Own(p))
               /\ Append(p, <<n, NoIndex>>) \in Tasks' => Creates(At(p, n)', Own(p)) < Creates(At(p, m)', Own(p))
    <3>1. CASE p \in Lower
      <4>1. n \in 0..clock[p] /\ m \in 0..clock[p] /\ At(p, n)' = At(p, n) /\ At(p, m)' = At(p, m)
        BY <1>11, <3>1
      <4>2. Append(p, <<n, NoIndex>>) \notin N
        <5>1. p \in Seq(Nat \X Int) /\ Len(p) \in Nat \ {0}
          BY <1>1, <3>1, OfTask, NowIs, <1>5 DEF TaskPaths
        <5>2. <<n, NoIndex>> \in Nat \X Int
          <6>1. clock[p] \in Nat
            BY <1>1, <1>5, <3>1, OfTask
          <6> QED
            BY <4>1, <6>1 DEF NoIndex
        <5>3. Len(Append(p, <<n, NoIndex>>)) = Len(p) + 1
          BY <5>1, <5>2, AppendProperties
        <5>4. Len(Append(p, <<n, NoIndex>>)) # 1
          BY <5>1, <5>3
        <5> QED
          BY <1>4, <5>4
      <4>3. Append(p, <<n, NoIndex>>) \in Tasks' => Append(p, <<n, NoIndex>>) \in Tasks
        BY <1>2, <4>2
      <4> QED
        BY <1>1, <2>1, <3>1, <4>1, <4>3 DEF TaskCounts
    <3>2. CASE p \in N
      <4>1. clock'[p] = 0
        BY <1>4, <3>2
      <4>2. n = 0 /\ m = 0
        BY <4>1
      <4> QED
        BY <2>1, <4>2
    <3> QED
      BY <1>6, <3>1, <3>2
  <2> QED
    BY <2>1 DEF TaskCounts
<1>18. TaskCurrent'
  <2>1. ASSUME NEW v \in Lower'
        PROVE  /\ Live(v)' => label'[v] = Now(v)'
               /\ ~Live(v)' /\ Len(v) > 1 => /\ label'[v] \in Seq(TaskSegment) /\ Len(label'[v]) = Len(v)
                                             /\ \A i \in 1..Len(v) : label'[v][i] = Now(v)'[i]
    <3>1. CASE v \in Lower
      BY <1>1, <1>11, <3>1 DEF TaskCurrent
    <3>2. CASE v \in N
      BY <1>12, <3>2
    <3> QED
      BY <1>6, <3>1, <3>2
  <2> QED
    BY <2>1 DEF TaskCurrent
<1>19. TaskEpochs'
  <2>1. ASSUME NEW v \in Lower', Live(v)' PROVE v \in N
    BY <1>6, <1>11, <2>1
  <2>2. \A v \in Lower' : Live(v)' => status'[InitialTask] = "forked" /\ v[1][1] = clock'[InitialTask]
    BY <1>2, <1>3, <1>4, <1>5, <2>1 DEF c
  <2>3. \A v, u \in Lower' : Live(v)' /\ Live(u)' => Epoch(v)' = Epoch(u)'
    BY <1>12, <2>1
  <2>4. ASSUME NEW v \in Lower', NEW s \in Stretches', Live(v)'
        PROVE  /\ Offset(recorded'[s], 1) <= Epoch(v)'
               /\ Offset(recorded'[s], 1) = Epoch(v)' => s[1][1][1] = v[1][1]
               /\ Offset(recorded'[s], 1) < Epoch(v)' => s \in past'[v]
    <3>1. v \in N /\ Epoch(v)' = Offset(label[InitialTask], 1) /\ Offset(label[InitialTask], 1) \in Nat
      BY <1>12, <2>1, <2>4
    <3>2. CASE s \in Stretches
      <4>1. Offset(recorded[s], 1) < Offset(label[InitialTask], 1) /\ s \in past[InitialTask]
        BY <1>1, <1>2, <3>2 DEF TaskEpochs
      <4>2. Offset(recorded[s], 1) \in Nat
        BY <1>9, <3>2, OfLabel
      <4>3. s \in past'[v]
        BY <1>4, <3>1, <4>1 DEF Upto
      <4>4. recorded'[s] = recorded[s]
        BY <1>9, <3>2
      <4> QED
        BY <3>1, <4>1, <4>2, <4>3, <4>4
    <3>3. CASE s \in New
      <4>1. s[1] \in N /\ recorded'[s] = label'[s[1]]
        BY <1>10, <3>3
      <4>2. Offset(recorded'[s], 1) = Epoch(v)' /\ s[1][1][1] = v[1][1]
        BY <1>4, <1>12, <3>1, <4>1
      <4> QED
        BY <3>1, <4>2
    <3> QED
      BY <1>8, <3>2, <3>3
  <2>5. status'[InitialTask] # "running"
    BY <1>2
  <2> QED
    BY <2>2, <2>3, <2>4, <2>5 DEF TaskEpochs
<1>20. TaskBounds(M)'
  <2>1. ASSUME NEW v \in Lower', Live(v)'
        PROVE  /\ clock'[v] <= M
               /\ status'[v] \in {"atBarrier", "released"} => clock'[v] < M
               /\ Epoch(v)' <= clock'[InitialTask] * (M + 1) + clock'[v] + Leaving(v)'
    <3>1. v \in N
      BY <1>6, <1>11, <2>1
    <3>2. /\ clock'[v] = 0 /\ Leaving(v)' = 0 /\ Epoch(v)' = Offset(label[InitialTask], 1)
          /\ status'[v] = "running" /\ clock'[InitialTask] = clock[InitialTask]
      BY <1>3, <1>4, <1>5, <1>12, <3>1
    <3>3. Offset(label[InitialTask], 1) <= clock[InitialTask] * (M + 1)
      BY <1>1 DEF TaskBounds
    <3>4. clock[InitialTask] * (M + 1) \in Nat
      BY <1>5 DEF c
    <3>5. clock[InitialTask] * (M + 1) + 0 + 0 = clock[InitialTask] * (M + 1)
      BY <3>4
    <3> QED
      BY <3>2, <3>3, <3>5
  <2>2. /\ clock'[InitialTask] <= M
        /\ status'[InitialTask] = "forked" => clock'[InitialTask] < M
        /\ Offset(label'[InitialTask], 1) <= clock'[InitialTask] * (M + 1)
    BY <1>1, <1>2, <1>3, <1>5 DEF TaskBounds
  <2> QED
    BY <2>1, <2>2 DEF TaskBounds
<1>21. TaskEnds'
  <2>1. ASSUME NEW v \in Lower', NEW u \in Lower', Live(v)', v # u, v[1][1] = u[1][1], Len(u) = 1
        PROVE  status'[u] # "ended" /\ (status'[u] = "over" => status'[v] = "ended")
    <3>1. v \in N /\ v[1][1] = c
      BY <1>4, <1>6, <1>11, <2>1
    <3>2. u \in N
      <4>1. ASSUME u \in Lower PROVE FALSE
        <5>1. Stretch(u) \in Stretches /\ Stretch(u)[1] = u
          BY <1>1, <4>1, NowIs
        <5> QED
          BY <1>9, <2>1, <3>1, <5>1
      <4> QED
        BY <1>6, <4>1
    <3> QED
      BY <1>4, <3>2
  <2>2. ASSUME NEW v \in Lower', status'[v] = "ended" PROVE FALSE
    <3>1. CASE v \in Lower
      <4>1. Live(v)
        BY <1>11, <2>2, <3>1 DEF Live
      <4> QED
        BY <1>11, <3>1, <4>1
    <3>2. CASE v \in N
      BY <1>4, <2>2, <3>2
    <3> QED
      BY <1>6, <3>1, <3>2
  <2> QED
    BY <2>1, <2>2 DEF TaskEnds
<1>22. TaskMarks'
  <2>1. ASSUME NEW s \in Stretches', NEW i \in 2..Len(s[1]), Waited(recorded'[s], i)
        PROVE  status'[SubSeq(s[1], 1, i)] = "over"
    <3>1. s \in Stretches
      <4>1. ASSUME s \in New PROVE FALSE
        <5>1. Len(s[1]) = 1
          BY <1>4, <1>10, <4>1
        <5> QED
          BY <5>1
      <4> QED
        BY <1>8, <4>1
    <3>2. status[SubSeq(s[1], 1, i)] = "over"
      BY <1>1, <1>9, <2>1, <3>1 DEF TaskMarks
    <3>3. i \in 0..Len(s[1])
      BY <1>9, <3>1
    <3>4. SubSeq(s[1], 1, i) \in Tasks
      BY <1>1, <1>9, <3>1, <3>3 DEF TaskTree
    <3> QED
      BY <1>2, <1>3, <3>2, <3>4
  <2>2. ASSUME NEW v \in Lower' PROVE ~Waited(Now(v)', Own(v))
    <3>1. CASE v \in Lower
      BY <1>1, <1>11, <3>1 DEF TaskMarks
    <3>2. CASE v \in N
      BY <1>4, <1>12, <3>2
    <3> QED
      BY <1>6, <3>1, <3>2
  <2>3. ASSUME NEW v \in Lower', Len(v) > 1, Live(v)' PROVE FALSE
    <3>1. v \in N
      BY <1>6, <1>11, <2>3
    <3>2. ~(1 > 1)
      OBVIOUS
    <3> QED
      BY <1>4, <2>3, <3>1, <3>2
  <2> QED
    BY <2>1, <2>2, <2>3 DEF TaskMarks
<1>23. ASSUME NEW s \in Stretches', NEW j \in 1..Len(s[1]) - 1 PROVE s \in Stretches
  <2>1. ASSUME s \in New PROVE FALSE
    <3>1. Len(s[1]) = 1
      BY <1>4, <1>10, <2>1
    <3> QED
      BY <3>1
  <2> QED
    BY <1>8, <2>1
<1>24. TaskChain'
  <2>1. ASSUME NEW s \in Stretches', NEW j \in 1..Len(s[1]) - 1, Chain(s, j + 1)'
        PROVE  s \in past'[SubSeq(s[1], 1, j)]
    <3>1. s \in Stretches /\ recorded'[s] = recorded[s]
      BY <1>9, <1>23
    <3>2. Chain(s, j + 1)
      BY <2>1, <3>1 DEF Chain
    <3>3. s \in past[SubSeq(s[1], 1, j)]
      BY <1>1, <3>1, <3>2 DEF TaskChain
    <3>4. j \in 0..Len(s[1])
      BY <1>9, <3>1
    <3>5. SubSeq(s[1], 1, j) \in Tasks
      BY <1>1, <1>9, <3>1, <3>4 DEF TaskTree
    <3> QED
      BY <1>3, <3>3, <3>5
  <2> QED
    BY <2>1 DEF TaskChain
<1>25. TaskWaited'
  <2>1. ASSUME NEW s \in Stretches', NEW v \in Lower', NEW j \in 1..Len(s[1]) - 1, Live(v)', Joined(s, v, j)'
        PROVE  FALSE
    <3>1. s \in Stretches /\ v \in N
      BY <1>6, <1>11, <1>23, <2>1
    <3>2. SamePath(s[1], v, j) /\ 1 \in 1..j
      BY <1>9, <2>1, <3>1 DEF Joined
    <3>3. s[1][1] = v[1]
      BY <3>2 DEF SamePath
    <3> QED
      BY <1>4, <1>9, <3>1, <3>3, ZenonT(40)
  <2> QED
    BY <2>1 DEF TaskWaited
<1>26. TaskLineage'
  <2>1. ASSUME NEW s \in Stretches', NEW v \in Lower', Live(v)', Lineage(s, v)' PROVE FALSE
    <3>1. v \in N /\ Len(v) = 1 /\ clock'[v] = 0
      BY <1>4, <1>6, <1>11, <2>1
    <3>2. s[1] \in Lower' /\ s[2] \in 0..clock'[s[1]]
      BY StretchWillBe
    <3>3. CASE s[1] = v /\ s[2] < clock'[v]
      BY <3>1, <3>2, <3>3
    <3>4. CASE Below(s[1], v)
      <4>1. Len(s[1]) \in Nat \ {0}
        <5>1. CASE s \in Stretches
          BY <1>9, <5>1
        <5>2. CASE s \in New
          BY <1>4, <1>10, <5>2
        <5> QED
          BY <1>8, <5>1, <5>2
      <4>2. Len(s[1]) < 1
        BY <3>1, <3>4 DEF Below
      <4> QED
        BY <4>1, <4>2
    <3> QED
      BY <2>1, <3>3, <3>4 DEF Lineage
  <2>2. ASSUME NEW v \in Lower', Len(v) > 1, NEW n \in 0..clock'[v] - 1 PROVE <<v, n>> \in past'[v]
    <3>1. v \in Lower
      <4>1. v \notin N
        BY <1>40, <1>400, <2>2, Zenon
      <4> QED
        BY <1>6, <4>1
    <3>2. past'[v] = past[v] /\ clock'[v] = clock[v]
      BY <1>11, <3>1
    <3> QED
      BY <1>1, <2>2, <3>1, <3>2 DEF TaskLineage
  <2> QED
    BY <2>1, <2>2 DEF TaskLineage
<1>27. TaskPast'
  <2>1. ASSUME NEW v \in Lower', Live(v)' \/ Len(v) > 1, NEW s \in past'[v] \cap Stretches'
        PROVE  \/ Offset(recorded'[s], 1) < Epoch(v)'
               \/ Lineage(s, v)'
               \/ \E j \in 1..Len(s[1]) - 1 : Joined(s, v, j)'
    <3>1. CASE v \in N
      <4>1. s \in Upto(InitialTask)
        BY <1>4, <3>1
      <4>2. s \in Stretches
        <5>1. s[1] \in Lower'
          BY StretchWillBe
        <5>2. s # Stretch(InitialTask)
          BY <1>5, <1>6, <5>1 DEF Stretch
        <5>3. s \in past[InitialTask]
          BY <4>1, <5>2 DEF Upto
        <5>4. s \in {InitialTask} \X Nat \/ s \in Stretches
          BY <1>1, <1>5, <5>3 DEF TaskTyped
        <5> QED
          BY <1>5, <1>6, <5>1, <5>4
      <4>3. Offset(recorded[s], 1) < Offset(label[InitialTask], 1)
        BY <1>1, <1>2, <4>2 DEF TaskEpochs
      <4> QED
        BY <1>9, <1>12, <3>1, <4>2, <4>3
    <3>2. CASE v \in Lower
      <4>1. Len(v) > 1 /\ s \in past[v]
        BY <1>11, <2>1, <3>2
      <4>2. s \in Stretches
        <5>1. s \in {InitialTask} \X Nat \/ s \in Stretches
          BY <1>1, <1>11, <3>2, <4>1 DEF TaskTyped
        <5>2. s[1] \in Lower'
          BY StretchWillBe
        <5> QED
          BY <1>5, <1>6, <5>1, <5>2
      <4>3. \/ Offset(recorded[s], 1) < Epoch(v)
            \/ Lineage(s, v)
            \/ \E j \in 1..Len(s[1]) - 1 : Joined(s, v, j)
        BY <1>1, <3>2, <4>1, <4>2 DEF TaskPast
      <4>4. Lineage(s, v)' <=> Lineage(s, v)
        BY <1>11, <3>2 DEF Lineage
      <4>5. \A j : Joined(s, v, j)' <=> Joined(s, v, j)
        BY <1>9, <1>11, <3>2, <4>2 DEF Joined
      <4> QED
        BY <1>9, <1>11, <3>2, <4>2, <4>3, <4>4, <4>5
    <3> QED
      BY <1>6, <3>1, <3>2
  <2> QED
    BY <2>1 DEF TaskPast
<1> QED
  BY <1>13, <1>14, <1>15, <1>16, <1>17, <1>18, <1>19, <1>20, <1>21, <1>22, <1>24, <1>25, <1>26, <1>27 DEF TaskInv

-----------------------------------------------------------------------------
(* A task goes on to its next stretch                                       *)

\* Task t begins a new stretch, and the tasks N their first.
Grows(t, N) ==
  /\ t \in Lower /\ clock'[t] = clock[t] + 1
  /\ Tasks' = Tasks \cup N /\ N \cap Tasks = {}
  /\ \A v \in Tasks : v # t => clock'[v] = clock[v]
  /\ \A u \in N : clock'[u] = 0

\* What is there then
LEMMA GrowsTo ==
  ASSUME TaskTyped, NEW t, NEW N, Grows(t, N)
  PROVE  /\ Lower' = Lower \cup N /\ Lower \cap N = {} /\ t \in Tasks /\ t \notin N
         /\ \A v : v \in Lower <=> v \in Tasks /\ v # InitialTask
         /\ InitialTask \in Tasks /\ InitialTask \notin Lower /\ InitialTask # t
         /\ \A s : s \in Stretches' <=> s \in Stretches \/ s = NextStretch(t) \/ s \in {<<u, 0>> : u \in N}
         /\ NextStretch(t) \notin Stretches /\ NextStretch(t)[1] = t /\ NextStretch(t)[2] = clock[t] + 1
         /\ NextStretch(t) = <<t, clock[t] + 1>>
         /\ \A v \in Tasks : clock[v] \in Nat /\ clock'[v] \in Nat /\ clock[v] <= clock'[v]
         /\ Stretch(t)' = NextStretch(t)
         /\ \A v \in Lower : v # t => Stretch(v)' = Stretch(v) /\ clock'[v] = clock[v]
<1>1. /\ t \in Lower /\ clock'[t] = clock[t] + 1 /\ Tasks' = Tasks \cup N /\ N \cap Tasks = {}
      /\ InitialTask \in Tasks
      /\ (\A v \in Tasks : v # t => clock'[v] = clock[v])
      /\ (\A u \in N : clock'[u] = 0)
  BY DEF Grows, TaskTyped
<1>2. /\ (\A v : v \in Lower <=> v \in Tasks /\ v # InitialTask)
      /\ InitialTask \notin Lower /\ InitialTask \notin N /\ t \in Tasks /\ t \notin N /\ InitialTask # t
      /\ Lower' = Lower \cup N /\ Lower \cap N = {}
  BY <1>1 DEF Lower
<1>3. ASSUME NEW v \in Tasks PROVE clock[v] \in Nat /\ clock'[v] \in Nat /\ clock[v] <= clock'[v]
  <2>1. clock[v] \in Nat
    BY OfTask
  <2>2. CASE v = t
    BY <1>1, <2>1, <2>2
  <2>3. CASE v # t
    BY <1>1, <2>1, <2>3
  <2> QED
    BY <2>1, <2>2, <2>3
<1>4. NextStretch(t)[1] = t /\ NextStretch(t)[2] = clock[t] + 1 /\ NextStretch(t) = <<t, clock[t] + 1>>
  BY DEF NextStretch
<1>5. NextStretch(t) \notin Stretches
  <2>1. ASSUME NextStretch(t) \in Stretches PROVE FALSE
    <3>1. clock[t] + 1 \in 0..clock[t]
      BY <1>4, <2>1, StretchIs
    <3> QED
      BY <1>2, <1>3, <3>1
  <2> QED
    BY <2>1
<1>6. ASSUME NEW s
      PROVE  s \in Stretches' <=> s \in Stretches \/ s = NextStretch(t) \/ s \in {<<u, 0>> : u \in N}
  <2>1. s \in Stretches' <=> s[1] \in Lower' /\ s[2] \in 0..clock'[s[1]] /\ s = <<s[1], s[2]>>
    BY StretchWillBe
  <2>2. s \in Stretches <=> s[1] \in Lower /\ s[2] \in 0..clock[s[1]] /\ s = <<s[1], s[2]>>
    BY StretchIs
  <2>3. s \in {<<u, 0>> : u \in N} => s[1] \in N
    OBVIOUS
  <2>4. CASE s[1] \in N
    <3>1. \A n : n \in 0..0 <=> n = 0
      OBVIOUS
    <3>2. clock'[s[1]] = 0 /\ s[1] \notin Lower /\ s[1] # t
      BY <1>1, <1>2, <2>4
    <3>3. s \in {<<u, 0>> : u \in N} <=> s = <<s[1], 0>>
      BY <2>4
    <3>4. s = <<s[1], 0>> <=> s[2] = 0 /\ s = <<s[1], s[2]>>
      <4>1. <<s[1], 0>>[2] = 0
        OBVIOUS
      <4> QED
        BY <4>1
    <3>5. s # NextStretch(t)
      BY <1>2, <1>4, <2>4
    <3>6. s \in Stretches' <=> s[2] = 0 /\ s = <<s[1], s[2]>>
      BY <1>2, <2>1, <2>4, <3>1, <3>2, Zenon
    <3> QED
      BY <2>2, <3>2, <3>3, <3>4, <3>5, <3>6
  <2>5. CASE s[1] = t
    <3>1. \A n \in Nat : \A k : k \in 0..n + 1 <=> k \in 0..n \/ k = n + 1
      OBVIOUS
    <3>2. clock[t] \in Nat /\ clock'[s[1]] = clock[s[1]] + 1 /\ clock[s[1]] \in Nat
      BY <1>1, <1>2, <1>3, <2>5
    <3>3. s \notin {<<u, 0>> : u \in N}
      BY <1>2, <2>3, <2>5
    <3>4. s[2] \in 0..clock'[s[1]] <=> s[2] \in 0..clock[s[1]] \/ s[2] = clock[t] + 1
      BY <2>5, <3>1, <3>2, Zenon
    <3>5. s = <<s[1], s[2]>> => (s[2] = clock[t] + 1 <=> s = NextStretch(t))
      BY <1>4, <2>5
    <3>6. s = NextStretch(t) => s = <<s[1], s[2]>>
      BY <1>4
    <3> QED
      BY <1>1, <1>2, <2>1, <2>2, <2>5, <3>3, <3>4, <3>5, <3>6, Zenon
  <2>6. CASE s[1] \notin N /\ s[1] # t
    <3>1. s # NextStretch(t) /\ s \notin {<<u, 0>> : u \in N}
      BY <1>4, <2>3, <2>6
    <3>2. s[1] \in Lower => clock'[s[1]] = clock[s[1]]
      BY <1>1, <1>2, <2>6
    <3> QED
      BY <1>2, <2>1, <2>2, <2>6, <3>1, <3>2, Zenon
  <2> QED
    BY <2>4, <2>5, <2>6
<1>7. Stretch(t)' = NextStretch(t)
  BY <1>1 DEF Stretch, NextStretch
<1>8. ASSUME NEW v \in Lower, v # t PROVE Stretch(v)' = Stretch(v) /\ clock'[v] = clock[v]
  BY <1>1, <1>2, <1>8 DEF Stretch
<1> QED
  BY <1>1, <1>2, <1>3, <1>4, <1>5, <1>6, <1>7, <1>8

\* The tree of the tasks that were there
LEMMA TreeGrows ==
  ASSUME TaskTyped, TaskTree, NEW t, NEW N, Grows(t, N), status'[InitialTask] # "running"
  PROVE  \A v \in Tasks :
           /\ \A j \in 0..Len(v) : SubSeq(v, 1, j) \in Tasks'
           /\ \A j \in 0..Len(v) - 1 :
                /\ v[j + 1][1] <= clock'[SubSeq(v, 1, j)]
                /\ j > 0 \/ status'[InitialTask] = "running" => v[j + 1][1] < clock'[SubSeq(v, 1, j)]
<1>1. Tasks' = Tasks \cup N /\ \A v \in Tasks : clock[v] \in Nat /\ clock'[v] \in Nat /\ clock[v] <= clock'[v]
  BY GrowsTo DEF Grows
<1>2. ASSUME NEW v \in Tasks, NEW j \in 0..Len(v) PROVE SubSeq(v, 1, j) \in Tasks
  BY DEF TaskTree
<1>3. ASSUME NEW v \in Tasks, NEW j \in 0..Len(v) - 1
      PROVE  /\ v[j + 1][1] <= clock'[SubSeq(v, 1, j)]
             /\ j > 0 => v[j + 1][1] < clock'[SubSeq(v, 1, j)]
  <2>1. /\ v[j + 1][1] <= clock[SubSeq(v, 1, j)]
        /\ j > 0 => v[j + 1][1] < clock[SubSeq(v, 1, j)]
    BY DEF TaskTree
  <2>2. Len(v) \in Nat
    BY OfTask
  <2>3. j \in 0..Len(v) /\ j + 1 \in 1..Len(v)
    BY <2>2
  <2>4. SubSeq(v, 1, j) \in Tasks /\ v[j + 1][1] \in Nat
    BY <1>2, <2>3, OfTask
  <2>5. /\ clock[SubSeq(v, 1, j)] \in Nat /\ clock'[SubSeq(v, 1, j)] \in Nat
        /\ clock[SubSeq(v, 1, j)] <= clock'[SubSeq(v, 1, j)]
    BY <1>1, <2>4
  <2> QED
    BY <2>1, <2>4, <2>5
<1> QED
  BY <1>1, <1>2, <1>3

\* The object of the task's own segment is one of this task.
LEMMA OwnObject ==
  ASSUME TaskTyped, TaskLabels, NEW s \in Stretches
  PROVE  recorded[s][Own(s[1])].obj[1] = s[1]
<1>1. /\ TaskLabel(s[1], recorded[s]) /\ s[1] \in TaskPaths /\ Len(s[1]) \in Nat \ {0}
      /\ Own(s[1]) = Len(s[1]) + 1
  BY RecordIs, OfStretch
<1>2. Own(s[1]) \in 2..Len(recorded[s]) /\ Own(s[1]) - 1 = Len(s[1]) /\ Len(s[1]) \in 0..Len(s[1])
  BY <1>1 DEF TaskLabel
<1>3. recorded[s][Own(s[1])].obj[1] = SubSeq(s[1], 1, Len(s[1]))
  BY <1>1, <1>2 DEF TaskLabel
<1> QED
  BY <1>1, <1>2, <1>3, PathTo

\* It is not that of the next stretch.
LEMMA OwnIsOld ==
  ASSUME TaskTyped, TaskLabels, TaskObjects, NEW t \in Lower, NEW s \in Stretches
  PROVE  recorded[s][Own(s[1])].obj # NextStretch(t)
<1>1. SUFFICES ASSUME recorded[s][Own(s[1])].obj = NextStretch(t) PROVE FALSE
  OBVIOUS
<1>2. NextStretch(t)[1] = t /\ NextStretch(t)[2] = clock[t] + 1
  BY DEF NextStretch
<1>3. s[1] = t
  BY <1>1, <1>2, OwnObject
<1>4. clock[t] + 1 <= clock[t]
  BY <1>1, <1>2, <1>3 DEF TaskObjects
<1>5. clock[t] \in Nat
  BY OfTask DEF Lower
<1> QED
  BY <1>4, <1>5

\* Who is below t has been created in a stretch before the current one.
LEMMA BelowBefore ==
  ASSUME TaskTyped, TaskTree, NEW t \in Lower, NEW v \in Tasks, Below(t, v)
  PROVE  v[Len(t) + 1][1] < clock[t] /\ v[Len(t) + 1][1] \in Nat
<1>1. /\ Len(t) \in Nat /\ Len(t) > 0 /\ Len(v) \in Nat /\ Len(t) < Len(v) /\ SamePath(t, v, Len(t))
      /\ t \in TaskPaths /\ v \in TaskPaths
  BY OfTask DEF Lower, Below
<1>2. t = SubSeq(v, 1, Len(t))
  BY <1>1, IsPathTo
<1>3. Len(t) \in 0..Len(v) - 1 /\ Len(t) + 1 \in 1..Len(v)
  BY <1>1
<1>4. v[Len(t) + 1][1] < clock[SubSeq(v, 1, Len(t))]
  BY <1>1, <1>3 DEF TaskTree
<1>5. v[Len(t) + 1][1] \in Nat
  BY <1>3, OfTask
<1> QED
  BY <1>2, <1>4, <1>5

\* In particular nobody has been created in the current one.
LEMMA NotYetCreated ==
  ASSUME TaskTyped, TaskTree, NEW t \in Lower, NEW n \in Nat, n >= clock[t]
  PROVE  Append(t, <<n, NoIndex>>) \notin Tasks
<1> DEFINE v == Append(t, <<n, NoIndex>>)
<1>1. t \in TaskPaths /\ Len(t) \in Nat /\ clock[t] \in Nat /\ <<n, NoIndex>> \in Nat \X Int
  BY OfTask DEF Lower, NoIndex
<1>2. /\ v \in TaskPaths /\ Len(v) = Len(t) + 1 /\ v[Len(t) + 1] = <<n, NoIndex>>
      /\ \A i \in 1..Len(t) : v[i] = t[i]
  <2>1. \A e \in Nat \X Int : /\ Append(t, e) \in Seq(Nat \X Int) /\ Len(Append(t, e)) = Len(t) + 1
                              /\ Append(t, e)[Len(t) + 1] = e
                              /\ \A i \in 1..Len(t) : Append(t, e)[i] = t[i]
    <3>1. ASSUME NEW e \in Nat \X Int
          PROVE  /\ Append(t, e) \in Seq(Nat \X Int) /\ Len(Append(t, e)) = Len(t) + 1
                 /\ Append(t, e)[Len(t) + 1] = e
                 /\ \A i \in 1..Len(t) : Append(t, e)[i] = t[i]
      BY <1>1, Extended DEF TaskPaths
    <3> QED
      BY <3>1
  <2> QED
    BY <1>1, <2>1, Zenon DEF TaskPaths
<1> HIDE DEF v
<1>3. Below(t, v)
  BY <1>1, <1>2 DEF Below, SamePath
<1>4. ASSUME v \in Tasks PROVE FALSE
  <2>1. v[Len(t) + 1][1] < clock[t]
    BY <1>3, <1>4, BelowBefore
  <2>2. n < clock[t]
    BY <1>2, <2>1
  <2> QED
    BY <1>1, <2>2
<1> QED
  BY <1>4 DEF v

-----------------------------------------------------------------------------
(* A member of a team leaves a barrier                                      *)

\* Task t goes on past the barrier that has released it.
Passes(t, M) ==
  /\ Grows(t, {}) /\ app' = app /\ edges' = edges /\ groups' = groups /\ children' = children
  /\ status[t] = "released" /\ status'[t] = "running" /\ Live(t) /\ Len(t) = 1 /\ t[1][1] = clock[InitialTask]
  /\ DOMAIN status' = Tasks /\ DOMAIN clock' = Tasks /\ DOMAIN past' = Tasks
  /\ \A v \in Tasks : past'[v] = past[v]
  /\ \A v \in Tasks : v # t => status'[v] = status[v] /\ label'[v] = label[v]
  /\ DOMAIN recorded' = DOMAIN recorded \cup {NextStretch(t)}
  /\ \A s \in DOMAIN recorded : recorded'[s] = recorded[s]
  /\ recorded'[NextStretch(t)] = label'[t]
  /\ TaskLabel(t, label'[t]) /\ label'[t][2] = Now(t)[2] /\ label'[t][1].obj = NextStretch(t)
  /\ Offset(label'[t], 1) = Epoch(t) /\ Offset(Now(t), 1) < Epoch(t) /\ Epoch(t) \in Nat
  /\ Epoch(t) <= clock[InitialTask] * (M + 1) + clock[t] + 1

\* BarrierEnd does that.
LEMMA PassesIfBarrierEnd ==
  ASSUME NEW M \in Nat, TaskProgram(M), TaskInv(M), NEW t \in Tasks, BarrierEnd(t)
  PROVE  Passes(t, M)
<1> DEFINE b == mutateBarrierEnd(label[t], NextStretch(t))
<1>1. TaskTyped /\ TaskLabels
  BY DEF TaskInv
<1>2. status[t] = "released" /\ t \in Lower
  BY <1>1 DEF BarrierEnd, Lower, TaskTyped
<1>3. /\ Live(t) /\ Len(t) = 1 /\ label[t] = Now(t) /\ t[1][1] = clock[InitialTask]
      /\ Epoch(t) = Offset(Now(t), 1) + 1 /\ Offset(Now(t), 1) + 1 < OffsetLimit
      /\ Epoch(t) <= clock[InitialTask] * (M + 1) + clock[t] + 1 /\ Offset(Now(t), 1) \in Nat
  BY <1>2, NoWrapOfTask
<1>4. t \in TaskPaths /\ NextStretch(t) \in TaskPaths \X Nat /\ TaskLabel(t, Now(t))
  <2>1. t \in TaskPaths /\ clock[t] \in Nat /\ TaskLabel(t, Now(t))
    BY <1>1, <1>2, OfTask, NowIs
  <2> QED
    BY <2>1 DEF NextStretch
<1>5. /\ TaskLabel(t, b) /\ b[2] = Now(t)[2] /\ Offset(b, 1) = Offset(Now(t), 1) + 1 /\ b[1].obj = NextStretch(t)
  BY <1>3, <1>4, BarrierLabel
<1>6. b \in Seq(TaskSegment) /\ b # <<>> /\ t # InitialTask
  <2>1. b \in Seq(TaskSegment) /\ Len(b) = 2
    BY <1>3, <1>5 DEF TaskLabel
  <2> QED
    BY <1>2, <2>1 DEF Lower
<1>7. /\ label' = [label EXCEPT ![t] = b]
      /\ recorded' = Records(t, b)
      /\ clock' = [clock EXCEPT ![t] = @ + 1]
      /\ past' = [past EXCEPT ![t] = past[t]]
      /\ status' = [status EXCEPT ![t] = "running"]
      /\ app' = app /\ edges' = edges /\ groups' = groups /\ children' = children
  BY DEF BarrierEnd, Continue, Relabel, Labels
<1> HIDE DEF b
<1>8. /\ DOMAIN recorded' = DOMAIN recorded \cup {NextStretch(t)}
      /\ (\A s \in DOMAIN recorded : s # NextStretch(t) => recorded'[s] = recorded[s])
      /\ recorded'[NextStretch(t)] = b
  BY <1>6, <1>7, RecordsOf
<1>9. /\ DOMAIN status = Tasks /\ DOMAIN clock = Tasks /\ DOMAIN past = Tasks /\ DOMAIN label = Tasks
      /\ DOMAIN recorded = Stretches /\ t \in Tasks
  BY <1>1 DEF TaskTyped, Tasks
<1>10. /\ DOMAIN status' = Tasks /\ DOMAIN clock' = Tasks /\ DOMAIN past' = Tasks /\ Tasks' = Tasks
       /\ label'[t] = b /\ clock'[t] = clock[t] + 1 /\ status'[t] = "running"
  <2>1. DOMAIN status' = Tasks /\ DOMAIN clock' = Tasks /\ DOMAIN past' = Tasks /\ Tasks' = Tasks
    BY <1>7, <1>9 DEF Tasks
  <2> QED
    BY <1>7, <1>9, <2>1
<1>11. \A v \in Tasks : v # t => status'[v] = status[v] /\ label'[v] = label[v] /\ clock'[v] = clock[v]
  BY <1>7, <1>9
<1>15. \A v \in Tasks : past'[v] = past[v]
  BY <1>7, <1>9
<1>12. Grows(t, {})
  BY <1>2, <1>10, <1>11 DEF Grows
<1>13. \A s \in DOMAIN recorded : recorded'[s] = recorded[s]
  <2>1. NextStretch(t) \notin DOMAIN recorded
    BY <1>1, <1>9, <1>12, GrowsTo
  <2> QED
    BY <1>8, <2>1
<1>14. Offset(b, 1) = Epoch(t) /\ Offset(Now(t), 1) < Epoch(t) /\ Epoch(t) \in Nat
  BY <1>3, <1>5
<1> QED
  BY <1>2, <1>3, <1>5, <1>7, <1>8, <1>10, <1>11, <1>12, <1>13, <1>14, <1>15 DEF Passes

\* Leaving a barrier preserves the invariant.
LEMMA PassesKeeps ==
  ASSUME NEW M \in Nat, TaskInv(M), NEW t, Passes(t, M)
  PROVE  TaskInv(M)'
<1> DEFINE new == NextStretch(t)
           b == label'[t]
<1>1. /\ TaskTyped /\ TaskTree /\ TaskLabels /\ TaskObjects /\ TaskCounts /\ TaskCurrent
      /\ TaskEpochs /\ TaskBounds(M) /\ TaskEnds /\ TaskMarks /\ TaskChain /\ TaskWaited
      /\ TaskLineage /\ TaskPast
  BY DEF TaskInv
<1>2. /\ Grows(t, {}) /\ app' = app /\ edges' = edges /\ groups' = groups /\ children' = children
      /\ status[t] = "released" /\ status'[t] = "running" /\ Live(t) /\ Len(t) = 1 /\ t[1][1] = clock[InitialTask]
      /\ DOMAIN status' = Tasks /\ DOMAIN clock' = Tasks /\ DOMAIN past' = Tasks
      /\ DOMAIN recorded' = DOMAIN recorded \cup {new}
      /\ recorded'[new] = b
      /\ TaskLabel(t, b) /\ b[2] = Now(t)[2] /\ b[1].obj = new
      /\ Offset(b, 1) = Epoch(t) /\ Offset(Now(t), 1) < Epoch(t) /\ Epoch(t) \in Nat
      /\ Epoch(t) <= clock[InitialTask] * (M + 1) + clock[t] + 1
  BY DEF Passes
<1>3. ASSUME NEW v \in Tasks
      PROVE past'[v] = past[v] /\ (v # t => status'[v] = status[v] /\ label'[v] = label[v] /\ clock'[v] = clock[v])
  BY <1>3 DEF Passes, Grows
<1>4. /\ Lower' = Lower /\ Tasks' = Tasks /\ t \in Tasks /\ t \in Lower /\ clock'[t] = clock[t] + 1
      /\ (\A v : v \in Lower <=> v \in Tasks /\ v # InitialTask)
      /\ InitialTask \in Tasks /\ InitialTask \notin Lower /\ InitialTask # t
      /\ (\A s : s \in Stretches' <=> s \in Stretches \/ s = new)
      /\ new \notin Stretches /\ new[1] = t /\ new[2] = clock[t] + 1
      /\ (\A v \in Tasks : clock[v] \in Nat /\ clock'[v] \in Nat /\ clock[v] <= clock'[v])
      /\ Stretch(t)' = new /\ new = <<t, clock[t] + 1>>
      /\ (\A v \in Lower : v # t => Stretch(v)' = Stretch(v))
  <2>1. {<<u, 0>> : u \in {}} = {}
    OBVIOUS
  <2>2. /\ Lower' = Lower \cup {} /\ Tasks' = Tasks \cup {} /\ t \in Lower /\ clock'[t] = clock[t] + 1
        /\ (\A s : s \in Stretches' <=> s \in Stretches \/ s = new \/ s \in {<<u, 0>> : u \in {}})
    BY <1>1, <1>2, GrowsTo DEF Grows
  <2> QED
    BY <1>1, <1>2, <2>1, <2>2, GrowsTo
<1> HIDE DEF new, b
<1>5. ASSUME NEW s \in Stretches
      PROVE  /\ recorded'[s] = recorded[s] /\ s # new /\ s[1] \in Lower /\ s[1] \in Tasks
             /\ Len(s[1]) \in Nat \ {0} /\ s[1] \in TaskPaths /\ TaskLabel(s[1], recorded[s])
             /\ Offset(recorded[s], 1) \in Nat
  <2>1. /\ s[1] \in Lower /\ s[1] \in Tasks /\ Len(s[1]) \in Nat \ {0} /\ s[1] \in TaskPaths
        /\ s \in DOMAIN recorded /\ TaskLabel(s[1], recorded[s])
    BY <1>1, OfStretch, RecordIs
  <2>2. recorded'[s] = recorded[s]
    BY <2>1 DEF Passes
  <2>3. Offset(recorded[s], 1) \in Nat
    BY <2>1, OfLabel
  <2> QED
    BY <1>4, <2>1, <2>2, <2>3
<1>6. ASSUME NEW v \in Lower
      PROVE  /\ Live(v)' <=> Live(v)
             /\ Epoch(v)' = Epoch(v)
             /\ v # t => Now(v)' = Now(v) /\ Leaving(v)' = Leaving(v)
             /\ Now(v)'[2] = Now(v)[2]
             /\ Len(v) \in Nat \ {0} /\ v \in Tasks /\ v \in TaskPaths
  <2>1. v \in Tasks /\ Len(v) \in Nat \ {0} /\ v \in TaskPaths /\ Stretch(v) \in Stretches
    BY <1>1, <1>4, NowIs, OfTask
  <2>2. CASE v = t
    <3>1. Live(v) /\ Live(v)'
      BY <1>2, <1>4, <2>2 DEF Live
    <3>2. Now(v)' = b /\ Now(v)'[2] = Now(v)[2]
      BY <1>2, <1>4, <2>2 DEF Now
    <3>3. Leaving(v)' = 0
      BY <1>2, <2>2 DEF Leaving
    <3>4. Epoch(v)' = Offset(b, 1) + 0
      BY <3>2, <3>3 DEF Epoch
    <3> QED
      BY <1>2, <2>1, <2>2, <3>1, <3>2, <3>4
  <2>3. CASE v # t
    <3>1. status'[v] = status[v] /\ Now(v)' = Now(v)
      BY <1>3, <1>4, <1>5, <2>1, <2>3 DEF Now
    <3>2. Leaving(v)' = Leaving(v) /\ Epoch(v)' = Epoch(v) /\ (Live(v)' <=> Live(v))
      BY <1>4, <3>1 DEF Leaving, Epoch, Live
    <3> QED
      BY <2>1, <3>1, <3>2
  <2> QED
    BY <2>2, <2>3
<1>7. /\ Now(t)' = b /\ Own(t) = 2 /\ t \in TaskPaths /\ Leaving(t)' = 0
      /\ Stretch(t) \in Stretches /\ Stretch(t) = <<t, clock[t]>> /\ Now(t) = recorded[Stretch(t)]
      /\ Now(t) = At(t, clock[t]) /\ TaskLabel(t, Now(t)) /\ Stretch(t)[1] = t
  <2>1. Own(t) = 2
    BY <1>2 DEF Own
  <2>2. Now(t)' = b /\ Leaving(t)' = 0
    BY <1>2, <1>4 DEF Now, Leaving
  <2> QED
    BY <1>1, <1>4, <1>6, <2>1, <2>2, NowIs DEF Now
<1>8. status'[InitialTask] = "forked" /\ clock'[InitialTask] = clock[InitialTask]
      /\ label'[InitialTask] = label[InitialTask] /\ past'[InitialTask] = past[InitialTask]
  <2>1. status[InitialTask] = "forked"
    BY <1>1, <1>2, <1>4 DEF TaskEpochs
  <2> QED
    BY <1>3, <1>4, <2>1
<1>9. Constructs' = Constructs /\ MaxSteps' = MaxSteps
  BY <1>2 DEF Constructs, MaxSteps
<1>10. ASSUME NEW p \in Lower, NEW n \in 0..clock[p] PROVE At(p, n)' = At(p, n)
  <2>1. <<p, n>> \in Stretches
    BY StretchOf
  <2> QED
    BY <1>5, <2>1 DEF At
<1>11. ASSUME NEW n, n = clock[t] + 1 PROVE At(t, n)' = b
  BY <1>11, <1>2, <1>4 DEF At
<1>12. ASSUME NEW i \in 2..Len(t) PROVE FALSE
  BY <1>2
<1>13. ASSUME NEW j \in 1..Len(t) - 1 PROVE FALSE
  BY <1>2
<1>14. ASSUME NEW s \in Stretches'
       PROVE  /\ s \in Stretches \/ (s = new /\ s[1] = t /\ recorded'[s] = b)
              /\ TaskLabel(s[1], recorded'[s])
  BY <1>2, <1>4, <1>5
<1>15. TaskTyped'
  <2>1. ASSUME NEW v \in Tasks
        PROVE  /\ TaskPath(v) /\ Len(v) + 1 <= Len(MaxSteps')
               /\ status'[v] \in {"running", "forked", "atBarrier", "atEnd", "released", "ended", "over"}
               /\ Len(v) > 1 => status'[v] \in {"running", "over"}
               /\ clock'[v] \in Nat /\ groups'[v] = <<>>
               /\ \A s \in past'[v] : s \in {InitialTask} \X Nat \/ s \in Stretches'
               /\ \A u \in children'[v] : u \in Tasks' /\ Len(u) > 1 /\ Front(u) = v
    <3>1. /\ TaskPath(v) /\ Len(v) + 1 <= Len(MaxSteps)
          /\ status[v] \in {"running", "forked", "atBarrier", "atEnd", "released", "ended", "over"}
          /\ Len(v) > 1 => status[v] \in {"running", "over"}
          /\ groups[v] = <<>>
          /\ \A s \in past[v] : s \in {InitialTask} \X Nat \/ s \in Stretches
          /\ \A u \in children[v] : u \in Tasks /\ Len(u) > 1 /\ Front(u) = v
      BY <1>1 DEF TaskTyped
    <3>2. /\ status'[v] \in {"running", "forked", "atBarrier", "atEnd", "released", "ended", "over"}
          /\ Len(v) > 1 => status'[v] \in {"running", "over"}
      BY <1>2, <1>3, <3>1
    <3>3. \A s \in past'[v] : s \in {InitialTask} \X Nat \/ s \in Stretches'
      BY <1>3, <1>4, <3>1
    <3> QED
      BY <1>2, <1>4, <1>9, <3>1, <3>2, <3>3
  <2>2. /\ app' \in Programs /\ edges' = {}
        /\ label'[InitialTask] \in Seq(TaskSegment) /\ Len(label'[InitialTask]) = 1
        /\ FirstSegment(label'[InitialTask][1])
        /\ DOMAIN groups' = Tasks /\ DOMAIN children' = Tasks
    BY <1>1, <1>2, <1>8 DEF TaskTyped
  <2>3. DOMAIN recorded' = Stretches'
    <3>1. DOMAIN recorded = Stretches
      BY <1>1 DEF TaskTyped
    <3> QED
      BY <1>2, <1>4, <3>1
  <2> QED
    BY <1>2, <1>4, <1>8, <2>1, <2>2, <2>3 DEF TaskTyped
<1>16. TaskTree'
  <2>1. status'[InitialTask] # "running"
    BY <1>8
  <2> QED
    BY <1>1, <1>2, <1>4, <2>1, TreeGrows DEF TaskTree
<1>17. TaskLabels'
  <2>1. ASSUME NEW s \in Stretches', NEW i \in 2..Len(s[1])
        PROVE  recorded'[s][i] = At(SubSeq(s[1], 1, i - 1), s[1][i][1])'[i]
    <3>1. s \in Stretches
      BY <1>12, <1>14, <2>1
    <3>2. recorded[s][i] = At(SubSeq(s[1], 1, i - 1), s[1][i][1])[i]
      BY <1>1, <3>1 DEF TaskLabels
    <3>3. i - 1 \in 1..Len(s[1]) /\ i - 1 < Len(s[1]) /\ i - 1 + 1 = i
      BY <1>5, <3>1
    <3>4. Way(s, i - 1) \in Stretches
      BY <1>1, <3>1, <3>3, OfWay
    <3>5. Way(s, i - 1) = <<SubSeq(s[1], 1, i - 1), s[1][i][1]>>
      BY <3>3 DEF Way, In
    <3>6. At(SubSeq(s[1], 1, i - 1), s[1][i][1])' = At(SubSeq(s[1], 1, i - 1), s[1][i][1])
      BY <1>5, <3>4, <3>5 DEF At
    <3> QED
      BY <1>5, <3>1, <3>2, <3>6
  <2>2. Span(b, 2) = Span(recorded[Stretch(t)], 2)
    BY <1>2, <1>7 DEF Span
  <2>3. ASSUME NEW s \in Stretches'
        PROVE  \E r \in Stretches : r[1] = s[1] /\ Span(recorded'[s], 2) = Span(recorded[r], 2)
    BY <1>5, <1>7, <1>14, <2>2
  <2>4. ASSUME NEW s \in Stretches', NEW r \in Stretches', s[1][1][1] = r[1][1][1]
        PROVE  Span(recorded'[s], 2) = Span(recorded'[r], 2)
    <3>1. PICK x \in Stretches : x[1] = s[1] /\ Span(recorded'[s], 2) = Span(recorded[x], 2)
      BY <2>3
    <3>2. PICK y \in Stretches : y[1] = r[1] /\ Span(recorded'[r], 2) = Span(recorded[y], 2)
      BY <2>3
    <3>3. Span(recorded[x], 2) = Span(recorded[y], 2)
      BY <1>1, <2>4, <3>1, <3>2 DEF TaskLabels
    <3> QED
      BY <3>1, <3>2, <3>3
  <2>5. ASSUME "taskwait" \notin Constructs', NEW s \in Stretches' PROVE Waits(recorded'[s], Own(s[1])) = 0
    <3>1. \A r \in Stretches : Waits(recorded[r], Own(r[1])) = 0
      BY <1>1, <1>9, <2>5 DEF TaskLabels
    <3>2. CASE s \in Stretches
      BY <1>5, <3>1, <3>2
    <3>3. CASE s = new
      <4>1. Waits(recorded[Stretch(t)], 2) = 0
        BY <1>7, <3>1
      <4>2. Waits(b, 2) = 0
        BY <1>2, <1>7, <4>1 DEF Waits
      <4> QED
        BY <1>2, <1>4, <1>7, <3>3, <4>2
    <3> QED
      BY <1>4, <3>2, <3>3
  <2> QED
    BY <1>14, <2>1, <2>4, <2>5 DEF TaskLabels
<1>18. TaskObjects'
  <2> DEFINE O == {recorded[r][1].obj : r \in Stretches} \cup {label[InitialTask][1].obj}
  <2>1. /\ \A s \in Stretches : recorded[s][Own(s[1])].obj[2] <= clock[s[1]]
        /\ \A o \in O :
             /\ o[1] \in Tasks /\ (o[2] <= clock[o[1]] \/ status[o[1]] = "over")
             /\ \A s \in Stretches : recorded[s][Own(s[1])].obj # o
    BY <1>1 DEF TaskObjects
  <2>2. {recorded'[r][1].obj : r \in Stretches'} \cup {label'[InitialTask][1].obj} \subseteq O \cup {new}
    BY <1>2, <1>5, <1>8, <1>14
  <2>3. ASSUME NEW s \in Stretches'
        PROVE  \E r \in Stretches : r[1] = s[1] /\ recorded'[s][Own(s[1])].obj = recorded[r][Own(r[1])].obj
    <3>1. CASE s \in Stretches
      BY <1>5, <3>1
    <3>2. CASE s = new
      <4>1. recorded'[s][2] = recorded[Stretch(t)][2]
        BY <1>2, <1>7, <3>2
      <4> QED
        BY <1>4, <1>7, <3>2, <4>1
    <3> QED
      BY <1>4, <3>1, <3>2
  <2>4. ASSUME NEW s \in Stretches' PROVE recorded'[s][Own(s[1])].obj[2] <= clock'[s[1]]
    <3>1. PICK r \in Stretches : r[1] = s[1] /\ recorded'[s][Own(s[1])].obj = recorded[r][Own(r[1])].obj
      BY <2>3
    <3>2. recorded[r][Own(r[1])].obj[2] <= clock[r[1]]
      BY <2>1
    <3>3. recorded[r][Own(r[1])].obj[2] \in Nat
      <4>1. Own(r[1]) \in 1..Len(recorded[r]) /\ recorded[r] \in Seq(TaskSegment)
        BY <1>5 DEF TaskLabel, Own
      <4>2. recorded[r][Own(r[1])] \in TaskSegment
        BY <4>1
      <4> QED
        BY <4>2 DEF TaskSegment
    <3>4. clock[r[1]] \in Nat /\ clock'[r[1]] \in Nat /\ clock[r[1]] <= clock'[r[1]]
      BY <1>4, <1>5
    <3> QED
      BY <3>1, <3>2, <3>3, <3>4
  <2>5. ASSUME NEW o \in O \cup {new}
        PROVE  /\ o[1] \in Tasks /\ (o[2] <= clock'[o[1]] \/ status'[o[1]] = "over")
               /\ \A s \in Stretches : recorded[s][Own(s[1])].obj # o
    <3>1. CASE o \in O
      <4>1. /\ o[1] \in Tasks /\ (o[2] <= clock[o[1]] \/ status[o[1]] = "over")
            /\ \A s \in Stretches : recorded[s][Own(s[1])].obj # o
        BY <2>1, <3>1
      <4>2. CASE o[1] = t
        <5>1. o[2] \in Nat
          <6>1. ASSUME NEW seg, FirstSegment(seg) PROVE seg.obj[2] \in Nat
            BY <6>1 DEF FirstSegment, TaskSegment
          <6>2. FirstSegment(label[InitialTask][1]) /\ \A r \in Stretches : FirstSegment(recorded[r][1])
            BY <1>1, <1>5 DEF TaskTyped, TaskLabel
          <6> QED
            BY <3>1, <6>1, <6>2
        <5>2. o[2] <= clock[t]
          BY <1>2, <4>1, <4>2
        <5>3. o[2] <= clock'[t]
          BY <1>4, <5>1, <5>2
        <5> QED
          BY <4>1, <4>2, <5>3
      <4>3. CASE o[1] # t
        BY <1>3, <4>1, <4>3
      <4> QED
        BY <4>2, <4>3
    <3>2. CASE o = new
      <4>1. o[1] \in Tasks /\ o[2] <= clock'[o[1]]
        BY <1>4, <3>2
      <4>2. \A s \in Stretches : recorded[s][Own(s[1])].obj # o
        BY <1>1, <1>4, <3>2, OwnIsOld DEF new
      <4> QED
        BY <4>1, <4>2
    <3> QED
      BY <3>1, <3>2
  <2> HIDE DEF O
  <2>6. ASSUME NEW o \in O \cup {new}, NEW s \in Stretches' PROVE recorded'[s][Own(s[1])].obj # o
    BY <2>3, <2>5
  <2> QED
    BY <1>4, <2>2, <2>4, <2>5, <2>6 DEF TaskObjects
<1>19. TaskCounts'
  <2>1. \A n \in 0..clock[t] : At(t, n)' = At(t, n)
    BY <1>4, <1>10
  <2>2. ASSUME NEW p \in Lower, NEW n \in 0..clock'[p], NEW m \in 0..clock'[p], n < m
        PROVE  /\ Waits(At(p, n)', Own(p)) <= Waits(At(p, m)', Own(p))
               /\ Creates(At(p, n)', Own(p)) <= Creates(At(p, m)', Own(p))
               /\ Append(p, <<n, NoIndex>>) \in Tasks => Creates(At(p, n)', Own(p)) < Creates(At(p, m)', Own(p))
    <3>1. CASE m \in 0..clock[p]
      <4>1. n \in 0..clock[p]
        BY <1>4, <2>2, <3>1
      <4> QED
        BY <1>1, <1>10, <2>2, <3>1, <4>1 DEF TaskCounts
    <3>2. CASE m \notin 0..clock[p]
      <4>1. p = t
        BY <1>3, <1>4, <2>2, <3>2
      <4>2. clock[t] \in Nat /\ m = clock[t] + 1 /\ n \in 0..clock[t]
        BY <1>4, <2>2, <3>2, <4>1
      <4>3. At(t, m)'[2] = At(t, clock[t])[2] /\ At(t, n)' = At(t, n) /\ clock[t] \in 0..clock[t]
        <5>1. At(t, m)' = b
          BY <1>11, <4>2
        <5>2. clock[t] \in 0..clock[t]
          BY <4>2
        <5> QED
          BY <1>2, <1>7, <2>1, <4>2, <5>1, <5>2
      <4>4. /\ Waits(At(t, m)', 2) = Waits(At(t, clock[t]), 2)
            /\ Creates(At(t, m)', 2) = Creates(At(t, clock[t]), 2)
        BY <4>3 DEF Waits, Creates
      <4>5. CASE n < clock[t]
        <5>1. /\ Waits(At(t, n), 2) <= Waits(At(t, clock[t]), 2)
              /\ Creates(At(t, n), 2) <= Creates(At(t, clock[t]), 2)
              /\ Append(t, <<n, NoIndex>>) \in Tasks => Creates(At(t, n), 2) < Creates(At(t, clock[t]), 2)
          BY <1>1, <1>4, <1>7, <4>2, <4>3, <4>5 DEF TaskCounts
        <5> QED
          BY <1>7, <4>1, <4>3, <4>4, <5>1
      <4>6. CASE n = clock[t]
        <5>1. Append(t, <<n, NoIndex>>) \notin Tasks
          BY <1>1, <1>4, <4>2, <4>6, NotYetCreated
        <5>2. Waits(At(t, n), 2) \in Nat /\ Creates(At(t, n), 2) \in Nat
          <6>1. At(t, n) = Now(t) /\ Len(t) \in Nat /\ 2 \in 1..Len(t) + 1
            BY <1>2, <1>7, <4>6
          <6> QED
            BY <1>7, <6>1, OfLabel
        <5> QED
          BY <1>7, <4>1, <4>3, <4>4, <4>6, <5>1, <5>2
      <4> QED
        BY <4>2, <4>5, <4>6
    <3> QED
      BY <3>1, <3>2
  <2> QED
    BY <1>4, <2>2 DEF TaskCounts
<1>20. TaskCurrent'
  <2>1. ASSUME NEW v \in Lower
        PROVE  /\ Live(v)' => label'[v] = Now(v)'
               /\ ~Live(v)' /\ Len(v) > 1 => /\ label'[v] \in Seq(TaskSegment) /\ Len(label'[v]) = Len(v)
                                             /\ \A i \in 1..Len(v) : label'[v][i] = Now(v)'[i]
    <3>1. CASE v = t
      BY <1>2, <1>6, <1>7, <3>1 DEF b
    <3>2. CASE v # t
      BY <1>1, <1>3, <1>6, <3>2 DEF TaskCurrent
    <3> QED
      BY <3>1, <3>2
  <2> QED
    BY <1>4, <2>1 DEF TaskCurrent
<1>21. TaskEpochs'
  <2>1. ASSUME NEW v \in Lower, Live(v)' PROVE status'[InitialTask] = "forked" /\ v[1][1] = clock'[InitialTask]
    BY <1>1, <1>6, <1>8, <2>1 DEF TaskEpochs
  <2>2. ASSUME NEW v \in Lower, NEW u \in Lower, Live(v)', Live(u)' PROVE Epoch(v)' = Epoch(u)'
    BY <1>1, <1>6, <2>2 DEF TaskEpochs
  <2>3. ASSUME NEW v \in Lower, NEW s \in Stretches', Live(v)'
        PROVE  /\ Offset(recorded'[s], 1) <= Epoch(v)'
               /\ Offset(recorded'[s], 1) = Epoch(v)' => s[1][1][1] = v[1][1]
               /\ Offset(recorded'[s], 1) < Epoch(v)' => s \in past'[v]
    <3>1. Live(v) /\ Epoch(v)' = Epoch(v)
      BY <1>6, <2>3
    <3>2. CASE s \in Stretches
      BY <1>1, <1>3, <1>4, <1>5, <3>1, <3>2 DEF TaskEpochs
    <3>3. CASE s = new
      <4>1. Epoch(v) = Epoch(t) /\ v[1][1] = clock[InitialTask]
        BY <1>1, <1>2, <1>4, <3>1 DEF TaskEpochs
      <4>2. Offset(recorded'[s], 1) = Epoch(v)' /\ s[1][1][1] = v[1][1] /\ Epoch(v)' \in Nat
        BY <1>2, <1>4, <3>1, <3>3, <4>1
      <4> QED
        BY <4>2
    <3> QED
      BY <1>4, <3>2, <3>3
  <2>4. status'[InitialTask] # "running"
    BY <1>8
  <2> QED
    BY <1>4, <2>1, <2>2, <2>3, <2>4 DEF TaskEpochs
<1>22. TaskBounds(M)'
  <2>1. ASSUME NEW v \in Lower, Len(v) = 1, Live(v)'
        PROVE  /\ clock'[v] <= M
               /\ status'[v] \in {"atBarrier", "released"} => clock'[v] < M
               /\ Epoch(v)' <= clock'[InitialTask] * (M + 1) + clock'[v] + Leaving(v)'
    <3>1. CASE v # t
      BY <1>1, <1>3, <1>6, <1>8, <2>1, <3>1 DEF TaskBounds
    <3>2. CASE v = t
      <4>1. clock[t] < M /\ clock[t] \in Nat
        BY <1>1, <1>2, <1>4 DEF TaskBounds
      <4>2. clock'[t] <= M
        BY <1>4, <4>1
      <4>3. clock'[InitialTask] * (M + 1) \in Nat
        BY <1>4
      <4> DEFINE c == clock'[InitialTask] * (M + 1)
      <4>4. Epoch(t)' <= c + clock[t] + 1 /\ clock'[t] = clock[t] + 1 /\ Leaving(t)' = 0
        BY <1>2, <1>4, <1>6, <1>7, <1>8
      <4> HIDE DEF c
      <4>5. Epoch(t)' <= c + clock'[t] + 0
        BY <1>2, <1>4, <1>6, <4>1, <4>3, <4>4 DEF c
      <4> QED
        BY <1>2, <3>2, <4>2, <4>4, <4>5 DEF c
    <3> QED
      BY <3>1, <3>2
  <2>2. /\ clock'[InitialTask] <= M
        /\ status'[InitialTask] = "forked" => clock'[InitialTask] < M
        /\ Offset(label'[InitialTask], 1) <= clock'[InitialTask] * (M + 1)
    <3>1. status[InitialTask] = "forked"
      BY <1>3, <1>4, <1>8
    <3> QED
      BY <1>1, <1>8, <3>1 DEF TaskBounds
  <2> QED
    BY <1>4, <2>1, <2>2 DEF TaskBounds
<1>23. ASSUME NEW u \in Lower, status'[u] = "ended" PROVE FALSE
  <2>1. u # t /\ status[u] = "ended" /\ u \in Tasks
    BY <1>2, <1>3, <1>4, <1>23
  <2>2. Live(u) /\ u[1][1] = t[1][1]
    BY <1>1, <1>2, <1>4, <2>1 DEF Live, TaskEpochs
  <2>3. Len(u) = 1
    <3>1. ~(Len(u) > 1) /\ Len(u) \in Nat \ {0}
      BY <1>1, <1>6, <2>1 DEF TaskTyped
    <3>2. \A n \in Nat \ {0} : ~(n > 1) => n = 1
      OBVIOUS
    <3> QED
      BY <3>1, <3>2, Zenon
  <2> QED
    BY <1>1, <1>2, <1>4, <2>1, <2>2, <2>3 DEF TaskEnds
<1>24. TaskEnds'
  <2>1. ASSUME NEW v \in Lower, NEW u \in Lower, Live(v)', v # u, v[1][1] = u[1][1], Len(u) = 1
        PROVE  status'[u] # "ended" /\ (status'[u] = "over" => status'[v] = "ended")
    <3>1. status[u] # "over" \/ status[v] = "ended"
      BY <1>1, <1>6, <2>1 DEF TaskEnds
    <3>2. status'[u] # "over"
      <4>1. CASE u = t
        BY <1>2, <4>1
      <4>2. CASE u # t /\ status[v] = "ended"
        <5>1. v # t
          BY <1>2, <4>2
        <5> QED
          BY <1>3, <1>4, <1>23, <4>2, <5>1
      <4>3. CASE u # t /\ status[u] # "over"
        BY <1>3, <1>4, <4>3
      <4> QED
        BY <3>1, <4>1, <4>2, <4>3
    <3> QED
      BY <1>23, <3>2
  <2> QED
    BY <1>4, <1>23, <2>1 DEF TaskEnds
<1>25. TaskMarks'
  <2>1. ASSUME NEW s \in Stretches', NEW i \in 2..Len(s[1]), Waited(recorded'[s], i)
        PROVE  status'[SubSeq(s[1], 1, i)] = "over"
    <3>1. s \in Stretches
      BY <1>12, <1>14, <2>1
    <3>2. status[SubSeq(s[1], 1, i)] = "over"
      BY <1>1, <1>5, <2>1, <3>1 DEF TaskMarks
    <3>3. SubSeq(s[1], 1, i) \in Tasks
      <4>1. i \in 0..Len(s[1])
        BY <1>5, <3>1
      <4> QED
        BY <1>1, <1>5, <3>1, <4>1 DEF TaskTree
    <3> QED
      BY <1>2, <1>3, <3>2, <3>3
  <2>2. ASSUME NEW v \in Lower PROVE ~Waited(Now(v)', Own(v))
    <3>1. ~Waited(Now(v), Own(v))
      BY <1>1 DEF TaskMarks
    <3>2. CASE v = t
      BY <1>6, <1>7, <3>1, <3>2 DEF Waited
    <3>3. CASE v # t
      BY <1>6, <3>1, <3>3
    <3> QED
      BY <3>2, <3>3
  <2>3. ASSUME NEW v \in Lower, Len(v) > 1, Live(v)', NEW d \in 0..clock'[Front(v)]
        PROVE  Waits(At(Front(v), d)', Len(v)) <= Waits(Now(v)', Len(v))
    <3>1. v # t /\ Live(v) /\ Now(v)' = Now(v)
      <4>1. v # t
        <5>1. \A n : n = 1 => ~(n > 1)
          OBVIOUS
        <5> QED
          BY <1>2, <2>3, <5>1, Zenon
      <4> QED
        BY <1>6, <2>3, <4>1
    <3>2. \A e \in 0..clock[Front(v)] : Waits(At(Front(v), e), Len(v)) <= Waits(Now(v), Len(v))
      BY <1>1, <2>3, <3>1 DEF TaskMarks
    <3>3. Front(v) \in Lower /\ Len(v) = Len(Front(v)) + 1
      <4>1. /\ Front(v) = SubSeq(v, 1, Len(v) - 1) /\ v \in TaskPaths /\ Len(v) - 1 \in 0..Len(v) /\ Len(v) - 1 # 0
            /\ Len(v) \in Nat
        <5>1. v \in TaskPaths /\ Len(v) \in Nat
          BY <1>1, <1>6, <2>3 DEF TaskTree, TaskPaths
        <5>2. Len(v) > 1
          BY <2>3
        <5>3. \A n \in Nat : n > 1 => n - 1 \in 0..n /\ n - 1 # 0
          OBVIOUS
        <5>4. Len(v) - 1 \in 0..Len(v) /\ Len(v) - 1 # 0
          BY <5>1, <5>2, <5>3
        <5>5. Front(v) = SubSeq(v, 1, Len(v) - 1)
          BY DEF Front
        <5> QED
          BY <5>1, <5>4, <5>5
      <4>2. Front(v) \in Tasks /\ Front(v) # InitialTask /\ Len(Front(v)) = Len(v) - 1
        <5> DEFINE k == Len(v) - 1
        <5>1. v \in TaskPaths /\ k \in 0..Len(v) /\ k # 0 /\ Front(v) = SubSeq(v, 1, k)
          BY <4>1
        <5>2. v \in Tasks
          BY <2>3 DEF Lower
        <5> HIDE DEF k
        <5>3. SubSeq(v, 1, k) \in Tasks
          BY <1>1, <5>1, <5>2 DEF TaskTree
        <5>4. SubSeq(v, 1, k) # InitialTask /\ Len(SubSeq(v, 1, k)) = k
          BY <5>1, PathTo
        <5> QED
          BY <5>1, <5>3, <5>4 DEF k
      <4>3. Len(v) = Len(v) - 1 + 1
        BY <4>1
      <4> QED
        BY <1>4, <4>2, <4>3
    <3>4. CASE d \in 0..clock[Front(v)]
      BY <1>10, <3>1, <3>2, <3>3, <3>4
    <3>5. CASE d \notin 0..clock[Front(v)]
      <4>1. Front(v) = t
        BY <1>3, <1>4, <2>3, <3>3, <3>5
      <4>2. d = clock[t] + 1 /\ Len(v) = 2 /\ clock[t] \in 0..clock[t]
        <5>1. d \in 0..clock[t] + 1 /\ d \notin 0..clock[t] /\ clock[t] \in Nat
          BY <1>4, <2>3, <3>5, <4>1
        <5>2. Len(v) = 1 + 1
          BY <1>2, <3>3, <4>1
        <5> QED
          BY <5>1, <5>2
      <4>3. Waits(At(t, d)', 2) = Waits(At(t, clock[t]), 2)
        <5>1. At(t, d)' = b
          BY <1>11, <4>2
        <5> QED
          BY <1>2, <1>7, <5>1 DEF Waits
      <4> QED
        BY <3>1, <3>2, <4>1, <4>2, <4>3
    <3> QED
      BY <3>4, <3>5
  <2> QED
    BY <1>4, <2>1, <2>2, <2>3 DEF TaskMarks
<1>26. ASSUME NEW s \in Stretches', NEW j \in 1..Len(s[1]) - 1 PROVE s \in Stretches
  BY <1>13, <1>14, <1>26
<1>27. ASSUME NEW s \in Stretches, NEW v \in Lower, NEW j \in 1..Len(s[1]) - 1
       PROVE  Joined(s, v, j)' <=> Joined(s, v, j)
  <2>1. CASE v # t
    BY <1>5, <1>6, <2>1 DEF Joined
  <2>2. CASE v = t
    <3>1. CASE j = 1
      <4>1. Waits(Now(t)', 1 + 1) = Waits(Now(t), 1 + 1)
        <5>1. 1 + 1 = 2
          OBVIOUS
        <5> QED
          BY <1>4, <1>6, <5>1 DEF Waits
      <4> QED
        BY <1>5, <2>2, <3>1, <4>1 DEF Joined
    <3>2. CASE j # 1
      <4>1. ~(j <= Len(t))
        BY <1>2, <1>5, <3>2
      <4> QED
        BY <2>2, <4>1 DEF Joined
    <3> QED
      BY <3>1, <3>2
  <2> QED
    BY <2>1, <2>2
<1>28. TaskChain'
  <2>1. ASSUME NEW s \in Stretches', NEW j \in 1..Len(s[1]) - 1, Chain(s, j + 1)'
        PROVE  s \in past'[SubSeq(s[1], 1, j)]
    <3>1. s \in Stretches /\ recorded'[s] = recorded[s]
      BY <1>5, <1>26
    <3>2. Chain(s, j + 1)
      BY <2>1, <3>1 DEF Chain
    <3>3. s \in past[SubSeq(s[1], 1, j)]
      BY <1>1, <3>1, <3>2 DEF TaskChain
    <3>4. j \in 0..Len(s[1])
      BY <1>5, <3>1
    <3>5. SubSeq(s[1], 1, j) \in Tasks
      BY <1>1, <1>5, <3>1, <3>4 DEF TaskTree
    <3> QED
      BY <1>3, <3>3, <3>5
  <2> QED
    BY <2>1 DEF TaskChain
<1>29. TaskWaited'
  <2>1. ASSUME NEW s \in Stretches', NEW v \in Lower, NEW j \in 1..Len(s[1]) - 1,
               Live(v)', Joined(s, v, j)', Chain(s, j + 2)'
        PROVE  s \in past'[v]
    <3>1. s \in Stretches /\ recorded'[s] = recorded[s]
      BY <1>5, <1>26
    <3>2. Chain(s, j + 2) /\ Joined(s, v, j) /\ Live(v)
      BY <1>6, <1>27, <2>1, <3>1 DEF Chain
    <3>3. s \in past[v]
      BY <1>1, <3>1, <3>2 DEF TaskWaited
    <3> QED
      BY <1>3, <1>4, <3>3
  <2> QED
    BY <1>4, <2>1 DEF TaskWaited
<1>30. TaskLineage'
  <2>1. ASSUME NEW s \in Stretches', NEW v \in Lower, Live(v)', Lineage(s, v)' PROVE s \in past'[v]
    <3>1. Live(v)
      BY <1>6, <2>1
    <3>2. CASE s \in Stretches /\ Lineage(s, v)
      BY <1>1, <1>3, <1>4, <3>1, <3>2 DEF TaskLineage
    <3>3. CASE s \in Stretches /\ ~Lineage(s, v)
      <4>1. s[1] = v /\ s[2] < clock'[v] /\ ~(s[2] < clock[v])
        BY <2>1, <3>3 DEF Lineage
      <4>2. s[2] \in 0..clock[v] /\ s = <<s[1], s[2]>>
        BY <3>3, <4>1, StretchIs
      <4>3. v = t
        BY <1>3, <1>4, <4>1
      <4>4. s = Stretch(t)
        BY <1>4, <1>7, <4>1, <4>2, <4>3
      <4>5. s \in past[t]
        BY <1>1, <1>2, <1>4, <1>7, <3>3, <4>4 DEF TaskEpochs
      <4> QED
        BY <1>3, <1>4, <4>3, <4>5
    <3>4. CASE s = new
      <4>1. s[1] = t /\ s[2] = clock[t] + 1 /\ clock[t] \in Nat
        BY <1>4, <3>4
      <4>2. CASE t = v /\ s[2] < clock'[v]
        BY <1>4, <4>1, <4>2
      <4>3. CASE Below(t, v) /\ s[2] <= v[Len(t) + 1][1]
        <5>1. v[Len(t) + 1][1] < clock[t] /\ v[Len(t) + 1][1] \in Nat
          BY <1>1, <1>4, <4>3, BelowBefore
        <5> QED
          BY <4>1, <4>3, <5>1
      <4> QED
        BY <2>1, <4>1, <4>2, <4>3 DEF Lineage
    <3> QED
      BY <1>4, <3>2, <3>3, <3>4
  <2>2. ASSUME NEW v \in Lower', Len(v) > 1, NEW n \in 0..clock'[v] - 1 PROVE <<v, n>> \in past'[v]
    <3>1. v \in Lower /\ v # t
      <4>1. \A k : k = 1 => ~(k > 1)
        OBVIOUS
      <4> QED
        BY <1>2, <1>4, <2>2, <4>1, Zenon
    <3>2. past'[v] = past[v] /\ clock'[v] = clock[v]
      BY <1>3, <1>4, <3>1
    <3> QED
      BY <1>1, <2>2, <3>1, <3>2 DEF TaskLineage
  <2> QED
    BY <1>4, <2>1, <2>2 DEF TaskLineage
<1>31. TaskPast'
  <2>1. ASSUME NEW v \in Lower, Live(v)' \/ Len(v) > 1, NEW s \in past'[v] \cap Stretches'
        PROVE  \/ Offset(recorded'[s], 1) < Epoch(v)'
               \/ Lineage(s, v)'
               \/ \E j \in 1..Len(s[1]) - 1 : Joined(s, v, j)'
    <3>1. s \in past[v] /\ s \in Stretches
      <4>1. s \in past[v] /\ v \in Tasks
        BY <1>3, <1>4
      <4>2. s \in {InitialTask} \X Nat \/ s \in Stretches
        BY <1>1, <4>1 DEF TaskTyped
      <4>3. s \notin {InitialTask} \X Nat
        BY <1>4, <1>5
      <4> QED
        BY <4>1, <4>2, <4>3
    <3>2. \/ Offset(recorded[s], 1) < Epoch(v)
          \/ Lineage(s, v)
          \/ \E j \in 1..Len(s[1]) - 1 : Joined(s, v, j)
      BY <1>1, <1>6, <2>1, <3>1 DEF TaskPast
    <3>3. Lineage(s, v) => Lineage(s, v)'
      <4>1. s[1] = v => s[2] \in Nat
        BY <1>1, <3>1, OfStretch
      <4>2. clock[v] \in Nat /\ clock'[v] \in Nat /\ clock[v] <= clock'[v]
        BY <1>4
      <4> QED
        BY <4>1, <4>2 DEF Lineage
    <3> QED
      BY <1>5, <1>6, <1>27, <3>1, <3>2, <3>3
  <2> QED
    BY <1>4, <2>1 DEF TaskPast
<1> QED
  BY <1>15, <1>16, <1>17, <1>18, <1>19, <1>20, <1>21, <1>22, <1>24, <1>25, <1>28, <1>29, <1>30, <1>31 DEF TaskInv

-----------------------------------------------------------------------------
(* The labels of a task that creates or waits                               *)

\* A label whose last segment is another
LEMMA LastChanged ==
  ASSUME NEW t \in TaskPaths, Len(t) \in Nat \ {0}, NEW l, TaskLabel(t, l), NEW seg \in TaskSegment,
         seg.value.type = l[Own(t)].value.type, seg.value.offset = l[Own(t)].value.offset,
         seg.value.span = l[Own(t)].value.span, seg.obj[1] = t
  PROVE  LET b == Append(Front(l), seg)
         IN  /\ TaskLabel(t, b) /\ b[Own(t)] = seg
             /\ \A i \in 1..Len(t) : b[i] = l[i]
<1> DEFINE b == Append(Front(l), seg)
<1>1. l \in Seq(TaskSegment) /\ Len(l) = Len(t) + 1 /\ l # <<>> /\ Own(t) = Len(t) + 1
  <2>1. l \in Seq(TaskSegment) /\ Len(l) = Len(t) + 1
    BY DEF TaskLabel
  <2>2. l # <<>>
    BY <2>1
  <2> QED
    BY <2>1, <2>2 DEF Own
<1>2. /\ Front(l) \in Seq(TaskSegment) /\ Len(Front(l)) = Len(t)
      /\ \A i \in 1..Len(t) : Front(l)[i] = l[i]
  <2>1. /\ Front(l) \in Seq(TaskSegment) /\ Len(Front(l)) = Len(l) - 1
        /\ \A i \in 1..Len(l) - 1 : Front(l)[i] = l[i]
    BY <1>1, FrontOf
  <2>2. Len(l) - 1 = Len(t)
    BY <1>1
  <2> QED
    BY <2>1, <2>2
<1>3. /\ b \in Seq(TaskSegment) /\ Len(b) = Len(t) + 1 /\ b[Own(t)] = seg
      /\ \A i \in 1..Len(t) : b[i] = l[i]
  <2>1. ASSUME NEW f \in Seq(TaskSegment)
        PROVE  /\ Append(f, seg) \in Seq(TaskSegment) /\ Len(Append(f, seg)) = Len(f) + 1
               /\ Append(f, seg)[Len(f) + 1] = seg
               /\ \A i \in 1..Len(f) : Append(f, seg)[i] = f[i]
    BY Extended
  <2> HIDE DEF b
  <2>2. /\ b \in Seq(TaskSegment) /\ Len(b) = Len(Front(l)) + 1 /\ b[Len(Front(l)) + 1] = seg
        /\ \A i \in 1..Len(Front(l)) : b[i] = Front(l)[i]
    BY <1>2, <2>1 DEF b
  <2> QED
    BY <1>1, <1>2, <2>2
<1> HIDE DEF b
<1>4. \A i \in 1..Len(b) : i \in 1..Len(t) \/ i = Own(t)
  BY <1>1, <1>3
<1>5. 1 \in 1..Len(t) /\ FirstSegment(b[1])
  BY <1>3 DEF TaskLabel
<1>6. ASSUME NEW i \in 2..Len(b)
      PROVE  /\ b[i].value.type = l[i].value.type /\ b[i].value.offset = l[i].value.offset
             /\ b[i].value.span = l[i].value.span /\ b[i].obj[1] = SubSeq(t, 1, i - 1)
  <2>1. i \in 2..Len(l) /\ i \in 1..Len(b)
    BY <1>1, <1>3
  <2>2. l[i].obj[1] = SubSeq(t, 1, i - 1)
    BY <2>1 DEF TaskLabel
  <2>3. CASE i \in 1..Len(t)
    BY <1>3, <2>2, <2>3
  <2>4. CASE i = Own(t)
    <3>1. i - 1 = Len(t) /\ Len(t) \in 0..Len(t)
      BY <1>1, <2>4
    <3>2. SubSeq(t, 1, i - 1) = t
      BY <3>1, PathTo
    <3> QED
      BY <1>3, <2>4, <3>2
  <2> QED
    BY <1>4, <2>1, <2>3, <2>4
<1>7. Type(b[2]) = "eImplicit" /\ Offset(b, 2) = t[1][2] /\ Offset(b, 2) < Span(b, 2)
  <2>1. 2 \in 2..Len(b)
    BY <1>3
  <2>2. Type(l[2]) = "eImplicit" /\ Offset(l, 2) = t[1][2] /\ Offset(l, 2) < Span(l, 2)
    BY DEF TaskLabel
  <2> QED
    BY <1>6, <2>1, <2>2 DEF Type, Offset, Span
<1>8. ASSUME NEW i \in 3..Len(b) PROVE Type(b[i]) = "eExplicit" /\ Span(b, i) = 1 /\ Offset(b, i) = 0
  <2>1. i \in 2..Len(b) /\ i \in 3..Len(l)
    BY <1>1, <1>3
  <2>2. Type(l[i]) = "eExplicit" /\ Span(l, i) = 1 /\ Offset(l, i) = 0
    BY <2>1 DEF TaskLabel
  <2> QED
    BY <1>6, <2>1, <2>2 DEF Type, Offset, Span
<1>9. TaskLabel(t, b)
  BY <1>3, <1>5, <1>6, <1>7, <1>8 DEF TaskLabel
<1> QED
  BY <1>3, <1>9 DEF b

\* The label of a task that has created another
LEMMA CreateLabel ==
  ASSUME NEW t \in TaskPaths, Len(t) \in Nat \ {0}, NEW l, TaskLabel(t, l), NEW x \in TaskPaths \X Nat, x[1] = t
  PROVE  LET b == mutateParentTaskCreate(l, x)
         IN  /\ TaskLabel(t, b) /\ (\A i \in 1..Len(t) : b[i] = l[i])
             /\ Creates(b, Own(t)) = Creates(l, Own(t)) + 1 /\ Waits(b, Own(t)) = Waits(l, Own(t))
             /\ b[Own(t)].obj = x /\ Waited(b, Own(t)) = Waited(l, Own(t)) /\ Span(b, Own(t)) = Span(l, Own(t))
<1> DEFINE old == l[Own(t)]
           n == old.value.taskcreate + 1
           v == [old.value EXCEPT !.taskcreate = n]
           seg == [old EXCEPT !.value = v, !.obj = x]
           b == mutateParentTaskCreate(l, x)
<1>1. old \in TaskSegment /\ old.value \in TaskValue /\ n \in Nat /\ Last(l) = old
  <2>1. Own(t) \in 1..Len(t) + 1 /\ Own(t) = Len(t) + 1
    BY DEF Own
  <2>2. old \in TaskSegment /\ Creates(l, Own(t)) \in Nat /\ Len(l) = Len(t) + 1
    BY <2>1, OfLabel
  <2>3. Last(l) = old
    BY <2>1, <2>2 DEF Last
  <2>4. old.value \in TaskValue
    BY <2>2, OfSegment
  <2>5. old.value.taskcreate \in Nat
    BY <2>2 DEF Creates
  <2> HIDE DEF old
  <2>6. n \in Nat
    BY <2>5
  <2> QED
    BY <2>2, <2>3, <2>4, <2>6
<1>2. b = Append(Front(l), [old EXCEPT !.value.taskcreate = @ + 1, !.obj = x])
  BY <1>1 DEF mutateParentTaskCreate
<1>3. [old EXCEPT !.value.taskcreate = @ + 1, !.obj = x] = seg
  OBVIOUS
<1> HIDE DEF b, n, old
<1>4. /\ v \in TaskValue /\ v.taskcreate = n /\ v.taskwait = old.value.taskwait
      /\ v.taskwaited = old.value.taskwaited
      /\ v.type = old.value.type /\ v.offset = old.value.offset /\ v.span = old.value.span
  BY <1>1 DEF TaskValue
<1> HIDE DEF v
<1>5. seg \in TaskSegment /\ seg.value = v /\ seg.obj = x
  BY <1>1, <1>4 DEF TaskSegment
<1>6. b = Append(Front(l), seg)
  BY <1>2, <1>3
<1> HIDE DEF seg
<1>7. TaskLabel(t, b) /\ b[Own(t)] = seg /\ \A i \in 1..Len(t) : b[i] = l[i]
  <2>1. /\ seg \in TaskSegment /\ seg.value.type = l[Own(t)].value.type
        /\ seg.value.offset = l[Own(t)].value.offset
        /\ seg.value.span = l[Own(t)].value.span /\ seg.obj[1] = t
    BY <1>4, <1>5 DEF old
  <2> QED
    BY <1>6, <2>1, LastChanged
<1> QED
  BY <1>4, <1>5, <1>7 DEF b, n, old, Waits, Creates, Waited, Span

\* The label of a task that has waited
LEMMA WaitLabel ==
  ASSUME NEW t \in TaskPaths, Len(t) \in Nat \ {0}, NEW l, TaskLabel(t, l), NEW x \in TaskPaths \X Nat, x[1] = t
  PROVE  LET b == mutateTaskWait(l, x)
         IN  /\ TaskLabel(t, b) /\ (\A i \in 1..Len(t) : b[i] = l[i])
             /\ Waits(b, Own(t)) = Waits(l, Own(t)) + 1 /\ Creates(b, Own(t)) = Creates(l, Own(t))
             /\ b[Own(t)].obj = x /\ Waited(b, Own(t)) = Waited(l, Own(t)) /\ Span(b, Own(t)) = Span(l, Own(t))
<1> DEFINE old == l[Own(t)]
           n == old.value.taskwait + 1
           v == [old.value EXCEPT !.taskwait = n]
           seg == [old EXCEPT !.value = v, !.obj = x]
           b == mutateTaskWait(l, x)
<1>1. old \in TaskSegment /\ old.value \in TaskValue /\ n \in Nat /\ Last(l) = old
  <2>1. Own(t) \in 1..Len(t) + 1 /\ Own(t) = Len(t) + 1
    BY DEF Own
  <2>2. old \in TaskSegment /\ Waits(l, Own(t)) \in Nat /\ Len(l) = Len(t) + 1
    BY <2>1, OfLabel
  <2>3. Last(l) = old
    BY <2>1, <2>2 DEF Last
  <2>4. old.value \in TaskValue
    BY <2>2, OfSegment
  <2>5. old.value.taskwait \in Nat
    BY <2>2 DEF Waits
  <2> HIDE DEF old
  <2>6. n \in Nat
    BY <2>5
  <2> QED
    BY <2>2, <2>3, <2>4, <2>6
<1>2. b = Append(Front(l), [old EXCEPT !.value.taskwait = @ + 1, !.obj = x])
  BY <1>1 DEF mutateTaskWait
<1>3. [old EXCEPT !.value.taskwait = @ + 1, !.obj = x] = seg
  OBVIOUS
<1> HIDE DEF b, n, old
<1>4. /\ v \in TaskValue /\ v.taskwait = n /\ v.taskcreate = old.value.taskcreate
      /\ v.taskwaited = old.value.taskwaited
      /\ v.type = old.value.type /\ v.offset = old.value.offset /\ v.span = old.value.span
  BY <1>1 DEF TaskValue
<1> HIDE DEF v
<1>5. seg \in TaskSegment /\ seg.value = v /\ seg.obj = x
  BY <1>1, <1>4 DEF TaskSegment
<1>6. b = Append(Front(l), seg)
  BY <1>2, <1>3
<1> HIDE DEF seg
<1>7. TaskLabel(t, b) /\ b[Own(t)] = seg /\ \A i \in 1..Len(t) : b[i] = l[i]
  <2>1. /\ seg \in TaskSegment /\ seg.value.type = l[Own(t)].value.type
        /\ seg.value.offset = l[Own(t)].value.offset
        /\ seg.value.span = l[Own(t)].value.span /\ seg.obj[1] = t
    BY <1>4, <1>5 DEF old
  <2> QED
    BY <1>6, <2>1, LastChanged
<1> QED
  BY <1>4, <1>5, <1>7 DEF b, n, old, Waits, Creates, Waited, Span

\* Task u is the one that t creates in its stretch c, under label l, and b is its
\* first label.
FirstOf(t, l, c, u, b) ==
  /\ u \in TaskPaths /\ Len(u) = Len(t) + 1 /\ u[Len(u)] = <<c, NoIndex>>
  /\ \A i \in 1..Len(t) : u[i] = t[i]
  /\ SubSeq(u, 1, Len(t)) = t /\ Front(u) = t
  /\ TaskLabel(u, b) /\ b[Own(u)].obj = <<u, 0>>
  /\ ~Waited(b, Own(u)) /\ Waits(b, Own(u)) = 0
  /\ \A i \in 1..Own(t) : b[i] = l[i]

\* The first label of an explicit task
LEMMA ChildLabel ==
  ASSUME NEW t \in TaskPaths, Len(t) \in Nat \ {0}, NEW l, TaskLabel(t, l), NEW c \in Nat
  PROVE  LET u == Append(t, <<c, NoIndex>>)
         IN  FirstOf(t, l, c, u, genExpTaskLabel(l, <<u, 0>>))
<1> DEFINE e == <<c, NoIndex>>
           u == Append(t, e)
           b == genExpTaskLabel(l, <<u, 0>>)
           seg == BaseSegment("eExplicit", 0, 1, <<u, 0>>)
<1>1. e \in Nat \X Int
  BY DEF NoIndex
<1> HIDE DEF e
<1>2. /\ u \in TaskPaths /\ Len(u) = Len(t) + 1 /\ u[Len(u)] = e /\ u # <<>>
      /\ \A i \in 1..Len(t) : u[i] = t[i]
  BY <1>1, PathAdded
<1> HIDE DEF u
<1>3. SubSeq(u, 1, Len(t)) = t /\ Front(u) = t
  <2>1. Len(t) <= Len(u) /\ SamePath(t, u, Len(t)) /\ Len(t) = Len(u) - 1
    BY <1>2 DEF SamePath
  <2>2. SubSeq(u, 1, Len(t)) = t
    BY <1>2, <2>1, IsPathTo
  <2>3. Front(u) = SubSeq(u, 1, Len(u) - 1)
    BY DEF Front
  <2> QED
    BY <2>1, <2>2, <2>3
<1>4. /\ seg \in TaskSegment /\ seg.obj = <<u, 0>> /\ seg.value.type = "eExplicit" /\ seg.value.offset = 0
      /\ seg.value.span = 1 /\ seg.value.taskwait = 0 /\ ~seg.value.taskwaited
  <2>1. <<u, 0>> \in TaskPaths \X Nat /\ 0 \in 0..OffsetLimit-1 /\ 1 \in Nat
    BY <1>2, OffsetLimitAssumption
  <2> QED
    BY <2>1, NewSegment
<1>5. b = Append(l, seg)
  BY DEF genExpTaskLabel
<1> HIDE DEF seg, b
<1>6. l \in Seq(TaskSegment) /\ Len(l) = Len(t) + 1 /\ Own(t) = Len(t) + 1 /\ Own(u) = Len(t) + 2
  BY <1>2 DEF TaskLabel, Own
<1>7. /\ b \in Seq(TaskSegment) /\ Len(b) = Len(t) + 2 /\ b[Own(u)] = seg
      /\ \A i \in 1..Own(t) : b[i] = l[i]
  <2>1. /\ Append(l, seg) \in Seq(TaskSegment) /\ Len(Append(l, seg)) = Len(l) + 1
        /\ Append(l, seg)[Len(l) + 1] = seg
        /\ \A i \in 1..Len(l) : Append(l, seg)[i] = l[i]
    BY <1>4, <1>6, Extended
  <2>2. Len(l) + 1 = Len(t) + 2 /\ Len(l) = Own(t) /\ Len(l) + 1 = Own(u)
    BY <1>6
  <2> QED
    BY <1>5, <2>1, <2>2
<1>8. \A i \in 1..Len(b) : i \in 1..Len(l) \/ i = Own(u)
  BY <1>6, <1>7
<1>9. FirstSegment(b[1]) /\ Type(b[2]) = "eImplicit" /\ Offset(b, 2) = u[1][2] /\ Offset(b, 2) < Span(b, 2)
  <2>1. 1 \in 1..Own(t) /\ 2 \in 1..Own(t) /\ 1 \in 1..Len(t)
    BY <1>6
  <2> QED
    BY <1>2, <1>7, <2>1 DEF TaskLabel, Type, Offset, Span
<1>10. ASSUME NEW i \in 3..Len(b) PROVE Type(b[i]) = "eExplicit" /\ Span(b, i) = 1 /\ Offset(b, i) = 0
  <2>1. i \in 1..Len(b)
    BY <1>7
  <2>2. CASE i = Own(u)
    BY <1>4, <1>7, <2>2 DEF Type, Span, Offset
  <2>3. CASE i \in 1..Len(l)
    <3>1. i \in 3..Len(l) /\ i \in 1..Own(t)
      BY <1>6, <2>3
    <3>2. Type(l[i]) = "eExplicit" /\ Span(l, i) = 1 /\ Offset(l, i) = 0
      BY <3>1 DEF TaskLabel
    <3> QED
      BY <1>7, <3>1, <3>2 DEF Type, Span, Offset
  <2> QED
    BY <1>8, <2>1, <2>2, <2>3
<1>11. ASSUME NEW i \in 2..Len(b) PROVE b[i].obj[1] = SubSeq(u, 1, i - 1)
  <2>1. i \in 1..Len(b)
    BY <1>7
  <2>2. CASE i = Own(u)
    <3>1. i - 1 = Len(u) /\ Len(u) \in 0..Len(u)
      BY <1>2, <1>6, <2>2
    <3>2. SubSeq(u, 1, i - 1) = u
      BY <1>2, <3>1, PathTo
    <3> QED
      BY <1>4, <1>7, <2>2, <3>2
  <2>3. CASE i \in 1..Len(l)
    <3>1. i \in 2..Len(l) /\ i \in 1..Own(t)
      BY <1>6, <2>3
    <3>2. l[i].obj[1] = SubSeq(t, 1, i - 1)
      BY <3>1 DEF TaskLabel
    <3>3. SubSeq(t, 1, i - 1) = SubSeq(u, 1, i - 1)
      <4>1. Len(t) \in 0..Len(u) /\ i - 1 \in 0..Len(t)
        BY <1>2, <1>6, <3>1
      <4> QED
        BY <1>2, <1>3, <4>1, PathToPath
    <3> QED
      BY <1>7, <3>1, <3>2, <3>3
  <2> QED
    BY <1>8, <2>1, <2>2, <2>3
<1>12. TaskLabel(u, b)
  BY <1>2, <1>7, <1>9, <1>10, <1>11 DEF TaskLabel
<1>13. /\ u \in TaskPaths /\ Len(u) = Len(t) + 1 /\ u[Len(u)] = <<c, NoIndex>>
       /\ \A i \in 1..Len(t) : u[i] = t[i]
       /\ SubSeq(u, 1, Len(t)) = t /\ Front(u) = t
       /\ TaskLabel(u, b) /\ b[Own(u)].obj = <<u, 0>>
       /\ ~Waited(b, Own(u)) /\ Waits(b, Own(u)) = 0
       /\ \A i \in 1..Own(t) : b[i] = l[i]
  BY <1>2, <1>3, <1>4, <1>7, <1>12 DEF e, Waited, Waits
<1>14. FirstOf(t, l, c, u, b)
  BY <1>13 DEF FirstOf
<1> QED
  BY <1>14 DEF u, b, e

-----------------------------------------------------------------------------
(* A task creates another                                                   *)

\* Task t creates task u and goes on.
Spawns(t, u, M) ==
  /\ Grows(t, {u}) /\ app' = app /\ edges' = edges
  /\ status[t] = "running" /\ clock[t] < M /\ Len(u) + 1 <= Len(MaxSteps)
  /\ u \in TaskPaths /\ Len(u) = Len(t) + 1 /\ u[Len(u)] = <<clock[t], NoIndex>> /\ Front(u) = t
  /\ SubSeq(u, 1, Len(t)) = t /\ \A i \in 1..Len(t) : u[i] = t[i]
  /\ \A d \in {DOMAIN status', DOMAIN clock', DOMAIN groups', DOMAIN past', DOMAIN children'} : d = Tasks'
  /\ \A v \in Tasks : /\ status'[v] = status[v] /\ groups'[v] = groups[v]
                      /\ v # t => label'[v] = label[v] /\ past'[v] = past[v] /\ children'[v] = children[v]
  /\ status'[u] = "running" /\ groups'[u] = <<>> /\ children'[u] = {} /\ children'[t] = children[t] \cup {u}
  /\ past'[t] = Upto(t) /\ past'[u] = Upto(t)
  /\ DOMAIN recorded' = DOMAIN recorded \cup {NextStretch(t), <<u, 0>>}
  /\ \A s \in DOMAIN recorded : recorded'[s] = recorded[s]
  /\ recorded'[NextStretch(t)] = label'[t] /\ recorded'[<<u, 0>>] = label'[u]
  /\ TaskLabel(t, label'[t]) /\ TaskLabel(u, label'[u])
  /\ \A i \in 1..Len(t) : label'[t][i] = Now(t)[i]
  /\ \A i \in 1..Own(t) : label'[u][i] = Now(t)[i]
  /\ Waits(label'[t], Own(t)) = Waits(Now(t), Own(t)) /\ Creates(label'[t], Own(t)) = Creates(Now(t), Own(t)) + 1
  /\ label'[t][Own(t)].obj = NextStretch(t) /\ ~Waited(label'[t], Own(t))
  /\ Span(label'[t], Own(t)) = Span(Now(t), Own(t))
  /\ label'[u][Own(u)].obj = <<u, 0>> /\ ~Waited(label'[u], Own(u)) /\ Waits(label'[u], Own(u)) = 0

\* TaskCreate does that, as no task has dependences.
LEMMA SpawnsIfTaskCreate ==
  ASSUME NEW M \in Nat, TaskProgram(M), TaskInv(M), NEW t \in Tasks, NEW preds, TaskCreate(t, preds)
  PROVE  Spawns(t, Child(t), M)
<1> DEFINE u == Child(t)
           new == NextStretch(t)
           mutated == mutateParentTaskCreate(label[t], new)
           first == genExpTaskLabel(label[t], <<u, 0>>)
           labels == [label EXCEPT ![t] = mutated]
           lists == [children EXCEPT ![t] = @ \cup {u}]
           clocks == [clock EXCEPT ![t] = @ + 1]
           pasts == [past EXCEPT ![t] = Upto(t)]
<1>1. TaskTyped /\ TaskTree /\ TaskLabels /\ TaskCurrent /\ TaskMarks
  BY DEF TaskInv
<1>2. preds = {} /\ CanCreate(t)
  BY DEF TaskCreate, TaskProgram
<1>3. /\ t \in Lower /\ status[t] = "running" /\ clock[t] < M /\ Live(t) /\ label[t] = Now(t)
      /\ Len(t) + 1 < Len(MaxSteps) /\ t # InitialTask
  <2>1. status[t] = "running" /\ t \in Lower /\ CanStep(t) /\ Len(t) + 1 < Len(MaxSteps) /\ t # InitialTask
    BY <1>2 DEF CanCreate, CanHaveTasks, CanStep, Running, Lower
  <2>2. Live(t) /\ clock[t] < M
    BY <1>1, <2>1, StepBound DEF Live
  <2> QED
    BY <1>1, <2>1, <2>2 DEF TaskCurrent
<1>4. /\ t \in TaskPaths /\ Len(t) \in Nat \ {0} /\ clock[t] \in Nat /\ TaskLabel(t, Now(t))
      /\ new \in TaskPaths \X Nat /\ new[1] = t
  <2>1. t \in TaskPaths /\ Len(t) \in Nat \ {0} /\ clock[t] \in Nat /\ TaskLabel(t, Now(t))
    BY <1>1, <1>3, OfTask, NowIs
  <2> QED
    BY <2>1 DEF NextStretch
<1>5. u = Append(t, <<clock[t], NoIndex>>)
  BY DEF Child
<1>6. u \notin Tasks
  <2>1. clock[t] >= clock[t]
    BY <1>4
  <2> QED
    BY <1>1, <1>3, <1>4, <1>5, <2>1, NotYetCreated
<1>7. /\ TaskLabel(t, mutated) /\ (\A i \in 1..Len(t) : mutated[i] = Now(t)[i])
      /\ Creates(mutated, Own(t)) = Creates(Now(t), Own(t)) + 1 /\ Waits(mutated, Own(t)) = Waits(Now(t), Own(t))
      /\ mutated[Own(t)].obj = new /\ Waited(mutated, Own(t)) = Waited(Now(t), Own(t))
      /\ Span(mutated, Own(t)) = Span(Now(t), Own(t))
  BY <1>3, <1>4, CreateLabel
<1>8. ~Waited(mutated, Own(t))
  BY <1>1, <1>3, <1>7 DEF TaskMarks
<1>9. /\ u \in TaskPaths /\ Len(u) = Len(t) + 1 /\ u[Len(u)] = <<clock[t], NoIndex>>
      /\ (\A i \in 1..Len(t) : u[i] = t[i])
      /\ SubSeq(u, 1, Len(t)) = t /\ Front(u) = t
      /\ TaskLabel(u, first) /\ first[Own(u)].obj = <<u, 0>>
      /\ ~Waited(first, Own(u)) /\ Waits(first, Own(u)) = 0
      /\ \A i \in 1..Own(t) : first[i] = Now(t)[i]
  <2>1. first = genExpTaskLabel(Now(t), <<u, 0>>) /\ u = Append(t, <<clock[t], NoIndex>>)
    BY <1>3, <1>5
  <2>2. LET w == Append(t, <<clock[t], NoIndex>>)
        IN  FirstOf(t, Now(t), clock[t], w, genExpTaskLabel(Now(t), <<w, 0>>))
    BY <1>4, ChildLabel
  <2> HIDE DEF first, u
  <2>3. FirstOf(t, Now(t), clock[t], u, first)
    BY <2>1, <2>2
  <2> QED
    BY <2>3 DEF FirstOf
<1>10. /\ label' = Extend(labels, One(u, first))
       /\ children' = Extend(lists, One(u, {}))
       /\ status' = Extend(status, One(u, "running"))
       /\ clock' = Extend(clocks, One(u, 0))
       /\ past' = Extend(pasts, One(u, Upto(t)))
       /\ recorded' = Extend(Extend(recorded, One(new, mutated)), One(<<u, 0>>, first))
       /\ groups' = Extend(groups, One(u, <<>>))
  BY <1>2 DEF TaskCreate
<1>11. app' = app /\ edges' = edges
  BY <1>2 DEF TaskCreate
<1>12. /\ DOMAIN status = Tasks /\ DOMAIN clock = Tasks /\ DOMAIN groups = Tasks
       /\ DOMAIN past = Tasks /\ DOMAIN children = Tasks /\ DOMAIN label = Tasks /\ DOMAIN recorded = Stretches
  BY <1>1 DEF TaskTyped, Tasks
<1> HIDE DEF u, new, mutated, first
<1>13. /\ DOMAIN labels = Tasks /\ DOMAIN lists = Tasks /\ DOMAIN clocks = Tasks /\ DOMAIN pasts = Tasks
       /\ labels[t] = mutated /\ lists[t] = children[t] \cup {u} /\ clocks[t] = clock[t] + 1 /\ pasts[t] = Upto(t)
       /\ \A v \in Tasks : v # t => /\ labels[v] = label[v] /\ lists[v] = children[v] /\ clocks[v] = clock[v]
                                    /\ pasts[v] = past[v]
  BY <1>12
<1> HIDE DEF labels, lists, clocks, pasts
<1>14. \A f, e : DOMAIN f = Tasks => /\ DOMAIN Extend(f, One(u, e)) = Tasks \cup {u}
                                   /\ Extend(f, One(u, e))[u] = e
                                   /\ \A v \in Tasks : Extend(f, One(u, e))[v] = f[v]
  <2>1. ASSUME NEW f, NEW e, DOMAIN f = Tasks
        PROVE  /\ DOMAIN Extend(f, One(u, e)) = Tasks \cup {u}
               /\ Extend(f, One(u, e))[u] = e
               /\ \A v \in Tasks : Extend(f, One(u, e))[v] = f[v]
    <3>1. DOMAIN One(u, e) = {u} /\ One(u, e)[u] = e
      BY DEF One
    <3>2. DOMAIN f \cap DOMAIN One(u, e) = {}
      BY <1>6, <2>1, <3>1
    <3>3. /\ DOMAIN Extend(f, One(u, e)) = DOMAIN f \cup DOMAIN One(u, e)
          /\ \A x \in DOMAIN One(u, e) : Extend(f, One(u, e))[x] = One(u, e)[x]
          /\ \A x \in DOMAIN f : Extend(f, One(u, e))[x] = f[x]
      BY <3>2, Joining
    <3> QED
      BY <2>1, <3>1, <3>3
  <2> QED
    BY <2>1
<1>15. /\ DOMAIN label' = Tasks \cup {u} /\ label'[u] = first
       /\ \A v \in Tasks : label'[v] = labels[v]
  <2>1. label' = Extend(labels, One(u, first)) /\ DOMAIN labels = Tasks
    BY <1>10, <1>12, <1>13, Zenon
  <2>2. /\ DOMAIN Extend(labels, One(u, first)) = Tasks \cup {u}
        /\ Extend(labels, One(u, first))[u] = first
        /\ \A v \in Tasks : Extend(labels, One(u, first))[v] = labels[v]
    BY <1>14, <2>1
  <2> QED
    BY <2>1, <2>2
<1>16. /\ DOMAIN children' = Tasks \cup {u} /\ children'[u] = {}
       /\ \A v \in Tasks : children'[v] = lists[v]
  <2>1. children' = Extend(lists, One(u, {})) /\ DOMAIN lists = Tasks
    BY <1>10, <1>12, <1>13, Zenon
  <2>2. /\ DOMAIN Extend(lists, One(u, {})) = Tasks \cup {u}
        /\ Extend(lists, One(u, {}))[u] = {}
        /\ \A v \in Tasks : Extend(lists, One(u, {}))[v] = lists[v]
    BY <1>14, <2>1
  <2> QED
    BY <2>1, <2>2
<1>17. /\ DOMAIN status' = Tasks \cup {u} /\ status'[u] = "running"
       /\ \A v \in Tasks : status'[v] = status[v]
  <2>1. status' = Extend(status, One(u, "running")) /\ DOMAIN status = Tasks
    BY <1>10, <1>12, <1>13, Zenon
  <2>2. /\ DOMAIN Extend(status, One(u, "running")) = Tasks \cup {u}
        /\ Extend(status, One(u, "running"))[u] = "running"
        /\ \A v \in Tasks : Extend(status, One(u, "running"))[v] = status[v]
    BY <1>14, <2>1
  <2> QED
    BY <2>1, <2>2
<1>18. /\ DOMAIN clock' = Tasks \cup {u} /\ clock'[u] = 0
       /\ \A v \in Tasks : clock'[v] = clocks[v]
  <2>1. clock' = Extend(clocks, One(u, 0)) /\ DOMAIN clocks = Tasks
    BY <1>10, <1>12, <1>13, Zenon
  <2>2. /\ DOMAIN Extend(clocks, One(u, 0)) = Tasks \cup {u}
        /\ Extend(clocks, One(u, 0))[u] = 0
        /\ \A v \in Tasks : Extend(clocks, One(u, 0))[v] = clocks[v]
    BY <1>14, <2>1
  <2> QED
    BY <2>1, <2>2
<1>19. /\ DOMAIN past' = Tasks \cup {u} /\ past'[u] = Upto(t)
       /\ \A v \in Tasks : past'[v] = pasts[v]
  <2>1. past' = Extend(pasts, One(u, Upto(t))) /\ DOMAIN pasts = Tasks
    BY <1>10, <1>12, <1>13, Zenon
  <2>2. /\ DOMAIN Extend(pasts, One(u, Upto(t))) = Tasks \cup {u}
        /\ Extend(pasts, One(u, Upto(t)))[u] = Upto(t)
        /\ \A v \in Tasks : Extend(pasts, One(u, Upto(t)))[v] = pasts[v]
    BY <1>14, <2>1
  <2> QED
    BY <2>1, <2>2
<1>20. /\ DOMAIN groups' = Tasks \cup {u} /\ groups'[u] = <<>>
       /\ \A v \in Tasks : groups'[v] = groups[v]
  <2>1. groups' = Extend(groups, One(u, <<>>)) /\ DOMAIN groups = Tasks
    BY <1>10, <1>12, <1>13, Zenon
  <2>2. /\ DOMAIN Extend(groups, One(u, <<>>)) = Tasks \cup {u}
        /\ Extend(groups, One(u, <<>>))[u] = <<>>
        /\ \A v \in Tasks : Extend(groups, One(u, <<>>))[v] = groups[v]
    BY <1>14, <2>1, SMTT(25)
  <2> QED
    BY <2>1, <2>2
<1>21. Tasks' = Tasks \cup {u}
  BY <1>15 DEF Tasks
<1>22. Grows(t, {u})
  BY <1>3, <1>6, <1>13, <1>18, <1>21 DEF Grows
<1>23. new \notin Stretches /\ <<u, 0>> \notin Stretches /\ new # <<u, 0>>
  <2>1. new \notin Stretches
    BY <1>1, <1>22, GrowsTo DEF new
  <2>2. <<u, 0>>[1] = u
    OBVIOUS
  <2>3. <<u, 0>> \notin Stretches
    BY <1>1, <1>6, <2>2, OfStretch
  <2> QED
    BY <1>4, <1>6, <2>1, <2>2, <2>3
<1>24. /\ DOMAIN recorded' = DOMAIN recorded \cup {new, <<u, 0>>}
       /\ (\A s \in DOMAIN recorded : recorded'[s] = recorded[s])
       /\ recorded'[new] = mutated /\ recorded'[<<u, 0>>] = first
  <2> DEFINE r == Extend(recorded, One(new, mutated))
  <2>1. /\ DOMAIN One(new, mutated) = {new} /\ One(new, mutated)[new] = mutated
        /\ DOMAIN One(<<u, 0>>, first) = {<<u, 0>>} /\ One(<<u, 0>>, first)[<<u, 0>>] = first
    BY DEF One
  <2>2. DOMAIN recorded \cap DOMAIN One(new, mutated) = {}
    BY <1>12, <1>23, <2>1
  <2>3. /\ DOMAIN r = DOMAIN recorded \cup DOMAIN One(new, mutated)
        /\ \A x \in DOMAIN One(new, mutated) : r[x] = One(new, mutated)[x]
        /\ \A x \in DOMAIN recorded : r[x] = recorded[x]
    BY <2>2, Joining
  <2> HIDE DEF r
  <2>4. DOMAIN r = DOMAIN recorded \cup {new} /\ r[new] = mutated /\ \A x \in DOMAIN recorded : r[x] = recorded[x]
    BY <2>1, <2>3
  <2>5. DOMAIN r \cap DOMAIN One(<<u, 0>>, first) = {}
    BY <1>12, <1>23, <2>1, <2>4
  <2>6. /\ DOMAIN Extend(r, One(<<u, 0>>, first)) = DOMAIN r \cup DOMAIN One(<<u, 0>>, first)
        /\ \A x \in DOMAIN One(<<u, 0>>, first) : Extend(r, One(<<u, 0>>, first))[x] = One(<<u, 0>>, first)[x]
        /\ \A x \in DOMAIN r : Extend(r, One(<<u, 0>>, first))[x] = r[x]
    BY <2>5, Joining
  <2>7. recorded' = Extend(r, One(<<u, 0>>, first))
    BY <1>10 DEF r
  <2> QED
    BY <2>1, <2>4, <2>6, <2>7
<1>25. Len(u) + 1 <= Len(MaxSteps)
  <2>1. MaxSteps \in Seq(Nat)
    BY <1>1, BoundsAssumption DEF TaskTyped, MaxSteps
  <2>2. Len(MaxSteps) \in Nat
    BY <2>1
  <2> QED
    BY <1>3, <1>4, <1>9, <2>2
<1>26. /\ \A d \in {DOMAIN status', DOMAIN clock', DOMAIN groups', DOMAIN past', DOMAIN children'} : d = Tasks'
  BY <1>16, <1>17, <1>18, <1>19, <1>20, <1>21
<1>27. ASSUME NEW v \in Tasks
       PROVE  /\ status'[v] = status[v] /\ groups'[v] = groups[v]
              /\ v # t => label'[v] = label[v] /\ past'[v] = past[v] /\ children'[v] = children[v]
  BY <1>13, <1>15, <1>16, <1>17, <1>19, <1>20
<1>28. label'[t] = mutated /\ past'[t] = Upto(t) /\ children'[t] = children[t] \cup {u}
  BY <1>13, <1>15, <1>16, <1>19
<1>29. Spawns(t, u, M)
  BY <1>3, <1>7, <1>8, <1>9, <1>11, <1>15, <1>16, <1>17, <1>19, <1>20, <1>22, <1>24, <1>25, <1>26, <1>27, <1>28
     DEF Spawns, new
<1> QED
  BY <1>29 DEF u

-----------------------------------------------------------------------------
(* A task goes on after it has created another, or waited                   *)

\* Segment seg after the objects in K have been marked
Marked(seg, K) == IF seg.obj \in K THEN [seg EXCEPT !.value.taskwaited = TRUE] ELSE seg

\* Label m is label l after that.
MarkedLabel(m, l, K) == /\ m \in Seq(TaskSegment) /\ Len(m) = Len(l)
                        /\ \A i \in 1..Len(l) : m[i] = Marked(l[i], K)

\* The explicit tasks that t has created
Kids(t) == {w \in Tasks : Len(w) > 1 /\ Front(w) = t}

\* The labels of t and of the task it creates, u
NextLabel(t, l) == /\ TaskLabel(t, l) /\ l[Own(t)].obj = NextStretch(t) /\ ~Waited(l, Own(t))
                   /\ Span(l, Own(t)) = Span(Now(t), Own(t))
                   /\ \A i \in 1..Len(t) : l[i] = Now(t)[i]
KidLabel(t, u, l) == /\ TaskLabel(u, l) /\ l[Own(u)].obj = <<u, 0>> /\ ~Waited(l, Own(u)) /\ Waits(l, Own(u)) = 0
                     /\ \A i \in 1..Own(t) : l[i] = Now(t)[i]

\* Task u is the one that t creates now.
KidOf(t, u) == /\ u \in TaskPaths /\ Len(u) = Len(t) + 1 /\ u[Len(u)] = <<clock[t], NoIndex>> /\ Front(u) = t
               /\ SubSeq(u, 1, Len(t)) = t /\ Len(u) + 1 <= Len(MaxSteps)
               /\ \A i \in 1..Len(t) : u[i] = t[i]

\* Task t goes on after it has created the tasks in N, or waited for all that it
\* has created, and K are the objects that this marks.
Advances(t, N, K, M) ==
  /\ Grows(t, N) /\ app' = app /\ edges' = edges
  /\ status[t] = "running" /\ clock[t] < M
  /\ \A d \in {DOMAIN status', DOMAIN clock', DOMAIN groups', DOMAIN past', DOMAIN children'} : d = Tasks'
  /\ \A v \in Tasks : /\ status'[v] = status[v] /\ groups'[v] = groups[v]
                      /\ children'[v] \subseteq children[v] \cup (IF v = t THEN N ELSE {})
                      /\ v # t => past'[v] = past[v]
  /\ label'[InitialTask] = label[InitialTask]
  /\ \A v \in Lower : v # t /\ (Live(v) \/ Len(v) > 1) => MarkedLabel(label'[v], label[v], K)
  /\ DOMAIN recorded' = DOMAIN recorded \cup {NextStretch(t)} \cup {<<u, 0>> : u \in N}
  /\ \A s \in Stretches : MarkedLabel(recorded'[s], recorded[s], K)
  /\ \A o \in K : \E s \in Stretches : s[1] = t /\ o = recorded[s][Own(t)].obj
  /\ recorded'[NextStretch(t)] = label'[t] /\ NextLabel(t, label'[t])
  /\ \A u \in N : /\ KidOf(t, u) /\ KidLabel(t, u, label'[u]) /\ recorded'[<<u, 0>>] = label'[u]
                  /\ status'[u] = "running" /\ groups'[u] = <<>> /\ children'[u] = {} /\ past'[u] = Upto(t)
  /\ N # {} => /\ K = {} /\ past'[t] = Upto(t)
               /\ Waits(label'[t], Own(t)) = Waits(Now(t), Own(t))
               /\ Creates(label'[t], Own(t)) = Creates(Now(t), Own(t)) + 1
  /\ N = {} => /\ "taskwait" \in Constructs /\ \A w \in Kids(t) : status[w] = "over"
               /\ past'[t] = Upto(t) \cup UNION {Upto(w) : w \in Kids(t)}
               /\ Waits(label'[t], Own(t)) = Waits(Now(t), Own(t)) + 1
               /\ Creates(label'[t], Own(t)) = Creates(Now(t), Own(t))

\* Marking changes nothing but the mark.
LEMMA MarkedSegment ==
  ASSUME NEW seg \in TaskSegment, NEW K
  PROVE  LET m == Marked(seg, K)
         IN  /\ m \in TaskSegment /\ m.obj = seg.obj
             /\ m.value.type = seg.value.type /\ m.value.offset = seg.value.offset /\ m.value.span = seg.value.span
             /\ m.value.taskwait = seg.value.taskwait /\ m.value.taskcreate = seg.value.taskcreate
             /\ m.value.taskwaited <=> seg.value.taskwaited \/ seg.obj \in K
<1> DEFINE v == [seg.value EXCEPT !.taskwaited = TRUE]
           m == [seg EXCEPT !.value = v]
<1>1. CASE seg.obj \notin K
  BY <1>1 DEF Marked
<1>2. CASE seg.obj \in K
  <2>1. seg.value \in TaskValue
    BY OfSegment
  <2>2. /\ v \in TaskValue /\ v.taskwaited = TRUE /\ v.type = seg.value.type /\ v.offset = seg.value.offset
        /\ v.span = seg.value.span /\ v.taskwait = seg.value.taskwait /\ v.taskcreate = seg.value.taskcreate
    BY <2>1 DEF TaskValue
  <2>3. Marked(seg, K) = m
    BY <1>2 DEF Marked
  <2> HIDE DEF v
  <2>4. m \in TaskSegment /\ m.value = v /\ m.obj = seg.obj
    BY <2>2 DEF TaskSegment
  <2> HIDE DEF m
  <2> QED
    BY <1>2, <2>2, <2>3, <2>4
<1> QED
  BY <1>1, <1>2

\* What the detector reads of label l at position i is what it reads of label m, but
\* for the mark.
SameButMark(l, m, i) == /\ Offset(m, i) = Offset(l, i) /\ Span(m, i) = Span(l, i)
                        /\ Waits(m, i) = Waits(l, i) /\ Creates(m, i) = Creates(l, i)
                        /\ m[i].obj = l[i].obj

\* The label of a task stays one.
LEMMA MarkedIsLabel ==
  ASSUME NEW p, Len(p) \in Nat \ {0}, NEW l, TaskLabel(p, l), NEW K, NEW m, MarkedLabel(m, l, K),
         l[1].obj \notin K
  PROVE  /\ TaskLabel(p, m) /\ m[1] = l[1]
         /\ \A i \in 1..Len(p) + 1 : /\ SameButMark(l, m, i) /\ m[i] = Marked(l[i], K)
                                     /\ Waited(m, i) <=> Waited(l, i) \/ l[i].obj \in K
<1>1. /\ l \in Seq(TaskSegment) /\ Len(l) = Len(p) + 1 /\ m \in Seq(TaskSegment) /\ Len(m) = Len(p) + 1
      /\ \A i \in 1..Len(p) + 1 : m[i] = Marked(l[i], K)
  BY DEF TaskLabel, MarkedLabel
<1>2. ASSUME NEW i \in 1..Len(p) + 1
      PROVE  /\ Type(m[i]) = Type(l[i]) /\ SameButMark(l, m, i)
             /\ Waited(m, i) <=> Waited(l, i) \/ l[i].obj \in K
  <2>1. l[i] \in TaskSegment /\ m[i] = Marked(l[i], K)
    BY <1>1
  <2>2. ASSUME NEW seg \in TaskSegment, m[i] = Marked(seg, K)
        PROVE  /\ m[i].obj = seg.obj
               /\ m[i].value.type = seg.value.type /\ m[i].value.offset = seg.value.offset
               /\ m[i].value.span = seg.value.span
               /\ m[i].value.taskwait = seg.value.taskwait /\ m[i].value.taskcreate = seg.value.taskcreate
               /\ m[i].value.taskwaited <=> seg.value.taskwaited \/ seg.obj \in K
    BY <2>2, MarkedSegment
  <2>3. /\ m[i].obj = l[i].obj
        /\ m[i].value.type = l[i].value.type /\ m[i].value.offset = l[i].value.offset
        /\ m[i].value.span = l[i].value.span
        /\ m[i].value.taskwait = l[i].value.taskwait /\ m[i].value.taskcreate = l[i].value.taskcreate
        /\ m[i].value.taskwaited <=> l[i].value.taskwaited \/ l[i].obj \in K
    BY <2>1, <2>2
  <2> QED
    BY <2>3 DEF SameButMark, Offset, Span, Waits, Creates, Waited, Type
<1>3. m[1] = l[1]
  BY <1>1 DEF Marked
<1>4. /\ FirstSegment(m[1]) /\ Type(m[2]) = "eImplicit" /\ Offset(m, 2) = p[1][2] /\ Offset(m, 2) < Span(m, 2)
  <2>1. 2 \in 1..Len(p) + 1
    OBVIOUS
  <2>2. FirstSegment(l[1]) /\ Type(l[2]) = "eImplicit" /\ Offset(l, 2) = p[1][2] /\ Offset(l, 2) < Span(l, 2)
    BY DEF TaskLabel
  <2> QED
    BY <1>2, <1>3, <2>1, <2>2 DEF SameButMark
<1>5. ASSUME NEW i \in 3..Len(m) PROVE Type(m[i]) = "eExplicit" /\ Span(m, i) = 1 /\ Offset(m, i) = 0
  <2>1. i \in 1..Len(p) + 1 /\ i \in 3..Len(l)
    BY <1>1
  <2>2. Type(l[i]) = "eExplicit" /\ Span(l, i) = 1 /\ Offset(l, i) = 0
    BY <2>1 DEF TaskLabel
  <2> QED
    BY <1>2, <2>1, <2>2 DEF SameButMark
<1>6. ASSUME NEW i \in 2..Len(m) PROVE m[i].obj[1] = SubSeq(p, 1, i - 1)
  <2>1. i \in 1..Len(p) + 1 /\ i \in 2..Len(l)
    BY <1>1
  <2>2. l[i].obj[1] = SubSeq(p, 1, i - 1)
    BY <2>1 DEF TaskLabel
  <2> QED
    BY <1>2, <2>1, <2>2 DEF SameButMark
<1>7. TaskLabel(p, m)
  BY <1>1, <1>4, <1>5, <1>6 DEF TaskLabel
<1> QED
  BY <1>1, <1>2, <1>3, <1>7

\* The creation of a task is such a step.
LEMMA SpawnsAdvances ==
  ASSUME TaskTyped, TaskLabels, TaskCurrent, NEW M, NEW t, NEW u, Spawns(t, u, M)
  PROVE  Advances(t, {u}, {}, M)
<1>1. ASSUME NEW l \in Seq(TaskSegment) PROVE MarkedLabel(l, l, {})
  BY DEF MarkedLabel, Marked
<1>2. /\ Grows(t, {u}) /\ app' = app /\ edges' = edges
      /\ status[t] = "running" /\ clock[t] < M /\ Len(u) + 1 <= Len(MaxSteps)
      /\ u \in TaskPaths /\ Len(u) = Len(t) + 1 /\ u[Len(u)] = <<clock[t], NoIndex>> /\ Front(u) = t
      /\ SubSeq(u, 1, Len(t)) = t
      /\ status'[u] = "running" /\ groups'[u] = <<>> /\ children'[u] = {} /\ children'[t] = children[t] \cup {u}
      /\ past'[t] = Upto(t) /\ past'[u] = Upto(t)
      /\ DOMAIN recorded' = DOMAIN recorded \cup {NextStretch(t), <<u, 0>>}
      /\ recorded'[NextStretch(t)] = label'[t] /\ recorded'[<<u, 0>>] = label'[u]
      /\ TaskLabel(t, label'[t]) /\ TaskLabel(u, label'[u])
      /\ Waits(label'[t], Own(t)) = Waits(Now(t), Own(t))
      /\ Creates(label'[t], Own(t)) = Creates(Now(t), Own(t)) + 1
      /\ label'[t][Own(t)].obj = NextStretch(t) /\ ~Waited(label'[t], Own(t))
      /\ Span(label'[t], Own(t)) = Span(Now(t), Own(t))
      /\ label'[u][Own(u)].obj = <<u, 0>> /\ ~Waited(label'[u], Own(u)) /\ Waits(label'[u], Own(u)) = 0
  BY DEF Spawns
<1>3. /\ \A i \in 1..Len(t) : u[i] = t[i]
      /\ \A i \in 1..Len(t) : label'[t][i] = Now(t)[i]
      /\ \A i \in 1..Own(t) : label'[u][i] = Now(t)[i]
      /\ \A d \in {DOMAIN status', DOMAIN clock', DOMAIN groups', DOMAIN past', DOMAIN children'} : d = Tasks'
      /\ \A s \in DOMAIN recorded : recorded'[s] = recorded[s]
  BY DEF Spawns
<1>4. ASSUME NEW v \in Tasks
      PROVE  /\ status'[v] = status[v] /\ groups'[v] = groups[v]
             /\ v # t => label'[v] = label[v] /\ past'[v] = past[v] /\ children'[v] = children[v]
  BY DEF Spawns
<1>5. /\ InitialTask \in Tasks /\ t # InitialTask /\ DOMAIN recorded = Stretches
      /\ \A v \in Lower : v \in Tasks
  BY <1>2 DEF TaskTyped, Grows, Lower
<1>6. ASSUME NEW v \in Lower, v # t, Live(v) \/ Len(v) > 1 PROVE MarkedLabel(label'[v], label[v], {})
  <2>1. Now(v) \in Seq(TaskSegment)
    BY NowIs
  <2>2. label[v] \in Seq(TaskSegment)
    BY <1>6, <2>1 DEF TaskCurrent
  <2> QED
    BY <1>1, <1>4, <1>5, <1>6, <2>2
<1>7. ASSUME NEW s \in Stretches PROVE MarkedLabel(recorded'[s], recorded[s], {})
  <2>1. recorded[s] \in Seq(TaskSegment)
    BY RecordIs DEF TaskLabel
  <2> QED
    BY <1>1, <1>3, <1>5, <2>1
<1>8. DOMAIN recorded' = DOMAIN recorded \cup {NextStretch(t)} \cup {<<w, 0>> : w \in {u}}
  BY <1>2
<1>9. KidOf(t, u) /\ KidLabel(t, u, label'[u]) /\ NextLabel(t, label'[t])
  BY <1>2, <1>3 DEF KidOf, KidLabel, NextLabel
<1>10. ASSUME NEW v \in Tasks PROVE children'[v] \subseteq children[v] \cup (IF v = t THEN {u} ELSE {})
  BY <1>2, <1>4
<1>11. label'[InitialTask] = label[InitialTask]
  BY <1>4, <1>5
<1> QED
  BY <1>2, <1>3, <1>4, <1>6, <1>7, <1>8, <1>9, <1>10, <1>11 DEF Advances

\* A task that goes on preserves the invariant.
LEMMA AdvancesKeeps ==
  ASSUME NEW M \in Nat, TaskInv(M), NEW t, NEW N, NEW K, Advances(t, N, K, M)
  PROVE  TaskInv(M)'
<1> DEFINE new == NextStretch(t)
           b == label'[t]
<1>1. /\ TaskTyped /\ TaskTree /\ TaskLabels /\ TaskObjects /\ TaskCounts /\ TaskCurrent
      /\ TaskEpochs /\ TaskBounds(M) /\ TaskEnds /\ TaskMarks /\ TaskChain /\ TaskWaited
      /\ TaskLineage /\ TaskPast
  BY DEF TaskInv
<1>2. /\ Grows(t, N) /\ app' = app /\ edges' = edges /\ status[t] = "running" /\ clock[t] < M
      /\ DOMAIN status' = Tasks' /\ DOMAIN clock' = Tasks' /\ DOMAIN groups' = Tasks'
      /\ DOMAIN past' = Tasks' /\ DOMAIN children' = Tasks'
      /\ label'[InitialTask] = label[InitialTask]
      /\ DOMAIN recorded' = DOMAIN recorded \cup {new} \cup {<<u, 0>> : u \in N}
      /\ recorded'[new] = b /\ NextLabel(t, b)
  BY DEF Advances
<1>3. /\ \A v \in Tasks : /\ status'[v] = status[v] /\ groups'[v] = groups[v]
                          /\ children'[v] \subseteq children[v] \cup (IF v = t THEN N ELSE {})
                          /\ v # t => past'[v] = past[v]
      /\ \A v \in Lower : v # t /\ (Live(v) \/ Len(v) > 1) => MarkedLabel(label'[v], label[v], K)
      /\ \A s \in Stretches : MarkedLabel(recorded'[s], recorded[s], K)
      /\ \A o \in K : \E s \in Stretches : s[1] = t /\ o = recorded[s][Own(t)].obj
      /\ \A u \in N : /\ KidOf(t, u) /\ KidLabel(t, u, label'[u]) /\ recorded'[<<u, 0>>] = label'[u]
                      /\ status'[u] = "running" /\ groups'[u] = <<>> /\ children'[u] = {} /\ past'[u] = Upto(t)
  BY DEF Advances
<1>4. N # {} => /\ K = {} /\ past'[t] = Upto(t)
                /\ Waits(b, Own(t)) = Waits(Now(t), Own(t))
                /\ Creates(b, Own(t)) = Creates(Now(t), Own(t)) + 1
  BY DEF Advances
<1>5. N = {} => /\ "taskwait" \in Constructs /\ (\A w \in Kids(t) : status[w] = "over")
                /\ past'[t] = Upto(t) \cup UNION {Upto(w) : w \in Kids(t)}
                /\ Waits(b, Own(t)) = Waits(Now(t), Own(t)) + 1
                /\ Creates(b, Own(t)) = Creates(Now(t), Own(t))
  BY DEF Advances
<1>6. /\ t \in Lower /\ clock'[t] = clock[t] + 1 /\ Tasks' = Tasks \cup N /\ N \cap Tasks = {}
      /\ \A v \in Tasks : v # t => clock'[v] = clock[v]
      /\ \A u \in N : clock'[u] = 0
  BY <1>2 DEF Grows
<1>7. /\ t \in Tasks /\ t \notin N /\ InitialTask \in Tasks /\ InitialTask \notin Lower /\ InitialTask # t
      /\ InitialTask \notin N
      /\ (\A v : v \in Lower <=> v \in Tasks /\ v # InitialTask)
      /\ (\A v : v \in Lower' <=> v \in Lower \/ v \in N)
      /\ (\A v \in Lower : v \notin N)
      /\ (\A s : s \in Stretches' <=> s \in Stretches \/ s = new \/ s \in {<<u, 0>> : u \in N})
      /\ new \notin Stretches /\ new[1] = t /\ new[2] = clock[t] + 1 /\ new = <<t, clock[t] + 1>>
      /\ (\A v \in Tasks : clock[v] \in Nat /\ clock'[v] \in Nat /\ clock[v] <= clock'[v])
      /\ Stretch(t)' = new /\ (\A v \in Lower : v # t => Stretch(v)' = Stretch(v) /\ clock'[v] = clock[v])
  <2>1. /\ Lower' = Lower \cup N /\ Lower \cap N = {} /\ t \in Tasks /\ t \notin N
        /\ (\A v : v \in Lower <=> v \in Tasks /\ v # InitialTask)
        /\ InitialTask \in Tasks /\ InitialTask \notin Lower /\ InitialTask # t
        /\ new \notin Stretches /\ new[1] = t /\ new[2] = clock[t] + 1 /\ new = <<t, clock[t] + 1>>
    BY <1>1, <1>2, GrowsTo
  <2>2. /\ (\A s : s \in Stretches' <=> s \in Stretches \/ s = new \/ s \in {<<u, 0>> : u \in N})
        /\ (\A v \in Tasks : clock[v] \in Nat /\ clock'[v] \in Nat /\ clock[v] <= clock'[v])
        /\ Stretch(t)' = new /\ (\A v \in Lower : v # t => Stretch(v)' = Stretch(v) /\ clock'[v] = clock[v])
    BY <1>1, <1>2, GrowsTo
  <2> QED
    BY <1>6, <2>1, <2>2
<1> HIDE DEF new, b
<1>8. /\ t \in TaskPaths /\ Len(t) \in Nat \ {0} /\ Own(t) = Len(t) + 1 /\ Stretch(t) \in Stretches
      /\ Stretch(t) = <<t, clock[t]>> /\ Stretch(t)[1] = t /\ Now(t) = At(t, clock[t])
      /\ Now(t) = recorded[Stretch(t)]
      /\ TaskLabel(t, Now(t)) /\ Live(t) /\ clock[t] \in Nat /\ clock[t] \in 0..clock[t] /\ label[t] = Now(t)
      /\ Offset(Now(t), 1) \in Nat /\ Epoch(t) = Offset(Now(t), 1)
  <2>1. /\ t \in TaskPaths /\ Len(t) \in Nat \ {0} /\ Own(t) = Len(t) + 1 /\ Stretch(t) \in Stretches
        /\ Stretch(t) = <<t, clock[t]>> /\ Stretch(t)[1] = t /\ Now(t) = At(t, clock[t])
        /\ TaskLabel(t, Now(t)) /\ clock[t] \in Nat /\ clock[t] \in 0..clock[t]
    BY <1>1, <1>6, <1>7, NowIs, OfTask
  <2>2. Live(t) /\ label[t] = Now(t)
    BY <1>1, <1>2, <1>6, <1>7 DEF Live, TaskCurrent
  <2>3. 1 \in 1..Len(t) + 1
    BY <2>1
  <2>4. Offset(Now(t), 1) \in Nat
    BY <2>1, <2>3, OfLabel
  <2>5. Leaving(t) = 0
    BY <1>2 DEF Leaving
  <2>6. Epoch(t) = Offset(Now(t), 1) + 0
    BY <2>5 DEF Epoch
  <2> QED
    BY <2>1, <2>2, <2>4, <2>6 DEF Now
<1>9. /\ TaskLabel(t, b) /\ b[Own(t)].obj = new /\ ~Waited(b, Own(t))
      /\ Span(b, Own(t)) = Span(Now(t), Own(t))
      /\ \A i \in 1..Len(t) : b[i] = Now(t)[i]
  BY <1>2 DEF NextLabel, new
<1>10. ASSUME NEW s \in Stretches
       PROVE  /\ s[1] \in Lower /\ s[1] \in Tasks /\ Len(s[1]) \in Nat \ {0} /\ s[1] \in TaskPaths
              /\ s \in DOMAIN recorded /\ TaskLabel(s[1], recorded[s]) /\ Own(s[1]) = Len(s[1]) + 1
              /\ s[2] \in Nat /\ s[2] <= clock[s[1]] /\ clock[s[1]] \in Nat /\ s = <<s[1], s[2]>>
              /\ recorded[s] = At(s[1], s[2]) /\ s # new /\ s \in Stretches' /\ s[1] \notin N
  BY <1>1, <1>7, OfStretch, RecordIs
<1>11. ASSUME NEW o \in K
       PROVE  o[1] = t /\ (\A s \in Stretches : recorded[s][1].obj # o) /\ label[InitialTask][1].obj # o
  <2>1. PICK s \in Stretches : s[1] = t /\ o = recorded[s][Own(t)].obj
    BY <1>3
  <2>2. o = recorded[s][Own(s[1])].obj
    BY <2>1
  <2>3. o[1] = t
    BY <1>1, <2>1, <2>2, OwnObject
  <2> QED
    BY <1>1, <2>2, <2>3 DEF TaskObjects
<1>12. ASSUME NEW s \in Stretches
       PROVE  /\ TaskLabel(s[1], recorded'[s]) /\ recorded'[s][1] = recorded[s][1]
              /\ \A i \in 1..Len(s[1]) + 1 : /\ SameButMark(recorded[s], recorded'[s], i)
                                             /\ recorded'[s][i] = Marked(recorded[s][i], K)
                                             /\ Waited(recorded'[s], i)
                                                   <=> Waited(recorded[s], i) \/ recorded[s][i].obj \in K
  <2>1. recorded[s][1].obj \notin K
    BY <1>11
  <2>2. MarkedLabel(recorded'[s], recorded[s], K)
    BY <1>3
  <2> QED
    BY <1>10, <2>1, <2>2, MarkedIsLabel
<1>13. ASSUME NEW s \in Stretches, NEW i \in 2..Len(s[1]) + 1, recorded[s][i].obj \in K
       PROVE  /\ i = Own(t) /\ Len(t) <= Len(s[1]) /\ SubSeq(s[1], 1, Len(t)) = t /\ SamePath(s[1], t, Len(t))
              /\ N = {}
  <2>1. recorded[s][i].obj[1] = t
    BY <1>11, <1>13
  <2>2. i \in 2..Len(recorded[s])
    BY <1>10 DEF TaskLabel
  <2>3. SubSeq(s[1], 1, i - 1) = t
    BY <1>10, <2>1, <2>2 DEF TaskLabel
  <2>4. i - 1 \in 0..Len(s[1])
    BY <1>10
  <2>5. /\ Len(SubSeq(s[1], 1, i - 1)) = i - 1
        /\ \A k \in 1..i - 1 : SubSeq(s[1], 1, i - 1)[k] = s[1][k]
    BY <1>10, <2>4, PathTo
  <2>6. i - 1 = Len(t)
    BY <2>3, <2>5
  <2>7. N = {}
    BY <1>4, <1>13
  <2> QED
    BY <1>8, <1>10, <2>3, <2>4, <2>5, <2>6, <2>7 DEF SamePath
<1>14. ASSUME NEW u \in N
       PROVE  /\ u \notin Tasks /\ u \in Lower' /\ u \in Tasks' /\ u \notin Lower /\ u # t /\ u # InitialTask
              /\ u \in TaskPaths /\ Len(u) = Len(t) + 1 /\ Own(u) = Len(t) + 2 /\ ~(Len(u) = 1) /\ Len(u) > 1
              /\ u[Len(t) + 1] = <<clock[t], NoIndex>> /\ Front(u) = t
              /\ SubSeq(u, 1, Len(t)) = t /\ Len(u) + 1 <= Len(MaxSteps) /\ (\A i \in 1..Len(t) : u[i] = t[i])
              /\ clock'[u] = 0 /\ status'[u] = "running" /\ past'[u] = Upto(t)
              /\ Live(u)' /\ Stretch(u)' = <<u, 0>> /\ <<u, 0>> \in Stretches' /\ Now(u)' = label'[u]
              /\ recorded'[<<u, 0>>] = label'[u]
  <2>1. KidOf(t, u) /\ recorded'[<<u, 0>>] = label'[u] /\ status'[u] = "running" /\ past'[u] = Upto(t)
    BY <1>3
  <2>2. /\ u \in TaskPaths /\ Len(u) = Len(t) + 1 /\ u[Len(t) + 1] = <<clock[t], NoIndex>> /\ Front(u) = t
        /\ SubSeq(u, 1, Len(t)) = t /\ Len(u) + 1 <= Len(MaxSteps) /\ (\A i \in 1..Len(t) : u[i] = t[i])
    BY <2>1 DEF KidOf
  <2>3. Own(u) = Len(t) + 2 /\ ~(Len(u) = 1) /\ Len(u) > 1
    BY <1>8, <2>2 DEF Own
  <2>4. u \notin Tasks /\ u \in Tasks' /\ u \in Lower' /\ u \notin Lower /\ u # t /\ u # InitialTask
        /\ clock'[u] = 0
    BY <1>6, <1>7
  <2>5. Live(u)'
    BY <2>1, <2>4 DEF Live
  <2>6. Stretch(u)' = <<u, 0>> /\ Now(u)' = recorded'[<<u, 0>>]
    BY <2>4 DEF Stretch, Now
  <2>7. <<u, 0>> \in Stretches'
    BY <1>7
  <2> QED
    BY <2>1, <2>2, <2>3, <2>4, <2>5, <2>6, <2>7
<1>15. ASSUME NEW u \in N
       PROVE  /\ TaskLabel(u, label'[u]) /\ label'[u][Own(u)].obj = <<u, 0>> /\ ~Waited(label'[u], Own(u))
              /\ Waits(label'[u], Own(u)) = 0
              /\ \A i \in 1..Own(t) : label'[u][i] = Now(t)[i]
  <2>1. KidLabel(t, u, label'[u])
    BY <1>3
  <2> QED
    BY <2>1 DEF KidLabel
<1>16. ASSUME NEW s \in Stretches', s \notin Stretches, s # new
       PROVE  s[1] \in N /\ s[2] = 0 /\ s = <<s[1], 0>> /\ recorded'[s] = label'[s[1]]
  <2>1. PICK u \in N : s = <<u, 0>>
    BY <1>7, <1>16
  <2> QED
    BY <1>14, <2>1
<1>17. ASSUME NEW v \in Tasks, NEW u \in N
       PROVE  /\ ~(Len(u) <= Len(v) /\ SamePath(v, u, Len(u)))
              /\ ~Below(u, v)
  <2>1. v \in TaskPaths /\ Len(v) \in Nat /\ Len(u) \in Nat /\ u \in TaskPaths /\ u \notin Tasks
    <3>1. v \in TaskPaths /\ Len(v) \in Nat
      BY <1>1, OfTask
    <3>2. u \in TaskPaths /\ Len(u) = Len(t) + 1 /\ u \notin Tasks
      BY <1>14
    <3>3. Len(t) \in Nat
      BY <1>8
    <3> QED
      BY <3>1, <3>2, <3>3
  <2>2. ASSUME Len(u) <= Len(v), SamePath(v, u, Len(u)) PROVE FALSE
    <3>1. SamePath(u, v, Len(u))
      BY <2>2 DEF SamePath
    <3>2. u = SubSeq(v, 1, Len(u))
      BY <2>1, <2>2, <3>1, IsPathTo
    <3>3. Len(u) \in 0..Len(v)
      BY <2>1, <2>2
    <3>4. SubSeq(v, 1, Len(u)) \in Tasks
      BY <1>1, <3>3 DEF TaskTree
    <3> QED
      BY <2>1, <3>2, <3>4
  <2>3. ~Below(u, v)
    <3>1. SUFFICES ASSUME Below(u, v) PROVE FALSE
      OBVIOUS
    <3>2. Len(u) <= Len(v) /\ SamePath(v, u, Len(u))
      BY <2>1, <3>1 DEF Below, SamePath
    <3> QED
      BY <2>2, <3>2
  <2> QED
    BY <2>2, <2>3
<1>18. ASSUME NEW v \in Lower
       PROVE  /\ v \in Tasks /\ v \in Lower' /\ v \in Tasks' /\ v \in TaskPaths /\ Len(v) \in Nat \ {0}
              /\ Own(v) = Len(v) + 1
              /\ status'[v] = status[v] /\ Leaving(v)' = Leaving(v)
              /\ Live(v)' <=> Live(v)
              /\ v # t => clock'[v] = clock[v] /\ past'[v] = past[v]
              /\ v # t => Stretch(v)' = Stretch(v) /\ Now(v)' = recorded'[Stretch(v)]
              /\ Stretch(v) \in Stretches /\ Stretch(v)[1] = v /\ Now(v) = recorded[Stretch(v)]
  <2>1. /\ v \in Tasks /\ v \in Lower' /\ v \in Tasks'
        /\ status'[v] = status[v] /\ (v # t => clock'[v] = clock[v] /\ past'[v] = past[v])
    BY <1>3, <1>6, <1>7
  <2>2. Leaving(v)' = Leaving(v) /\ (Live(v)' <=> Live(v))
    BY <2>1 DEF Leaving, Live
  <2>3. v \in TaskPaths /\ Len(v) \in Nat \ {0} /\ Own(v) = Len(v) + 1 /\ Stretch(v) \in Stretches
        /\ Stretch(v)[1] = v
    BY <1>1, <2>1, NowIs, OfTask
  <2>4. v # t => Stretch(v)' = Stretch(v)
    BY <1>7
  <2>5. v # t => Now(v)' = recorded'[Stretch(v)]
    BY <2>4 DEF Now
  <2> QED
    BY <2>1, <2>2, <2>3, <2>4, <2>5 DEF Now
<1>19. Now(t)' = b
  BY <1>2, <1>7 DEF Now
<1>20. ASSUME NEW v \in Lower, NEW i \in 1..Len(v) + 1, v = t => i <= Len(t)
       PROVE  Offset(Now(v)', i) = Offset(Now(v), i) /\ Waits(Now(v)', i) = Waits(Now(v), i)
  <2>1. CASE v = t
    <3>1. i \in 1..Len(t)
      BY <1>8, <1>20, <2>1
    <3>2. Now(v)'[i] = Now(v)[i]
      BY <1>9, <1>19, <2>1, <3>1
    <3> QED
      BY <3>2 DEF Offset, Waits
  <2>2. CASE v # t
    <3>1. SameButMark(recorded[Stretch(v)], recorded'[Stretch(v)], i)
      BY <1>12, <1>18
    <3> QED
      BY <1>18, <2>2, <3>1 DEF SameButMark
  <2> QED
    BY <2>1, <2>2
<1>21. ASSUME NEW v \in Lower PROVE Epoch(v)' = Epoch(v)
  <2>1. 1 \in 1..Len(v) + 1 /\ (v = t => 1 <= Len(t))
    BY <1>18
  <2>2. Offset(Now(v)', 1) = Offset(Now(v), 1)
    BY <1>20, <2>1
  <2>3. Leaving(v)' = Leaving(v)
    BY <1>18
  <2>4. Epoch(v)' = Offset(Now(v)', 1) + Leaving(v)'
    BY DEF Epoch
  <2>5. Epoch(v) = Offset(Now(v), 1) + Leaving(v)
    BY DEF Epoch
  <2> QED
    BY <2>2, <2>3, <2>4, <2>5
<1>22. ASSUME NEW u \in N
       PROVE  Epoch(u)' = Epoch(t) /\ Offset(label'[u], 1) = Epoch(t) /\ Leaving(u)' = 0
  <2>1. Leaving(u)' = 0
    BY <1>14 DEF Leaving
  <2>2. 1 \in 1..Own(t)
    BY <1>8
  <2>3. Offset(label'[u], 1) = Offset(Now(t), 1)
    BY <1>15, <2>2 DEF Offset
  <2>4. Epoch(u)' = Offset(label'[u], 1) + 0
    BY <1>14, <2>1 DEF Epoch
  <2> QED
    BY <1>8, <2>1, <2>3, <2>4
<1>23. ASSUME NEW p \in Lower, NEW n \in 0..clock[p]
       PROVE  /\ <<p, n>> \in Stretches /\ At(p, n) = recorded[<<p, n>>] /\ At(p, n)' = recorded'[<<p, n>>]
              /\ \A i \in 1..Len(p) + 1 : SameButMark(At(p, n), At(p, n)', i)
  <2>1. <<p, n>> \in Stretches /\ <<p, n>>[1] = p
    BY StretchOf
  <2>2. At(p, n) = recorded[<<p, n>>] /\ At(p, n)' = recorded'[<<p, n>>]
    BY DEF At
  <2> QED
    BY <1>12, <2>1, <2>2
<1>24. ASSUME NEW n, n = clock[t] + 1 PROVE At(t, n)' = b
  BY <1>2, <1>7, <1>24 DEF At
<1>25. ASSUME NEW u \in N, NEW p \in Lower, NEW n, Append(p, <<n, NoIndex>>) = u
       PROVE  p = t /\ n = clock[t]
  <2>1. p \in TaskPaths /\ Len(p) \in Nat
    BY <1>18
  <2>2. /\ Len(Append(p, <<n, NoIndex>>)) = Len(p) + 1 /\ Append(p, <<n, NoIndex>>)[Len(p) + 1] = <<n, NoIndex>>
        /\ \A i \in 1..Len(p) : Append(p, <<n, NoIndex>>)[i] = p[i]
    BY <2>1 DEF TaskPaths
  <2>3. Len(u) = Len(p) + 1 /\ u[Len(p) + 1] = <<n, NoIndex>> /\ \A i \in 1..Len(p) : u[i] = p[i]
    BY <1>25, <2>2
  <2>4. Len(p) = Len(t)
    <3>1. Len(u) = Len(t) + 1 /\ Len(t) \in Nat
      BY <1>8, <1>14
    <3> QED
      BY <2>1, <2>3, <3>1
  <2>5. SamePath(p, t, Len(p))
    BY <1>14, <2>3, <2>4 DEF SamePath
  <2>6. p = t
    BY <1>8, <2>1, <2>4, <2>5, IsPathTo
  <2>7. u[Len(t) + 1] = <<clock[t], NoIndex>>
    BY <1>14
  <2> QED
    BY <2>3, <2>4, <2>6, <2>7
<1>26. /\ status'[InitialTask] = "forked" /\ clock'[InitialTask] = clock[InitialTask]
       /\ label'[InitialTask] = label[InitialTask] /\ past'[InitialTask] = past[InitialTask]
       /\ status[InitialTask] = "forked" /\ t[1][1] = clock[InitialTask]
  <2>1. status[InitialTask] = "forked" /\ t[1][1] = clock[InitialTask]
    BY <1>1, <1>6, <1>8 DEF TaskEpochs
  <2> QED
    BY <1>2, <1>3, <1>6, <1>7, <2>1
<1>27. Constructs' = Constructs /\ MaxSteps' = MaxSteps
  BY <1>2 DEF Constructs, MaxSteps
<1>28. ASSUME NEW s \in past'[t] PROVE s \in Upto(t) \/ \E w \in Kids(t) : s \in Upto(w) /\ N = {}
  BY <1>4, <1>5
<1>29. ASSUME NEW v \in Lower, NEW s \in Upto(v) PROVE s \in past[v] \/ s = Stretch(v)
  BY <1>29 DEF Upto
<1>30. ASSUME NEW w \in Kids(t) PROVE w \in Lower /\ Len(w) > 1 /\ Front(w) = t /\ w \in Tasks
  <2>1. w \in Tasks /\ Len(w) > 1 /\ Front(w) = t
    BY DEF Kids
  <2>2. \A n : n = 0 => ~(n > 1)
    OBVIOUS
  <2>3. w # InitialTask
    BY <1>1, <2>1, <2>2, OfTask, Zenon
  <2> QED
    BY <1>7, <2>1, <2>3
<1>31. TaskTyped'
  <2>1. \A v \in Tasks : \A s \in past[v] : s \in {InitialTask} \X Nat \/ s \in Stretches
    BY <1>1 DEF TaskTyped
  <2>2. ASSUME NEW v \in Tasks, v # InitialTask, NEW s \in Upto(v)
        PROVE  s \in {InitialTask} \X Nat \/ s \in Stretches'
    BY <1>7, <1>18, <1>29, <2>1, <2>2
  <2>3. ASSUME NEW v \in Tasks
        PROVE  /\ TaskPath(v) /\ Len(v) + 1 <= Len(MaxSteps')
               /\ status'[v] \in {"running", "forked", "atBarrier", "atEnd", "released", "ended", "over"}
               /\ Len(v) > 1 => status'[v] \in {"running", "over"}
               /\ clock'[v] \in Nat /\ groups'[v] = <<>>
               /\ \A s \in past'[v] : s \in {InitialTask} \X Nat \/ s \in Stretches'
               /\ \A u \in children'[v] : u \in Tasks' /\ Len(u) > 1 /\ Front(u) = v
    <3>1. /\ TaskPath(v) /\ Len(v) + 1 <= Len(MaxSteps)
          /\ status[v] \in {"running", "forked", "atBarrier", "atEnd", "released", "ended", "over"}
          /\ Len(v) > 1 => status[v] \in {"running", "over"}
          /\ groups[v] = <<>>
          /\ \A u \in children[v] : u \in Tasks /\ Len(u) > 1 /\ Front(u) = v
      BY <1>1 DEF TaskTyped
    <3>2. ASSUME NEW s \in past'[v] PROVE s \in {InitialTask} \X Nat \/ s \in Stretches'
      <4>1. CASE v # t
        BY <1>3, <1>7, <2>1, <3>2, <4>1
      <4>2. CASE v = t
        <5>1. s \in Upto(t) \/ \E w \in Kids(t) : s \in Upto(w)
          BY <1>28, <3>2, <4>2
        <5>2. \A w \in Kids(t) : w \in Tasks /\ w # InitialTask
          BY <1>7, <1>30
        <5> QED
          BY <1>7, <2>2, <5>1, <5>2
      <4> QED
        BY <4>1, <4>2
    <3>3. ASSUME NEW u \in children'[v] PROVE u \in Tasks' /\ Len(u) > 1 /\ Front(u) = v
      <4>1. u \in children[v] \/ (v = t /\ u \in N)
        BY <1>3, <3>3
      <4> QED
        BY <1>6, <1>14, <3>1, <4>1
    <3>4. status'[v] = status[v] /\ groups'[v] = groups[v] /\ clock'[v] \in Nat
      BY <1>3, <1>7
    <3> QED
      BY <1>27, <3>1, <3>2, <3>3, <3>4
  <2>4. ASSUME NEW u \in N
        PROVE  /\ TaskPath(u) /\ Len(u) + 1 <= Len(MaxSteps')
               /\ status'[u] \in {"running", "forked", "atBarrier", "atEnd", "released", "ended", "over"}
               /\ Len(u) > 1 => status'[u] \in {"running", "over"}
               /\ clock'[u] \in Nat /\ groups'[u] = <<>>
               /\ \A s \in past'[u] : s \in {InitialTask} \X Nat \/ s \in Stretches'
               /\ \A w \in children'[u] : w \in Tasks' /\ Len(w) > 1 /\ Front(w) = u
    <3>1. u \in TaskPaths /\ Len(u) = Len(t) + 1 /\ u[Len(t) + 1] = <<clock[t], NoIndex>>
          /\ \A i \in 1..Len(t) : u[i] = t[i]
      BY <1>14
    <3>2. Len(t) \in Nat \ {0} /\ t[1][2] \in Nat /\ (\A i \in 2..Len(t) : t[i][2] = NoIndex)
      BY <1>1, <1>6, <1>7, <1>8, OfTask
    <3>3. u[1] = t[1]
      BY <3>1, <3>2
    <3>4. ASSUME NEW i \in 2..Len(u) PROVE u[i][2] = NoIndex
      <4>1. i = Len(t) + 1 \/ i \in 2..Len(t)
        BY <3>1, <3>2
      <4> QED
        BY <3>1, <3>2, <4>1
    <3>5. TaskPath(u)
      BY <3>1, <3>2, <3>3, <3>4 DEF TaskPath
    <3>6. groups'[u] = <<>> /\ children'[u] = {} /\ past'[u] = Upto(t) /\ status'[u] = "running" /\ clock'[u] = 0
      BY <1>3, <1>6
    <3>7. Len(u) + 1 <= Len(MaxSteps')
      BY <1>14, <1>27
    <3>8. \A s \in past'[u] : s \in {InitialTask} \X Nat \/ s \in Stretches'
      BY <1>7, <2>2, <3>6
    <3> QED
      BY <3>5, <3>6, <3>7, <3>8
  <2>5. /\ app' \in Programs /\ edges' = {} /\ InitialTask \in Tasks'
        /\ label'[InitialTask] \in Seq(TaskSegment) /\ Len(label'[InitialTask]) = 1
        /\ FirstSegment(label'[InitialTask][1])
    BY <1>1, <1>2, <1>6, <1>26 DEF TaskTyped
  <2>6. DOMAIN recorded' = Stretches'
    <3>1. DOMAIN recorded = Stretches
      BY <1>1 DEF TaskTyped
    <3> QED
      BY <1>2, <1>7, <3>1
  <2>7. status'[InitialTask] \in {"running", "forked"}
    BY <1>26
  <2>8. \A v \in Tasks' : v \in Tasks \/ v \in N
    BY <1>6
  <2> QED
    BY <1>2, <2>3, <2>4, <2>5, <2>6, <2>7, <2>8 DEF TaskTyped
<1>32. TaskTree'
  <2>1. \A v \in Tasks :
           /\ \A j \in 0..Len(v) : SubSeq(v, 1, j) \in Tasks'
           /\ \A j \in 0..Len(v) - 1 :
                /\ v[j + 1][1] <= clock'[SubSeq(v, 1, j)]
                /\ j > 0 \/ status'[InitialTask] = "running" => v[j + 1][1] < clock'[SubSeq(v, 1, j)]
    <3>1. status'[InitialTask] # "running"
      BY <1>26
    <3> QED
      BY <1>1, <1>2, <3>1, TreeGrows
  <2>2. ASSUME NEW u \in N
        PROVE  /\ \A j \in 0..Len(u) : SubSeq(u, 1, j) \in Tasks'
               /\ \A j \in 0..Len(u) - 1 :
                    /\ u[j + 1][1] <= clock'[SubSeq(u, 1, j)]
                    /\ j > 0 \/ status'[InitialTask] = "running" => u[j + 1][1] < clock'[SubSeq(u, 1, j)]
    <3>1. /\ u \in TaskPaths /\ Len(u) = Len(t) + 1 /\ SubSeq(u, 1, Len(t)) = t
          /\ (\A i \in 1..Len(t) : u[i] = t[i])
          /\ u[Len(t) + 1] = <<clock[t], NoIndex>> /\ u \in Tasks'
      BY <1>14
    <3>2. Len(t) \in Nat \ {0} /\ clock[t] \in Nat
      BY <1>8
    <3>3. ASSUME NEW j \in 0..Len(t) PROVE SubSeq(u, 1, j) = SubSeq(t, 1, j)
      <4>1. Len(t) \in 0..Len(u)
        BY <3>1, <3>2
      <4> QED
        BY <3>1, <4>1, PathToPath
    <3>4. ASSUME NEW j \in 0..Len(u) PROVE SubSeq(u, 1, j) \in Tasks'
      <4>1. CASE j = Len(u)
        BY <3>1, <4>1, PathTo
      <4>2. CASE j # Len(u)
        <5>1. j \in 0..Len(t)
          BY <3>1, <3>2, <4>2
        <5> QED
          BY <1>6, <2>1, <3>3, <5>1, <1>7
      <4> QED
        BY <4>1, <4>2
    <3>5. ASSUME NEW j \in 0..Len(u) - 1
          PROVE  /\ u[j + 1][1] <= clock'[SubSeq(u, 1, j)]
                 /\ j > 0 \/ status'[InitialTask] = "running" => u[j + 1][1] < clock'[SubSeq(u, 1, j)]
      <4>1. j \in 0..Len(t)
        BY <3>1, <3>2
      <4>2. SubSeq(u, 1, j) = SubSeq(t, 1, j)
        BY <3>3, <4>1
      <4>3. CASE j = Len(t)
        <5>1. SubSeq(u, 1, j) = t /\ u[j + 1][1] = clock[t] /\ clock'[t] = clock[t] + 1
          BY <1>6, <3>1, <4>3
        <5>2. clock[t] <= clock[t] + 1 /\ clock[t] < clock[t] + 1
          BY <3>2
        <5>3. clock'[SubSeq(u, 1, j)] = clock[t] + 1
          BY <5>1
        <5> QED
          BY <5>1, <5>2, <5>3
      <4>4. CASE j # Len(t)
        <5>1. j \in 0..Len(t) - 1 /\ j + 1 \in 1..Len(t)
          BY <3>2, <4>1, <4>4
        <5>2. u[j + 1] = t[j + 1]
          BY <3>1, <5>1
        <5> QED
          BY <1>7, <2>1, <4>2, <5>1, <5>2
      <4> QED
        BY <4>3, <4>4
    <3> QED
      BY <3>4, <3>5
  <2>3. \A v \in Tasks' : v \in Tasks \/ v \in N
    BY <1>6
  <2> QED
    BY <2>1, <2>2, <2>3 DEF TaskTree
\* The way to a task that lives below t now is as it was.
<1>33. ASSUME NEW s \in Stretches, NEW j \in 1..Len(s[1])
       PROVE  /\ Way(s, j) \in Stretches /\ Way(s, j) = <<SubSeq(s[1], 1, j), In(s, j)>>
              /\ SubSeq(s[1], 1, j) \in Lower /\ Len(SubSeq(s[1], 1, j)) = j
              /\ recorded[s][j + 1] = recorded[Way(s, j)][j + 1]
              /\ recorded'[s][j + 1] = recorded'[Way(s, j)][j + 1]
  <2>1. /\ Way(s, j) \in Stretches /\ Way(s, j) = <<SubSeq(s[1], 1, j), In(s, j)>>
        /\ SubSeq(s[1], 1, j) \in Lower /\ Len(SubSeq(s[1], 1, j)) = j
        /\ Way(s, j)[1] = SubSeq(s[1], 1, j)
    BY <1>1, OfWay DEF Way
  <2>2. recorded[s][j + 1] = recorded[Way(s, j)][j + 1]
    BY <1>1, <2>1, OfWay DEF At
  <2>3. j + 1 \in 1..Len(s[1]) + 1 /\ j + 1 \in 1..Len(Way(s, j)[1]) + 1
    BY <1>10, <2>1
  <2>4. recorded'[s][j + 1] = Marked(recorded[s][j + 1], K)
    BY <1>12, <2>3
  <2>5. recorded'[Way(s, j)][j + 1] = Marked(recorded[Way(s, j)][j + 1], K)
    BY <1>12, <2>1, <2>3
  <2> QED
    BY <2>1, <2>2, <2>4, <2>5
<1>34. ASSUME NEW i \in 1..Len(t) PROVE recorded'[Stretch(t)][i] = Now(t)[i]
  <2>1. i \in 1..Len(t) + 1 /\ i # Own(t)
    BY <1>8
  <2>2. recorded'[Stretch(t)][i] = Marked(Now(t)[i], K) /\ recorded'[Stretch(t)][1] = Now(t)[1]
    BY <1>8, <1>12, <2>1
  <2>3. CASE i = 1
    BY <2>2, <2>3
  <2>4. CASE i # 1
    <3>1. i \in 2..Len(Stretch(t)[1]) + 1
      BY <1>8, <2>1, <2>4
    <3>2. recorded[Stretch(t)][i].obj \notin K
      BY <1>8, <1>13, <2>1, <3>1
    <3> QED
      BY <1>8, <2>2, <3>2 DEF Marked
  <2> QED
    BY <2>3, <2>4
<1>35. ASSUME NEW s \in Stretches', s \notin Stretches
       PROVE  /\ TaskLabel(s[1], recorded'[s]) /\ s[1] \in Lower' /\ Len(s[1]) \in Nat \ {0} /\ s[1] \in TaskPaths
              /\ ~Waited(recorded'[s], Own(s[1])) /\ recorded'[s][Own(s[1])].obj = s
              /\ (\A i \in 1..Len(t) : recorded'[s][i] = Now(t)[i] /\ s[1][i] = t[i])
              /\ s = new \/ (s[1] \in N /\ s = <<s[1], 0>> /\ N # {})
              /\ s = new => s[1] = t /\ recorded'[s] = b
              /\ s # new => s[1] \in N /\ N # {} /\ recorded'[s][Own(t)] = Now(t)[Own(t)] /\ Own(s[1]) = Own(t) + 1
  <2>1. CASE s = new
    <3>1. s[1] = t /\ recorded'[s] = b
      BY <1>2, <1>7, <2>1
    <3> QED
      BY <1>7, <1>8, <1>9, <2>1, <3>1
  <2>2. CASE s # new
    <3>1. s[1] \in N /\ s = <<s[1], 0>> /\ recorded'[s] = label'[s[1]]
      BY <1>16, <1>35, <2>2
    <3>2. /\ TaskLabel(s[1], recorded'[s]) /\ recorded'[s][Own(s[1])].obj = s /\ ~Waited(recorded'[s], Own(s[1]))
          /\ \A i \in 1..Own(t) : recorded'[s][i] = Now(t)[i]
      BY <1>15, <3>1
    <3>3. Own(t) \in 1..Own(t) /\ (\A i \in 1..Len(t) : i \in 1..Own(t))
      BY <1>8
    <3>4. /\ s[1] \in Lower' /\ s[1] \in TaskPaths /\ Len(s[1]) = Len(t) + 1 /\ Own(s[1]) = Len(t) + 2
          /\ \A i \in 1..Len(t) : s[1][i] = t[i]
      BY <1>14, <3>1
    <3>5. Own(t) + 1 = Len(t) + 2 /\ Len(t) + 1 \in Nat \ {0}
      BY <1>8
    <3>6. Len(s[1]) \in Nat \ {0} /\ Own(s[1]) = Own(t) + 1
      BY <3>4, <3>5
    <3> QED
      BY <2>2, <3>1, <3>2, <3>3, <3>4, <3>6
  <2> QED
    BY <2>1, <2>2
<1>36. TaskLabels'
  <2>1. ASSUME NEW s \in Stretches', NEW i \in 2..Len(s[1])
        PROVE  recorded'[s][i] = At(SubSeq(s[1], 1, i - 1), s[1][i][1])'[i]
    <3>1. SUFFICES recorded'[s][i] = recorded'[<<SubSeq(s[1], 1, i - 1), s[1][i][1]>>][i]
      BY DEF At
    <3>2. CASE s \in Stretches
      <4>1. i - 1 \in 1..Len(s[1]) /\ i - 1 < Len(s[1]) /\ i - 1 + 1 = i
        BY <1>10, <3>2
      <4>2. Way(s, i - 1) = <<SubSeq(s[1], 1, i - 1), s[1][i][1]>>
        BY <4>1 DEF Way, In
      <4> QED
        BY <1>33, <3>2, <4>1, <4>2
    <3>3. CASE s \notin Stretches
      <4>1. /\ (\A k \in 1..Len(t) : recorded'[s][k] = Now(t)[k] /\ s[1][k] = t[k])
            /\ s[1] \in TaskPaths /\ Len(t) \in Nat \ {0} /\ t \in TaskPaths
            /\ s = new \/ (s[1] \in N /\ s = <<s[1], 0>> /\ N # {})
            /\ s = new => s[1] = t
            /\ s # new => s[1] \in N /\ N # {} /\ recorded'[s][Own(t)] = Now(t)[Own(t)]
        BY <1>8, <1>35, <3>3
      <4>2. Len(s[1]) = Len(t) \/ (s[1] \in N /\ N # {} /\ Len(s[1]) = Len(t) + 1 /\ s # new)
        BY <1>14, <4>1
      <4>3. CASE i <= Len(t)
        <5>1. /\ i - 1 \in 1..Len(t) /\ i - 1 < Len(t) /\ i - 1 + 1 = i /\ i \in 1..Len(t) /\ i - 1 \in 0..Len(s[1])
              /\ i - 1 <= Len(t) /\ (\A k \in 1..i - 1 : k \in 1..Len(t))
          BY <4>1, <4>2, <4>3
        <5>2. SamePath(s[1], t, i - 1)
          BY <4>1, <5>1 DEF SamePath
        <5>3. SubSeq(s[1], 1, i - 1) = SubSeq(t, 1, i - 1)
          BY <4>1, <5>1, <5>2, SamePathTo
        <5>4. Way(Stretch(t), i - 1) = <<SubSeq(t, 1, i - 1), t[i][1]>>
          BY <1>8, <5>1 DEF Way, In
        <5>5. recorded'[Stretch(t)][i] = recorded'[Way(Stretch(t), i - 1)][i]
          BY <1>8, <1>33, <5>1
        <5> QED
          BY <1>34, <4>1, <5>1, <5>3, <5>4, <5>5
      <4>4. CASE ~(i <= Len(t))
        <5>1. s[1] \in N /\ N # {} /\ Len(s[1]) = Len(t) + 1 /\ s # new
          BY <4>1, <4>2, <4>4
        <5>2. i = Len(t) + 1 /\ i - 1 = Len(t)
          BY <4>1, <4>4, <5>1
        <5>3. SubSeq(s[1], 1, i - 1) = t /\ s[1][i] = <<clock[t], NoIndex>>
          BY <1>14, <5>1, <5>2
        <5>4. K = {}
          BY <1>4, <5>1
        <5>5. recorded'[Stretch(t)][i] = Marked(Now(t)[i], K)
          BY <1>8, <1>12, <5>2
        <5>6. recorded'[Stretch(t)][i] = Now(t)[i]
          BY <5>4, <5>5 DEF Marked
        <5>7. recorded'[s][i] = Now(t)[i]
          BY <1>8, <4>1, <5>1, <5>2
        <5> QED
          BY <1>8, <5>3, <5>6, <5>7
      <4> QED
        BY <4>3, <4>4
    <3> QED
      BY <3>2, <3>3
  <2>2. ASSUME NEW s \in Stretches'
        PROVE  \E r \in Stretches : r[1][1] = s[1][1] /\ Span(recorded'[s], 2) = Span(recorded[r], 2)
    <3>1. CASE s \in Stretches
      <4>1. 2 \in 1..Len(s[1]) + 1
        BY <1>10, <3>1
      <4>2. SameButMark(recorded[s], recorded'[s], 2)
        BY <1>12, <3>1, <4>1
      <4> QED
        BY <3>1, <4>2 DEF SameButMark
    <3>2. CASE s \notin Stretches
      <4>1. s[1][1] = t[1] /\ 1 \in 1..Len(t)
        BY <1>8, <1>35, <3>2
      <4>2. Span(recorded'[s], 2) = Span(Now(t), 2)
        <5>1. CASE 2 \in 1..Len(t)
          BY <1>35, <3>2, <5>1 DEF Span
        <5>2. CASE 2 \notin 1..Len(t)
          <6>1. Own(t) = 2
            BY <1>8, <5>2
          <6>2. CASE s = new
            BY <1>9, <1>35, <3>2, <6>1, <6>2
          <6>3. CASE s # new
            BY <1>35, <3>2, <6>1, <6>3 DEF Span
          <6> QED
            BY <6>2, <6>3
        <5> QED
          BY <5>1, <5>2
      <4> QED
        BY <1>8, <4>1, <4>2
    <3> QED
      BY <3>1, <3>2
  <2>3. ASSUME NEW s \in Stretches', NEW r \in Stretches', s[1][1][1] = r[1][1][1]
        PROVE  Span(recorded'[s], 2) = Span(recorded'[r], 2)
    <3>1. PICK x \in Stretches : x[1][1] = s[1][1] /\ Span(recorded'[s], 2) = Span(recorded[x], 2)
      BY <2>2
    <3>2. PICK y \in Stretches : y[1][1] = r[1][1] /\ Span(recorded'[r], 2) = Span(recorded[y], 2)
      BY <2>2
    <3>3. Span(recorded[x], 2) = Span(recorded[y], 2)
      BY <1>1, <2>3, <3>1, <3>2 DEF TaskLabels
    <3> QED
      BY <3>1, <3>2, <3>3
  <2>4. ASSUME "taskwait" \notin Constructs', NEW s \in Stretches' PROVE Waits(recorded'[s], Own(s[1])) = 0
    <3>1. \A r \in Stretches : Waits(recorded[r], Own(r[1])) = 0
      BY <1>1, <1>27, <2>4 DEF TaskLabels
    <3>2. N # {}
      BY <1>5, <1>27, <2>4
    <3>3. CASE s \in Stretches
      <4>1. Own(s[1]) \in 1..Len(s[1]) + 1
        BY <1>10, <3>3
      <4>2. SameButMark(recorded[s], recorded'[s], Own(s[1]))
        BY <1>12, <3>3, <4>1
      <4> QED
        BY <3>1, <3>3, <4>2 DEF SameButMark
    <3>4. CASE s = new
      <4>1. Waits(Now(t), Own(t)) = 0
        BY <1>8, <3>1
      <4> QED
        BY <1>2, <1>4, <1>7, <3>2, <3>4, <4>1
    <3>5. CASE s \notin Stretches /\ s # new
      BY <1>15, <1>16, <3>5
    <3> QED
      BY <3>3, <3>4, <3>5
  <2>5. ASSUME NEW s \in Stretches' PROVE TaskLabel(s[1], recorded'[s])
    BY <1>12, <1>35
  <2> QED
    BY <2>1, <2>3, <2>4, <2>5 DEF TaskLabels
<1>37. TaskObjects'
  <2> DEFINE O == {recorded[r][1].obj : r \in Stretches} \cup {label[InitialTask][1].obj}
  <2>1. /\ \A s \in Stretches : recorded[s][Own(s[1])].obj[2] <= clock[s[1]]
        /\ \A o \in O :
             /\ o[1] \in Tasks /\ (o[2] <= clock[o[1]] \/ status[o[1]] = "over")
             /\ \A s \in Stretches : recorded[s][Own(s[1])].obj # o
    BY <1>1 DEF TaskObjects
  <2>2. ASSUME NEW s \in Stretches' PROVE \E r \in Stretches : recorded'[s][1] = recorded[r][1]
    <3>1. CASE s \in Stretches
      BY <1>12, <3>1
    <3>2. CASE s \notin Stretches
      <4>1. 1 \in 1..Len(t)
        BY <1>8
      <4> QED
        BY <1>8, <1>35, <3>2, <4>1
    <3> QED
      BY <3>1, <3>2
  <2>3. {recorded'[r][1].obj : r \in Stretches'} \cup {label'[InitialTask][1].obj} \subseteq O
    BY <1>26, <2>2
  <2>4. ASSUME NEW s \in Stretches
        PROVE  /\ recorded'[s][Own(s[1])].obj = recorded[s][Own(s[1])].obj
               /\ recorded'[s][Own(s[1])].obj[2] <= clock'[s[1]]
    <3>1. recorded'[s][Own(s[1])].obj = recorded[s][Own(s[1])].obj
      <4>1. Own(s[1]) \in 1..Len(s[1]) + 1
        BY <1>10
      <4> QED
        BY <1>12, <4>1 DEF SameButMark
    <3>2. recorded[s][Own(s[1])].obj[2] <= clock[s[1]]
      BY <2>1
    <3>3. recorded[s][Own(s[1])].obj[2] \in Nat
      <4>1. Own(s[1]) \in 1..Len(recorded[s]) /\ recorded[s] \in Seq(TaskSegment)
        BY <1>10 DEF TaskLabel
      <4>2. recorded[s][Own(s[1])] \in TaskSegment
        BY <4>1
      <4> QED
        BY <4>2 DEF TaskSegment
    <3>4. clock[s[1]] \in Nat /\ clock'[s[1]] \in Nat /\ clock[s[1]] <= clock'[s[1]]
      BY <1>7, <1>10
    <3> QED
      BY <3>1, <3>2, <3>3, <3>4
  <2>5. ASSUME NEW s \in Stretches' PROVE recorded'[s][Own(s[1])].obj[2] <= clock'[s[1]]
    <3>1. CASE s \in Stretches
      BY <2>4, <3>1
    <3>2. CASE s = new
      BY <1>6, <1>7, <1>8, <1>35, <3>2
    <3>3. CASE s \notin Stretches /\ s # new
      <4>1. s[1] \in N /\ s[2] = 0 /\ recorded'[s][Own(s[1])].obj = s
        BY <1>16, <1>35, <3>3
      <4> QED
        BY <1>6, <4>1
    <3> QED
      BY <3>1, <3>2, <3>3
  <2>6. ASSUME NEW o \in O
        PROVE  o[1] \in Tasks' /\ (o[2] <= clock'[o[1]] \/ status'[o[1]] = "over")
    <3>1. o[1] \in Tasks /\ (o[2] <= clock[o[1]] \/ status[o[1]] = "over")
      BY <2>1
    <3>2. o[2] \in Nat
      <4>1. ASSUME NEW seg, FirstSegment(seg) PROVE seg.obj[2] \in Nat
        BY <4>1 DEF FirstSegment, TaskSegment
      <4>2. FirstSegment(label[InitialTask][1]) /\ \A r \in Stretches : FirstSegment(recorded[r][1])
        BY <1>1, <1>10 DEF TaskTyped, TaskLabel
      <4> QED
        BY <4>1, <4>2
    <3>3. clock[o[1]] \in Nat /\ clock'[o[1]] \in Nat /\ clock[o[1]] <= clock'[o[1]]
      BY <1>7, <3>1
    <3>4. o[2] <= clock[o[1]] => o[2] <= clock'[o[1]]
      BY <3>2, <3>3
    <3> QED
      BY <1>3, <1>6, <3>1, <3>4
  <2>7. ASSUME NEW o \in O, NEW s \in Stretches' PROVE recorded'[s][Own(s[1])].obj # o
    <3>1. CASE s \in Stretches
      BY <2>1, <2>4, <3>1
    <3>2. CASE s = new
      <4>1. o[1] = t => o[2] <= clock[t]
        BY <1>2, <2>1
      <4>2. new[1] = t /\ new[2] = clock[t] + 1 /\ clock[t] \in Nat
        BY <1>7, <1>8
      <4>3. o # new
        BY <4>1, <4>2
      <4> QED
        BY <1>35, <1>7, <3>2, <4>3
    <3>3. CASE s \notin Stretches /\ s # new
      <4>1. s[1] \in N /\ recorded'[s][Own(s[1])].obj = s /\ s[1] \notin Tasks
        BY <1>14, <1>16, <1>35, <3>3
      <4> QED
        BY <2>1, <4>1
    <3> QED
      BY <3>1, <3>2, <3>3
  <2> HIDE DEF O
  <2> QED
    BY <2>3, <2>5, <2>6, <2>7 DEF TaskObjects
<1>38. /\ Waits(Now(t), Own(t)) \in Nat /\ Creates(Now(t), Own(t)) \in Nat
       /\ Waits(Now(t), Own(t)) <= Waits(b, Own(t)) /\ Creates(Now(t), Own(t)) <= Creates(b, Own(t))
       /\ N # {} => Creates(Now(t), Own(t)) < Creates(b, Own(t)) /\ Waits(b, Own(t)) = Waits(Now(t), Own(t))
       /\ N = {} => Waits(Now(t), Own(t)) < Waits(b, Own(t))
       /\ Waits(b, Own(t)) \in Nat /\ Creates(b, Own(t)) \in Nat
  <2>1. Own(t) \in 1..Len(t) + 1 /\ Len(t) \in Nat
    BY <1>8
  <2>2. /\ Waits(Now(t), Own(t)) \in Nat /\ Creates(Now(t), Own(t)) \in Nat
        /\ Waits(b, Own(t)) \in Nat /\ Creates(b, Own(t)) \in Nat
    BY <1>8, <1>9, <2>1, OfLabel
  <2>3. CASE N = {}
    BY <1>5, <2>2, <2>3
  <2>4. CASE N # {}
    BY <1>4, <2>2, <2>4
  <2> QED
    BY <2>2, <2>3, <2>4
<1>39. TaskCounts'
  <2>1. ASSUME NEW p \in Lower, NEW n \in 0..clock[p], NEW m \in 0..clock[p], n < m
        PROVE  /\ Waits(At(p, n), Own(p)) <= Waits(At(p, m), Own(p))
               /\ Creates(At(p, n), Own(p)) <= Creates(At(p, m), Own(p))
               /\ Append(p, <<n, NoIndex>>) \in Tasks => Creates(At(p, n), Own(p)) < Creates(At(p, m), Own(p))
               /\ Append(p, <<n, NoIndex>>) \notin N
    <3>1. Append(p, <<n, NoIndex>>) \notin N
      <4>1. SUFFICES ASSUME Append(p, <<n, NoIndex>>) \in N PROVE FALSE
        OBVIOUS
      <4>2. PICK u \in N : Append(p, <<n, NoIndex>>) = u
        BY <4>1
      <4>3. p = t /\ n = clock[t]
        BY <1>25, <4>2
      <4>4. clock[t] \in Nat
        BY <1>8
      <4> QED
        BY <2>1, <4>3, <4>4
    <3> QED
      BY <1>1, <2>1, <3>1 DEF TaskCounts
  <2>2. ASSUME NEW p \in Lower, NEW n \in 0..clock[p]
        PROVE  Waits(At(p, n)', Own(p)) = Waits(At(p, n), Own(p))
               /\ Creates(At(p, n)', Own(p)) = Creates(At(p, n), Own(p))
    <3>1. Own(p) \in 1..Len(p) + 1
      BY <1>18
    <3> QED
      BY <1>23, <3>1 DEF SameButMark
  <2>3. ASSUME NEW p \in Lower, NEW n \in 0..clock'[p], NEW m \in 0..clock'[p], n < m
        PROVE  /\ Waits(At(p, n)', Own(p)) <= Waits(At(p, m)', Own(p))
               /\ Creates(At(p, n)', Own(p)) <= Creates(At(p, m)', Own(p))
               /\ Append(p, <<n, NoIndex>>) \in Tasks' => Creates(At(p, n)', Own(p)) < Creates(At(p, m)', Own(p))
    <3>1. CASE m \in 0..clock[p]
      <4>1. n \in 0..clock[p]
        <5>1. clock[p] \in Nat /\ n \in Nat
          BY <1>7, <1>18
        <5> QED
          BY <2>3, <3>1, <5>1
      <4> QED
        BY <1>6, <2>1, <2>2, <2>3, <3>1, <4>1
    <3>2. CASE m \notin 0..clock[p]
      <4>1. p = t
        BY <1>18, <2>3, <3>2
      <4>2. clock[t] \in Nat /\ m = clock[t] + 1 /\ n \in 0..clock[t] /\ clock[t] \in 0..clock[t]
        BY <1>6, <1>8, <2>3, <3>2, <4>1
      <4>3. At(t, m)' = b
        BY <1>24, <4>2
      <4>4. /\ Waits(At(t, n)', Own(t)) = Waits(At(t, n), Own(t))
            /\ Creates(At(t, n)', Own(t)) = Creates(At(t, n), Own(t))
        BY <1>6, <2>2, <4>2
      <4>5. CASE n < clock[t]
        <5>1. /\ Waits(At(t, n), Own(t)) <= Waits(Now(t), Own(t))
              /\ Creates(At(t, n), Own(t)) <= Creates(Now(t), Own(t))
              /\ Append(t, <<n, NoIndex>>) \in Tasks => Creates(At(t, n), Own(t)) < Creates(Now(t), Own(t))
              /\ Append(t, <<n, NoIndex>>) \notin N
          BY <1>6, <1>8, <2>1, <4>2, <4>5
        <5>2. Waits(At(t, n), Own(t)) \in Nat /\ Creates(At(t, n), Own(t)) \in Nat
          <6>1. <<t, n>> \in Stretches /\ At(t, n) = recorded[<<t, n>>] /\ <<t, n>>[1] = t
            BY <1>6, <1>23, <4>2
          <6>2. TaskLabel(t, At(t, n))
            BY <1>10, <6>1
          <6>3. Own(t) \in 1..Len(t) + 1 /\ Len(t) \in Nat
            BY <1>8
          <6> QED
            BY <6>2, <6>3, OfLabel
        <5>3. \A x, y, z \in Nat : (x <= y /\ y <= z => x <= z) /\ (x < y /\ y <= z => x < z)
          OBVIOUS
        <5>4. Waits(At(t, n), Own(t)) <= Waits(b, Own(t)) /\ Creates(At(t, n), Own(t)) <= Creates(b, Own(t))
          BY <1>38, <5>1, <5>2, <5>3
        <5>5. Append(t, <<n, NoIndex>>) \in Tasks => Creates(At(t, n), Own(t)) < Creates(b, Own(t))
          BY <1>38, <5>1, <5>2, <5>3
        <5> QED
          BY <1>6, <4>1, <4>3, <4>4, <5>1, <5>4, <5>5
      <4>6. CASE n = clock[t]
        <5>1. At(t, n) = Now(t)
          BY <1>8, <4>6
        <5>2. Append(t, <<n, NoIndex>>) \notin Tasks
          <6>1. n \in Nat /\ n >= clock[t]
            BY <4>2, <4>6
          <6> QED
            BY <1>1, <1>6, <6>1, NotYetCreated
        <5>3. Append(t, <<n, NoIndex>>) \in Tasks' => N # {}
          BY <1>6, <5>2
        <5> QED
          BY <1>38, <4>1, <4>3, <4>4, <5>1, <5>3
      <4> QED
        BY <4>2, <4>5, <4>6
    <3> QED
      BY <3>1, <3>2
  <2>4. ASSUME NEW p \in N, NEW n \in 0..clock'[p], NEW m \in 0..clock'[p], n < m PROVE FALSE
    <3>1. clock'[p] = 0
      BY <1>6
    <3> QED
      BY <2>4, <3>1
  <2> QED
    BY <1>7, <2>3, <2>4 DEF TaskCounts
<1>40. TaskCurrent'
  <2>1. ASSUME NEW v \in Lower
        PROVE  /\ Live(v)' => label'[v] = Now(v)'
               /\ ~Live(v)' /\ Len(v) > 1 => /\ label'[v] \in Seq(TaskSegment) /\ Len(label'[v]) = Len(v)
                                             /\ \A i \in 1..Len(v) : label'[v][i] = Now(v)'[i]
    <3>1. CASE v = t
      BY <1>8, <1>18, <1>19, <3>1 DEF b
    <3>2. CASE v # t /\ Live(v)
      <4>1. label[v] = Now(v)
        BY <1>1, <3>2 DEF TaskCurrent
      <4>2. MarkedLabel(label'[v], Now(v), K)
        BY <1>3, <3>2, <4>1
      <4>3. MarkedLabel(Now(v)', Now(v), K)
        BY <1>3, <1>18, <3>2
      <4>4. label'[v] = Now(v)'
        <5>1. /\ label'[v] \in Seq(TaskSegment) /\ Now(v)' \in Seq(TaskSegment) /\ Len(label'[v]) = Len(Now(v)')
              /\ Len(label'[v]) = Len(Now(v))
          BY <4>2, <4>3 DEF MarkedLabel
        <5>2. \A i \in 1..Len(label'[v]) : label'[v][i] = Now(v)'[i]
          BY <4>2, <4>3, <5>1 DEF MarkedLabel
        <5> QED
          BY <5>1, <5>2, SeqEqual
      <4> QED
        BY <1>18, <3>2, <4>4
    <3>3. CASE v # t /\ ~Live(v)
      <4>1. SUFFICES ASSUME Len(v) > 1
                     PROVE  /\ label'[v] \in Seq(TaskSegment) /\ Len(label'[v]) = Len(v)
                            /\ \A i \in 1..Len(v) : label'[v][i] = Now(v)'[i]
        BY <1>18, <3>3
      <4>2. Len(label[v]) = Len(v) /\ \A i \in 1..Len(v) : label[v][i] = Now(v)[i]
        BY <1>1, <3>3, <4>1 DEF TaskCurrent
      <4>3. MarkedLabel(label'[v], label[v], K)
        BY <1>3, <3>3, <4>1
      <4>4. MarkedLabel(Now(v)', Now(v), K)
        BY <1>3, <1>18, <3>3
      <4>5. Len(Now(v)) = Len(v) + 1 /\ Len(v) \in Nat
        BY <1>1, NowIs
      <4> QED
        BY <4>2, <4>3, <4>4, <4>5 DEF MarkedLabel
    <3> QED
      BY <3>1, <3>2, <3>3
  <2>2. ASSUME NEW u \in N PROVE Live(u)' /\ label'[u] = Now(u)'
    BY <1>14
  <2> QED
    BY <1>7, <2>1, <2>2 DEF TaskCurrent
<1>41. TaskEpochs'
  <2>1. ASSUME NEW v \in Lower', Live(v)'
        PROVE  /\ v[1][1] = clock'[InitialTask] /\ Epoch(v)' = Epoch(t) /\ Epoch(v)' \in Nat
               /\ v \in Lower \/ v \in N
               /\ v \in Lower => Live(v) /\ Epoch(v) = Epoch(t)
    <3>1. CASE v \in Lower
      <4>1. Live(v)
        BY <1>18, <2>1, <3>1
      <4>2. v[1][1] = clock[InitialTask] /\ Epoch(v) = Epoch(t)
        BY <1>1, <1>6, <1>8, <3>1, <4>1 DEF TaskEpochs
      <4> QED
        BY <1>8, <1>21, <1>26, <3>1, <4>1, <4>2
    <3>2. CASE v \in N
      <4>1. v[1] = t[1]
        <5>1. 1 \in 1..Len(t)
          BY <1>8
        <5> QED
          BY <1>14, <3>2, <5>1
      <4> QED
        BY <1>7, <1>8, <1>22, <1>26, <3>2, <4>1
    <3> QED
      BY <1>7, <3>1, <3>2
  <2>2. ASSUME NEW s \in Stretches
        PROVE  Offset(recorded'[s], 1) = Offset(recorded[s], 1) /\ Offset(recorded[s], 1) \in Nat
    <3>1. 1 \in 1..Len(s[1]) + 1
      BY <1>10
    <3>2. Offset(recorded[s], 1) \in Nat
      BY <1>10, <3>1, OfLabel
    <3> QED
      BY <1>12, <3>1, <3>2 DEF SameButMark
  <2>3. ASSUME NEW s \in Stretches', s \notin Stretches
        PROVE  Offset(recorded'[s], 1) = Epoch(t) /\ s[1][1] = t[1]
    <3>1. 1 \in 1..Len(t)
      BY <1>8
    <3>2. recorded'[s][1] = Now(t)[1] /\ s[1][1] = t[1]
      BY <1>35, <2>3, <3>1
    <3> QED
      BY <1>8, <3>2 DEF Offset
  <2>4. ASSUME NEW s \in Stretches, Offset(recorded[s], 1) < Epoch(t), NEW v \in Lower', Live(v)'
        PROVE  s \in past'[v]
    <3>1. \A w \in Lower : Live(w) /\ Epoch(w) = Epoch(t) => s \in past[w]
      BY <1>1, <2>4 DEF TaskEpochs
    <3>2. s \in past[t]
      BY <1>6, <1>8, <3>1
    <3>3. s \in Upto(t)
      BY <3>2 DEF Upto
    <3>4. CASE v = t
      BY <1>4, <1>5, <3>3, <3>4
    <3>5. CASE v \in N
      BY <1>14, <3>3, <3>5
    <3>6. CASE v \in Lower /\ v # t
      BY <1>18, <2>1, <2>4, <3>1, <3>6
    <3> QED
      BY <1>7, <3>4, <3>5, <3>6
  <2>5. ASSUME NEW v \in Lower', NEW s \in Stretches', Live(v)'
        PROVE  /\ Offset(recorded'[s], 1) <= Epoch(v)'
               /\ Offset(recorded'[s], 1) = Epoch(v)' => s[1][1][1] = v[1][1]
               /\ Offset(recorded'[s], 1) < Epoch(v)' => s \in past'[v]
    <3>1. Epoch(v)' = Epoch(t) /\ v[1][1] = clock[InitialTask] /\ Epoch(t) \in Nat /\ t[1][1] = clock[InitialTask]
      BY <1>8, <1>26, <2>1, <2>5
    <3>2. CASE s \in Stretches
      <4>1. /\ Offset(recorded[s], 1) <= Epoch(t)
            /\ Offset(recorded[s], 1) = Epoch(t) => s[1][1][1] = t[1][1]
        BY <1>1, <1>6, <1>8, <3>2 DEF TaskEpochs
      <4>2. Offset(recorded'[s], 1) = Offset(recorded[s], 1)
        BY <2>2, <3>2
      <4>3. Offset(recorded'[s], 1) < Epoch(v)' => s \in past'[v]
        BY <2>4, <2>5, <3>1, <3>2, <4>2
      <4> QED
        BY <3>1, <4>1, <4>2, <4>3
    <3>3. CASE s \notin Stretches
      <4>1. Offset(recorded'[s], 1) = Epoch(t) /\ s[1][1] = t[1]
        BY <2>3, <3>3
      <4>2. ~(Epoch(t) < Epoch(t)) /\ Epoch(t) <= Epoch(t)
        BY <3>1
      <4> QED
        BY <3>1, <4>1, <4>2
    <3> QED
      BY <3>2, <3>3
  <2>6. ASSUME NEW v \in Lower', Live(v)' PROVE status'[InitialTask] = "forked" /\ v[1][1] = clock'[InitialTask]
    BY <1>26, <2>1, <2>6
  <2>7. ASSUME NEW v \in Lower', NEW u \in Lower', Live(v)', Live(u)' PROVE Epoch(v)' = Epoch(u)'
    BY <2>1, <2>7
  <2>8. status'[InitialTask] # "running"
    BY <1>26
  <2> QED
    BY <2>5, <2>6, <2>7, <2>8 DEF TaskEpochs
<1>42. TaskBounds(M)'
  <2>1. ASSUME NEW v \in Lower, Len(v) = 1, Live(v)'
        PROVE  /\ clock'[v] <= M
               /\ status'[v] \in {"atBarrier", "released"} => clock'[v] < M
               /\ Epoch(v)' <= clock'[InitialTask] * (M + 1) + clock'[v] + Leaving(v)'
    <3>1. Live(v) /\ Epoch(v)' = Epoch(v) /\ Leaving(v)' = Leaving(v) /\ status'[v] = status[v]
      BY <1>18, <1>21, <2>1
    <3>2. /\ clock[v] <= M
          /\ status[v] \in {"atBarrier", "released"} => clock[v] < M
          /\ Epoch(v) <= clock[InitialTask] * (M + 1) + clock[v] + Leaving(v)
      BY <1>1, <2>1, <3>1 DEF TaskBounds
    <3>3. CASE v # t
      BY <1>18, <1>26, <3>1, <3>2, <3>3
    <3>4. CASE v = t
      <4>1. clock[t] < M /\ clock[t] \in Nat /\ clock'[t] = clock[t] + 1 /\ status[t] = "running"
        BY <1>2, <1>6, <1>8
      <4>2. clock'[t] <= M
        BY <4>1
      <4>3. clock[InitialTask] * (M + 1) \in Nat /\ Leaving(t) = 0 /\ Epoch(t) \in Nat
        BY <1>7, <1>8, <4>1 DEF Leaving
      <4> DEFINE c == clock[InitialTask] * (M + 1)
      <4> HIDE DEF c
      <4>4. Epoch(t) <= c + clock[t] + 0 /\ c \in Nat
        BY <3>2, <3>4, <4>3 DEF c
      <4>5. Epoch(t) <= c + (clock[t] + 1) + 0
        BY <4>1, <4>3, <4>4
      <4>6. Epoch(t) <= clock[InitialTask] * (M + 1) + clock'[t] + Leaving(t)
        BY <4>1, <4>3, <4>5 DEF c
      <4> QED
        BY <1>26, <3>1, <3>4, <4>1, <4>2, <4>6
    <3> QED
      BY <3>3, <3>4
  <2>2. /\ clock'[InitialTask] <= M
        /\ status'[InitialTask] = "forked" => clock'[InitialTask] < M
        /\ Offset(label'[InitialTask], 1) <= clock'[InitialTask] * (M + 1)
    BY <1>1, <1>26 DEF TaskBounds
  <2>3. ASSUME NEW u \in N, Len(u) = 1 PROVE FALSE
    BY <1>14, <2>3
  <2> QED
    BY <1>7, <2>1, <2>2, <2>3 DEF TaskBounds
<1>43. ASSUME NEW u \in Lower, status'[u] = "ended" PROVE FALSE
  <2>1. u # t /\ status[u] = "ended" /\ u \in Tasks
    BY <1>2, <1>18, <1>43
  <2>2. Live(u) /\ u[1][1] = t[1][1]
    BY <1>1, <1>26, <2>1 DEF Live, TaskEpochs
  <2>3. Len(u) = 1
    <3>1. ~(Len(u) > 1) /\ Len(u) \in Nat \ {0}
      BY <1>1, <1>18, <2>1 DEF TaskTyped
    <3>2. \A n \in Nat \ {0} : ~(n > 1) => n = 1
      OBVIOUS
    <3> QED
      BY <3>1, <3>2, Zenon
  <2> QED
    BY <1>1, <1>6, <1>8, <2>1, <2>2, <2>3 DEF TaskEnds
<1>44. TaskEnds'
  <2>1. ASSUME NEW v \in Lower', NEW u \in Lower', Live(v)', v # u, v[1][1] = u[1][1], Len(u) = 1
        PROVE  status'[u] # "ended" /\ (status'[u] = "over" => status'[v] = "ended")
    <3>1. u \in Lower
      BY <1>7, <1>14, <2>1
    <3>2. status'[u] # "ended" /\ status'[u] = status[u]
      BY <1>18, <1>43, <3>1
    <3>3. ASSUME status[u] = "over" PROVE FALSE
      <4>1. CASE v \in Lower
        <5>1. Live(v)
          BY <1>18, <2>1, <4>1
        <5>2. status[v] = "ended"
          BY <1>1, <2>1, <3>1, <3>3, <4>1, <5>1 DEF TaskEnds
        <5> QED
          BY <1>18, <1>43, <4>1, <5>2
      <4>2. CASE v \in N
        <5>1. v[1] = t[1]
          <6>1. 1 \in 1..Len(t)
            BY <1>8
          <6> QED
            BY <1>14, <4>2, <6>1
        <5>2. t # u
          BY <1>2, <3>3
        <5>3. status[t] = "ended"
          BY <1>1, <1>6, <1>8, <2>1, <3>1, <3>3, <5>1, <5>2 DEF TaskEnds
        <5> QED
          BY <1>2, <5>3
      <4> QED
        BY <1>7, <4>1, <4>2
    <3> QED
      BY <3>2, <3>3
  <2>2. ASSUME NEW u \in Lower', status'[u] = "ended" PROVE FALSE
    BY <1>7, <1>14, <1>43, <2>2
  <2> QED
    BY <2>1, <2>2 DEF TaskEnds
<1>45. ASSUME NEW v \in Lower, Len(v) > 1
       PROVE  Front(v) \in Lower /\ Len(v) = Own(Front(v)) /\ Len(v) = Len(Front(v)) + 1
  <2>1. /\ Front(v) = SubSeq(v, 1, Len(v) - 1) /\ v \in TaskPaths /\ Len(v) - 1 \in 0..Len(v) /\ Len(v) - 1 # 0
        /\ Len(v) \in Nat /\ v \in Tasks
    BY <1>1, <1>18, <1>45, ExplicitIs
  <2>2. Front(v) \in Tasks /\ Front(v) # InitialTask /\ Len(Front(v)) = Len(v) - 1
    BY <1>1, <2>1, PathTo DEF TaskTree
  <2>3. Len(v) = Len(v) - 1 + 1
    BY <2>1
  <2> QED
    BY <1>7, <2>2, <2>3 DEF Own
\* Who is below t is the child of t on the path, or below that.
<1>46. ASSUME NEW s \in Stretches, Len(t) < Len(s[1]), SamePath(s[1], t, Len(t))
       PROVE  /\ SubSeq(s[1], 1, Len(t)) = t /\ SubSeq(s[1], 1, Own(t)) \in Kids(t)
              /\ SubSeq(s[1], 1, Own(t)) \in Lower /\ Len(SubSeq(s[1], 1, Own(t))) = Own(t)
              /\ Own(t) \in 2..Len(s[1])
  <2> DEFINE w == SubSeq(s[1], 1, Own(t))
  <2>1. /\ Len(t) \in 0..Len(s[1]) /\ Len(t) <= Len(t) /\ Own(t) \in 1..Len(s[1]) /\ Own(t) \in 0..Len(s[1])
        /\ Len(t) \in 0..Own(t) /\ Own(t) - 1 = Len(t) /\ Own(t) > 1 /\ Own(t) \in 2..Len(s[1])
    BY <1>8, <1>10, <1>46
  <2>2. SubSeq(s[1], 1, Len(t)) = SubSeq(t, 1, Len(t))
    <3>1. s[1] \in TaskPaths /\ t \in TaskPaths
      BY <1>8, <1>10
    <3> QED
      BY <1>46, <2>1, <3>1, SamePathTo
  <2>3. SubSeq(t, 1, Len(t)) = t
    <3>1. Len(t) \in 0..Len(t)
      BY <1>8
    <3> QED
      BY <1>8, <3>1, PathTo
  <2>4. w \in Lower /\ Len(w) = Own(t)
    BY <1>33, <2>1
  <2>5. SubSeq(w, 1, Len(t)) = t
    BY <1>10, <2>1, <2>2, <2>3, PathToPath
  <2>6. Front(w) = t
    <3>1. Front(w) = SubSeq(w, 1, Len(w) - 1)
      BY <1>1, <2>4, ExplicitIs
    <3> QED
      BY <2>1, <2>4, <2>5, <3>1
  <2>7. w \in Tasks
    BY <1>7, <2>4
  <2> HIDE DEF w
  <2>8. w \in Kids(t)
    BY <2>1, <2>4, <2>6, <2>7 DEF Kids
  <2> QED
    BY <2>1, <2>2, <2>3, <2>4, <2>8 DEF w
<1>47. ASSUME NEW i \in 2..Len(t), Waited(Now(t), i) PROVE status[SubSeq(t, 1, i)] = "over" /\ i < Len(t)
  <2>1. status[SubSeq(t, 1, i)] = "over"
    BY <1>1, <1>8, <1>47 DEF TaskMarks
  <2>2. i # Len(t)
    <3>1. SUFFICES ASSUME i = Len(t) PROVE FALSE
      OBVIOUS
    <3>2. Len(t) \in 0..Len(t)
      BY <1>8
    <3>3. SubSeq(t, 1, i) = t
      BY <1>8, <3>1, <3>2, PathTo
    <3> QED
      BY <1>2, <2>1, <3>3
  <2>3. i <= Len(t) /\ i \in Nat /\ Len(t) \in Nat
    BY <1>8
  <2> QED
    BY <2>1, <2>2, <2>3
<1>48. TaskMarks'
  <2>1. ASSUME NEW s \in Stretches', NEW i \in 2..Len(s[1]), Waited(recorded'[s], i)
        PROVE  status'[SubSeq(s[1], 1, i)] = "over"
    <3>1. CASE s \in Stretches
      <4>1. status[SubSeq(s[1], 1, i)] = "over"
        <5>1. i \in 1..Len(s[1]) + 1 /\ i \in 2..Len(s[1]) + 1
          BY <1>10, <3>1
        <5>2. Waited(recorded[s], i) \/ recorded[s][i].obj \in K
          BY <1>12, <2>1, <3>1, <5>1
        <5>3. CASE Waited(recorded[s], i)
          BY <1>1, <3>1, <5>3 DEF TaskMarks
        <5>4. CASE recorded[s][i].obj \in K
          <6>1. i = Own(t) /\ Len(t) <= Len(s[1]) /\ SamePath(s[1], t, Len(t)) /\ N = {}
            BY <1>13, <3>1, <5>1, <5>4
          <6>2. Len(t) < Len(s[1])
            <7>1. i <= Len(s[1]) /\ i = Len(t) + 1
              BY <1>8, <6>1
            <7> QED
              BY <1>8, <1>10, <3>1, <7>1
          <6>3. SubSeq(s[1], 1, i) \in Kids(t)
            BY <1>46, <3>1, <6>1, <6>2
          <6> QED
            BY <1>5, <6>1, <6>3
        <5> QED
          BY <5>2, <5>3, <5>4
      <4>2. i \in 1..Len(s[1])
        BY <1>10, <3>1
      <4>3. SubSeq(s[1], 1, i) \in Lower
        BY <1>33, <3>1, <4>2
      <4> QED
        BY <1>18, <4>1, <4>3
    <3>2. CASE s \notin Stretches
      <4>1. s[1] \in TaskPaths /\ (Len(s[1]) = Len(t) \/ (Len(s[1]) = Len(t) + 1 /\ s # new))
            /\ Len(s[1]) \in Nat \ {0}
        BY <1>14, <1>35, <3>2
      <4>2. CASE i <= Len(t)
        <5>1. i \in 2..Len(t) /\ i \in 1..Len(t) /\ i \in 0..Len(s[1]) /\ (\A k \in 1..i : k \in 1..Len(t))
          BY <1>8, <4>1, <4>2
        <5>2. recorded'[s][i] = Now(t)[i]
          BY <1>35, <3>2, <5>1
        <5>3. status[SubSeq(t, 1, i)] = "over"
          BY <1>47, <2>1, <5>1, <5>2 DEF Waited
        <5>4. SamePath(s[1], t, i)
          BY <1>35, <3>2, <5>1 DEF SamePath
        <5>5. SubSeq(s[1], 1, i) = SubSeq(t, 1, i)
          BY <1>8, <4>1, <4>2, <5>1, <5>4, SamePathTo
        <5>6. SubSeq(t, 1, i) \in Lower
          BY <1>8, <1>33, <5>1
        <5> QED
          BY <1>18, <5>3, <5>5, <5>6
      <4>3. CASE ~(i <= Len(t))
        <5>1. s # new /\ i = Own(t)
          BY <1>8, <4>1, <4>3
        <5>2. recorded'[s][Own(t)] = Now(t)[Own(t)]
          BY <1>35, <3>2, <5>1
        <5>3. ~Waited(Now(t), Own(t))
          BY <1>1, <1>6 DEF TaskMarks
        <5> QED
          BY <2>1, <5>1, <5>2, <5>3 DEF Waited
      <4> QED
        BY <4>2, <4>3
    <3> QED
      BY <3>1, <3>2
  <2>2. ASSUME NEW v \in Lower' PROVE ~Waited(Now(v)', Own(v))
    <3>1. CASE v = t
      BY <1>9, <1>19, <3>1
    <3>2. CASE v \in N
      BY <1>14, <1>15, <3>2
    <3>3. CASE v \in Lower /\ v # t
      <4>1. ~Waited(Now(v), Own(v))
        BY <1>1, <3>3 DEF TaskMarks
      <4>2. /\ Stretch(v) \in Stretches /\ Stretch(v)[1] = v /\ Now(v)' = recorded'[Stretch(v)]
            /\ Now(v) = recorded[Stretch(v)]
            /\ Own(v) = Len(v) + 1 /\ Len(v) \in Nat \ {0} /\ v \in TaskPaths
        BY <1>18, <3>3
      <4>3. Own(v) \in 2..Len(v) + 1 /\ Own(v) \in 1..Len(v) + 1
        BY <4>2
      <4>4. ASSUME recorded[Stretch(v)][Own(v)].obj \in K PROVE FALSE
        <5>1. Own(v) = Own(t) /\ SubSeq(v, 1, Len(t)) = t
          BY <1>13, <4>2, <4>3, <4>4
        <5>2. Len(v) = Len(t) /\ Len(v) \in 0..Len(v)
          BY <1>8, <4>2, <5>1
        <5> QED
          BY <3>3, <4>2, <5>1, <5>2, PathTo
      <4> QED
        BY <1>12, <4>1, <4>2, <4>3, <4>4
    <3> QED
      BY <1>7, <3>1, <3>2, <3>3
  <2>3. ASSUME NEW d \in 0..clock[t] PROVE Waits(At(t, d), Own(t)) <= Waits(Now(t), Own(t))
    <3>1. CASE d = clock[t]
      <4>1. \A x \in Nat : x <= x
        OBVIOUS
      <4> QED
        BY <1>8, <1>38, <3>1, <4>1
    <3>2. CASE d # clock[t]
      <4>1. d < clock[t] /\ clock[t] \in 0..clock[t]
        BY <1>8, <3>2
      <4> QED
        BY <1>1, <1>6, <1>8, <4>1 DEF TaskCounts
    <3> QED
      BY <3>1, <3>2
  <2>4. ASSUME NEW v \in Lower', Len(v) > 1, Live(v)', NEW d \in 0..clock'[Front(v)]
        PROVE  Waits(At(Front(v), d)', Len(v)) <= Waits(Now(v)', Len(v))
    <3>1. CASE v \in N
      <4>1. Front(v) = t /\ Len(v) = Own(t) /\ Own(t) \in 1..Own(t) /\ Own(t) \in 1..Len(t) + 1
        <5>1. Own(t) \in 1..Own(t) /\ Own(t) \in 1..Len(t) + 1 /\ Own(t) = Len(t) + 1
          BY <1>8
        <5>2. Front(v) = t /\ Len(v) = Len(t) + 1
          BY <1>14, <3>1
        <5> QED
          BY <5>1, <5>2
      <4>2. Waits(Now(v)', Own(t)) = Waits(Now(t), Own(t))
        <5>1. label'[v][Own(t)] = Now(t)[Own(t)]
          BY <1>15, <3>1, <4>1
        <5>2. Now(v)' = label'[v]
          BY <1>14, <3>1
        <5> QED
          BY <5>1, <5>2 DEF Waits
      <4>3. CASE d \in 0..clock[t]
        <5>1. Waits(At(t, d)', Own(t)) = Waits(At(t, d), Own(t))
          BY <1>6, <1>23, <4>1, <4>3 DEF SameButMark
        <5> QED
          BY <2>3, <4>1, <4>2, <4>3, <5>1
      <4>4. CASE d \notin 0..clock[t]
        <5>1. d = clock[t] + 1
          BY <1>6, <1>8, <2>4, <4>1, <4>4
        <5>2. At(t, d)' = b
          BY <1>24, <5>1
        <5>3. Waits(b, Own(t)) = Waits(Now(t), Own(t)) /\ Waits(b, Own(t)) \in Nat
          BY <1>38, <3>1
        <5>4. \A x \in Nat : x <= x
          OBVIOUS
        <5> QED
          BY <4>1, <4>2, <5>2, <5>3, <5>4
      <4> QED
        BY <4>3, <4>4
    <3>2. CASE v \in Lower
      <4>1. Front(v) \in Lower /\ Len(v) = Own(Front(v)) /\ Len(v) = Len(Front(v)) + 1
        BY <1>45, <2>4, <3>2
      <4>2. Live(v) /\ Waits(Now(v)', Len(v)) = Waits(Now(v), Len(v))
        <5>1. Len(v) \in 1..Len(v) + 1 /\ (v = t => Len(v) <= Len(t))
          BY <1>18, <3>2
        <5> QED
          BY <1>18, <1>20, <2>4, <3>2, <5>1
      <4>3. \A e \in 0..clock[Front(v)] : Waits(At(Front(v), e), Len(v)) <= Waits(Now(v), Len(v))
        BY <1>1, <2>4, <3>2, <4>2 DEF TaskMarks
      <4>4. CASE d \in 0..clock[Front(v)]
        <5>1. Len(v) \in 1..Len(Front(v)) + 1
          BY <1>18, <3>2, <4>1
        <5>2. Waits(At(Front(v), d)', Len(v)) = Waits(At(Front(v), d), Len(v))
          BY <1>23, <4>1, <4>4, <5>1 DEF SameButMark
        <5> QED
          BY <4>2, <4>3, <4>4, <5>2
      <4>5. CASE d \notin 0..clock[Front(v)]
        <5>1. Front(v) = t
          BY <1>18, <2>4, <4>1, <4>5
        <5>2. d = clock[t] + 1
          BY <1>6, <1>8, <2>4, <4>5, <5>1
        <5>3. v \in Kids(t)
          BY <1>18, <2>4, <3>2, <5>1 DEF Kids
        <5>4. N # {}
          BY <1>5, <4>2, <5>3 DEF Live
        <5>5. Waits(At(t, d)', Own(t)) = Waits(Now(t), Own(t))
          BY <1>24, <1>38, <5>2, <5>4
        <5>6. Waits(At(t, clock[t]), Len(v)) <= Waits(Now(v), Len(v))
          BY <1>8, <4>3, <5>1
        <5> QED
          BY <1>8, <4>1, <4>2, <5>1, <5>5, <5>6
      <4> QED
        BY <4>4, <4>5
    <3> QED
      BY <1>7, <3>1, <3>2
  <2> QED
    BY <2>1, <2>2, <2>4 DEF TaskMarks
<1>49. ASSUME NEW v \in Lower PROVE past[v] \subseteq past'[v]
  <2>1. CASE v = t
    BY <1>4, <1>5, <2>1 DEF Upto
  <2>2. CASE v # t
    BY <1>18, <2>2
  <2> QED
    BY <2>1, <2>2
\* Who waits gets everything that the tasks it waits for had done, or waited for.
<1>50. ASSUME NEW s \in Stretches, Len(t) < Len(s[1]), SamePath(s[1], t, Len(t)), N = {},
              \A i \in Own(t) + 1..Len(s[1]) : Waited(recorded[s], i)
       PROVE  s \in past'[t]
  <2> DEFINE c == SubSeq(s[1], 1, Own(t))
  <2>1. c \in Kids(t) /\ c \in Lower /\ Len(c) = Own(t) /\ Own(t) \in 2..Len(s[1])
    BY <1>46, <1>50
  <2>2. Len(s[1]) \in Nat /\ s[1] \in TaskPaths /\ s[2] \in Nat /\ s[2] <= clock[s[1]] /\ clock[s[1]] \in Nat
        /\ s = <<s[1], s[2]>>
    BY <1>10
  <2>3. s \in Upto(c)
    <3>1. CASE Own(t) < Len(s[1])
      <4>1. Own(t) \in 1..Len(s[1]) - 1
        BY <2>1, <2>2, <3>1
      <4>2. Chain(s, Own(t) + 1)
        BY <1>50 DEF Chain
      <4>3. s \in past[c]
        BY <1>1, <4>1, <4>2 DEF TaskChain
      <4> QED
        BY <4>3 DEF Upto
    <3>2. CASE Own(t) = Len(s[1])
      <4>1. s[1] = c /\ Len(c) > 1
        <5>1. Len(s[1]) \in 0..Len(s[1]) /\ Own(t) > 1
          BY <2>1, <2>2
        <5> QED
          BY <2>1, <2>2, <3>2, <5>1, PathTo
      <4> HIDE DEF c
      <4>2. CASE s[2] = clock[c]
        BY <2>2, <4>1, <4>2 DEF Upto, Stretch
      <4>3. CASE s[2] # clock[c]
        <5>1. s[2] \in 0..clock[c] - 1
          BY <2>2, <4>1, <4>3
        <5>2. <<c, s[2]>> \in past[c]
          BY <1>1, <2>1, <4>1, <5>1 DEF TaskLineage
        <5> QED
          BY <2>2, <4>1, <5>2 DEF Upto
      <4> QED
        BY <4>2, <4>3
    <3>3. Own(t) <= Len(s[1]) /\ Own(t) \in Nat
      BY <2>1
    <3> HIDE DEF c
    <3> QED
      BY <2>2, <3>1, <3>2, <3>3
  <2> HIDE DEF c
  <2> QED
    BY <1>5, <1>50, <2>1, <2>3
\* As long as t lives, its parent has not waited since it created t.
<1>51. ASSUME NEW v \in Lower, Len(t) > 1, Len(t) - 1 <= Len(v), SamePath(t, v, Len(t) - 1)
       PROVE  Waits(Now(v), Len(t)) <= Waits(Now(t), Len(t))
  <2>1. /\ Len(t) - 1 \in 1..Len(v) /\ Len(t) - 1 \in 0..Len(t) /\ Len(t) - 1 + 1 = Len(t)
        /\ t \in TaskPaths /\ v \in TaskPaths
    <3>1. Len(v) \in Nat /\ Len(t) \in Nat /\ t \in TaskPaths /\ v \in TaskPaths
      BY <1>8, <1>18
    <3> QED
      BY <1>51, <3>1
  <2>2. Front(t) = SubSeq(t, 1, Len(t) - 1)
    BY <1>1, <1>6, ExplicitIs
  <2>3. SubSeq(t, 1, Len(t) - 1) = SubSeq(v, 1, Len(t) - 1)
    BY <1>51, <2>1, SamePathTo
  <2>4. Stretch(v) \in Stretches /\ Stretch(v)[1] = v /\ Now(v) = recorded[Stretch(v)]
    BY <1>18
  <2>5. PICK d \in 0..clock[Front(t)] : Now(v)[Len(t)] = At(Front(t), d)[Len(t)]
    <3> DEFINE j == Len(t) - 1
               d == In(Stretch(v), j)
    <3>1. j \in 1..Len(Stretch(v)[1]) /\ SubSeq(Stretch(v)[1], 1, j) = Front(t)
      BY <2>1, <2>2, <2>3, <2>4
    <3> HIDE DEF j
    <3>2. d \in 0..clock[Front(t)] /\ recorded[Stretch(v)][j + 1] = At(Front(t), d)[j + 1]
      BY <1>1, <2>4, <3>1, OfWay
    <3>3. j + 1 = Len(t)
      BY <2>1 DEF j
    <3> HIDE DEF d
    <3> QED
      BY <2>4, <3>2, <3>3
  <2>6. Waits(At(Front(t), d), Len(t)) <= Waits(Now(t), Len(t))
    BY <1>1, <1>6, <1>8, <1>51 DEF TaskMarks
  <2> QED
    BY <2>5, <2>6 DEF Waits
\* Nothing that was recorded below t knows of a taskwait of t that t does not.
<1>52. ASSUME NEW s \in Stretches, Len(t) <= Len(s[1]), SamePath(s[1], t, Len(t))
       PROVE  Waits(recorded[s], Own(t)) <= Waits(Now(t), Own(t))
  <2>1. /\ Len(t) \in 1..Len(s[1]) /\ Len(t) \in 0..Len(s[1]) /\ Len(t) \in 0..Len(t) /\ Len(t) <= Len(t)
        /\ t \in TaskPaths /\ s[1] \in TaskPaths
    <3>1. Len(s[1]) \in Nat /\ Len(t) \in Nat \ {0} /\ t \in TaskPaths /\ s[1] \in TaskPaths
      BY <1>8, <1>10
    <3> QED
      BY <1>52, <3>1
  <2>2. SubSeq(s[1], 1, Len(t)) = SubSeq(t, 1, Len(t))
    BY <1>52, <2>1, SamePathTo
  <2>3. SubSeq(t, 1, Len(t)) = t
    BY <2>1, PathTo
  <2>4. PICK d \in 0..clock[t] : recorded[s][Len(t) + 1] = At(t, d)[Len(t) + 1]
    <3> DEFINE d == In(s, Len(t))
    <3>1. SubSeq(s[1], 1, Len(t)) = t
      BY <2>2, <2>3
    <3>2. d \in 0..clock[t] /\ recorded[s][Len(t) + 1] = At(t, d)[Len(t) + 1]
      BY <1>1, <2>1, <3>1, OfWay
    <3> HIDE DEF d
    <3> QED
      BY <3>2
  <2>5. Waits(At(t, d), Own(t)) <= Waits(Now(t), Own(t))
    <3>1. CASE d = clock[t]
      <4>1. \A x \in Nat : x <= x
        OBVIOUS
      <4> QED
        BY <1>8, <1>38, <3>1, <4>1
    <3>2. CASE d # clock[t]
      <4>1. d < clock[t] /\ clock[t] \in 0..clock[t]
        BY <1>8, <3>2
      <4> QED
        BY <1>1, <1>6, <1>8, <4>1 DEF TaskCounts
    <3> QED
      BY <3>1, <3>2
  <2> QED
    BY <1>8, <2>4, <2>5 DEF Waits
\* A mark that s gets now is that of t, whom nobody has waited for.
<1>53. ASSUME NEW s \in Stretches, NEW j \in 1..Len(s[1]), Chain(s, j + 1)', ~Chain(s, j + 1)
       PROVE  /\ N = {} /\ Len(t) < Len(s[1]) /\ SamePath(s[1], t, Len(t)) /\ SubSeq(s[1], 1, Len(t)) = t
              /\ j = Len(t)
              /\ \A i \in Own(t) + 1..Len(s[1]) : Waited(recorded[s], i)
  <2>1. PICK i \in j + 1..Len(s[1]) : ~Waited(recorded[s], i)
    BY <1>53 DEF Chain
  <2>2. Len(s[1]) \in Nat \ {0} /\ j \in Nat \ {0} /\ Len(t) \in Nat \ {0}
    BY <1>8, <1>10
  <2>3. ASSUME NEW k \in j + 1..Len(s[1])
        PROVE  k \in 1..Len(s[1]) + 1 /\ k \in 2..Len(s[1]) + 1
               /\ (Waited(recorded[s], k) \/ recorded[s][k].obj \in K)
    <3>1. k \in 1..Len(s[1]) + 1 /\ k \in 2..Len(s[1]) + 1
      BY <2>2
    <3>2. Waited(recorded'[s], k)
      BY <1>53 DEF Chain
    <3> QED
      BY <1>12, <3>1, <3>2
  <2>4. i = Own(t) /\ SubSeq(s[1], 1, Len(t)) = t /\ SamePath(s[1], t, Len(t)) /\ N = {}
    BY <1>13, <2>1, <2>3
  <2>5. Len(t) < Len(s[1]) /\ j <= Len(t)
    BY <1>8, <2>2, <2>4
  <2>6. ASSUME NEW k \in j + 1..Len(s[1]), k # Own(t) PROVE Waited(recorded[s], k)
    BY <1>13, <2>3, <2>6
  <2>7. j = Len(t)
    <3>1. SUFFICES ASSUME j # Len(t) PROVE FALSE
      OBVIOUS
    <3>2. Len(t) \in j + 1..Len(s[1]) /\ Len(t) # Own(t) /\ Len(t) \in 2..Len(s[1])
      BY <1>8, <2>2, <2>5, <3>1
    <3>3. status[SubSeq(s[1], 1, Len(t))] = "over"
      BY <1>1, <2>6, <3>2 DEF TaskMarks
    <3> QED
      BY <1>2, <2>4, <3>3
  <2>8. ASSUME NEW k \in Own(t) + 1..Len(s[1]) PROVE Waited(recorded[s], k)
    <3>1. k \in j + 1..Len(s[1]) /\ k # Own(t)
      BY <1>8, <2>2, <2>7
    <3> QED
      BY <2>6, <3>1
  <2> QED
    BY <2>4, <2>5, <2>7, <2>8
<1>54. ASSUME NEW s \in Stretches', s \notin Stretches, NEW j \in 1..Len(s[1]), Chain(s, j + 1)' PROVE j = Len(s[1])
  <2>1. SUFFICES ASSUME j # Len(s[1]) PROVE FALSE
    OBVIOUS
  <2>2. Len(s[1]) \in Nat \ {0} /\ Len(t) \in Nat \ {0}
    BY <1>8, <1>35, <1>54
  <2>3. Len(s[1]) \in j + 1..Len(s[1]) /\ Len(s[1]) > 1
    BY <2>1, <2>2
  <2>4. Waited(recorded'[s], Len(s[1]))
    BY <1>54, <2>3 DEF Chain
  <2>5. CASE s = new
    <3>1. s[1] = t /\ Len(t) \in 1..Len(t) /\ Len(t) \in 2..Len(t)
      BY <1>7, <2>2, <2>3, <2>5
    <3>2. recorded'[s][Len(t)] = Now(t)[Len(t)]
      BY <1>35, <1>54, <3>1
    <3>3. Waited(Now(t), Len(t))
      BY <2>4, <3>1, <3>2 DEF Waited
    <3>4. Len(t) < Len(t)
      BY <1>47, <3>1, <3>3
    <3> QED
      BY <2>2, <3>4
  <2>6. CASE s # new
    <3>1. s[1] \in N /\ recorded'[s][Own(t)] = Now(t)[Own(t)]
      BY <1>35, <1>54, <2>6
    <3>2. Len(s[1]) = Own(t)
      BY <1>8, <1>14, <3>1
    <3>3. Waited(Now(t), Own(t))
      BY <2>4, <3>1, <3>2 DEF Waited
    <3> QED
      BY <1>1, <1>6, <3>3 DEF TaskMarks
  <2> QED
    BY <2>5, <2>6
<1>55. TaskChain'
  <2>1. ASSUME NEW s \in Stretches', NEW j \in 1..Len(s[1]) - 1, Chain(s, j + 1)'
        PROVE  s \in past'[SubSeq(s[1], 1, j)]
    <3>1. CASE s \in Stretches
      <4>1. j \in 1..Len(s[1])
        BY <1>10, <3>1
      <4>2. SubSeq(s[1], 1, j) \in Lower
        BY <1>33, <3>1, <4>1
      <4>3. CASE Chain(s, j + 1)
        <5>1. s \in past[SubSeq(s[1], 1, j)]
          BY <1>1, <3>1, <4>3 DEF TaskChain
        <5> QED
          BY <1>49, <4>2, <5>1
      <4>4. CASE ~Chain(s, j + 1)
        <5>1. /\ N = {} /\ Len(t) < Len(s[1]) /\ SamePath(s[1], t, Len(t)) /\ SubSeq(s[1], 1, Len(t)) = t
              /\ j = Len(t)
              /\ \A i \in Own(t) + 1..Len(s[1]) : Waited(recorded[s], i)
          BY <1>53, <2>1, <3>1, <4>1, <4>4
        <5>2. s \in past'[t]
          BY <1>50, <3>1, <5>1
        <5> QED
          BY <5>1, <5>2
      <4> QED
        BY <4>3, <4>4
    <3>2. CASE s \notin Stretches
      <4>1. Len(s[1]) \in Nat \ {0}
        BY <1>35, <3>2
      <4>2. j \in 1..Len(s[1]) /\ j # Len(s[1])
        BY <4>1
      <4> QED
        BY <1>54, <2>1, <3>2, <4>2
    <3> QED
      BY <3>1, <3>2
  <2> QED
    BY <2>1 DEF TaskChain
<1>56. ASSUME NEW s \in Stretches, NEW i \in 1..Len(s[1]) + 1
       PROVE  Waits(recorded'[s], i) = Waits(recorded[s], i) /\ Waits(recorded[s], i) \in Nat
  <2>1. Waits(recorded[s], i) \in Nat
    BY <1>10, OfLabel
  <2> QED
    BY <1>12, <2>1 DEF SameButMark
<1>57. ASSUME NEW v \in Lower, NEW i \in 1..Len(v) + 1
       PROVE  Waits(Now(v), i) \in Nat
  <2>1. Stretch(v) \in Stretches /\ i \in 1..Len(Stretch(v)[1]) + 1 /\ Now(v) = recorded[Stretch(v)]
    BY <1>18
  <2> QED
    BY <1>56, <2>1
<1>58. ASSUME NEW u \in N, NEW i \in 1..Own(t) PROVE Waits(Now(u)', i) = Waits(Now(t), i)
  <2>1. label'[u][i] = Now(t)[i]
    BY <1>15
  <2>2. Now(u)' = label'[u]
    BY <1>14
  <2> QED
    BY <2>1, <2>2 DEF Waits
<1>59. ASSUME NEW s \in Stretches', s \notin Stretches, NEW v \in Lower', NEW j \in 1..Len(s[1]) - 1,
              Joined(s, v, j)', Chain(s, j + 2)'
       PROVE  FALSE
  <2>1. Len(s[1]) \in Nat \ {0} /\ Len(t) \in Nat \ {0} /\ j + 1 + 1 = j + 2 /\ j + 1 \in 1..Len(s[1])
        /\ j \in Nat \ {0}
        /\ j + 1 - 1 = j
    BY <1>8, <1>35, <1>59
  <2>2. j + 1 = Len(s[1])
    <3>1. Chain(s, j + 1 + 1)'
      BY <1>59, <2>1
    <3> QED
      BY <1>54, <1>59, <2>1, <3>1
  <2>3. /\ j <= Len(v) /\ SamePath(s[1], v, j)
        /\ Waits(recorded'[s], j + 1) < Waits(Now(v)', j + 1)
    BY <1>59 DEF Joined
  <2>4. Len(v) \in Nat
    BY <1>14, <1>7, <1>18, <2>1
  <2>5. ~(Waits(Now(t), j + 1) < Waits(Now(t), j + 1))
    <3>1. j + 1 \in 1..Len(t) + 1
      <4>1. Len(s[1]) = Len(t) \/ Len(s[1]) = Len(t) + 1
        BY <1>14, <1>35, <1>59
      <4> QED
        BY <2>1, <2>2, <4>1
    <3>2. Waits(Now(t), j + 1) \in Nat
      BY <1>6, <1>57, <3>1
    <3> QED
      BY <3>2
  <2>6. CASE s = new
    <3>1. s[1] = t /\ j + 1 = Len(t) /\ j + 1 \in 1..Len(t) /\ Len(t) - 1 = j /\ Len(t) > 1 /\ j + 1 \in 1..Own(t)
      BY <1>7, <1>8, <2>1, <2>2, <2>6
    <3>2. recorded'[s][j + 1] = Now(t)[j + 1]
      BY <1>35, <1>59, <3>1
    <3>3. Waits(Now(t), j + 1) < Waits(Now(v)', j + 1)
      BY <2>3, <3>2 DEF Waits
    <3>4. CASE v \in N
      BY <1>58, <2>5, <3>1, <3>3, <3>4
    <3>5. CASE v \in Lower
      <4>1. Waits(Now(v), j + 1) <= Waits(Now(t), j + 1)
        BY <1>51, <2>3, <3>1, <3>5
      <4>2. j + 1 \in 1..Len(v) + 1 /\ (v = t => j + 1 <= Len(t))
        BY <2>1, <2>3, <2>4, <3>1
      <4>3. Waits(Now(v)', j + 1) = Waits(Now(v), j + 1)
        BY <1>20, <3>5, <4>2
      <4>4. Waits(Now(v), j + 1) \in Nat /\ Waits(Now(t), j + 1) \in Nat
        <5>1. j + 1 \in 1..Len(t) + 1
          BY <2>1, <3>1
        <5> QED
          BY <1>6, <1>57, <3>5, <4>2, <5>1
      <4>5. \A x, y \in Nat : x <= y => ~(y < x)
        OBVIOUS
      <4> QED
        BY <3>3, <4>1, <4>3, <4>4, <4>5
    <3> QED
      BY <1>7, <3>4, <3>5
  <2>7. CASE s # new
    <3>1. s[1] \in N /\ N # {} /\ recorded'[s][Own(t)] = Now(t)[Own(t)]
      BY <1>35, <1>59, <2>7
    <3>2. Len(s[1]) = Len(t) + 1 /\ \A i \in 1..Len(t) : s[1][i] = t[i]
      BY <1>14, <3>1
    <3>3. j = Len(t) /\ j + 1 = Own(t) /\ Own(t) \in 1..Own(t) /\ Own(t) \in 1..Len(t) + 1
      BY <1>8, <2>1, <2>2, <3>2
    <3>4. Waits(Now(t), j + 1) < Waits(Now(v)', j + 1)
      BY <2>3, <3>1, <3>3 DEF Waits
    <3>5. CASE v \in N
      BY <1>58, <2>5, <3>3, <3>4, <3>5
    <3>6. CASE v = t
      BY <1>19, <1>38, <2>5, <3>1, <3>3, <3>4, <3>6
    <3>7. CASE v \in Lower /\ v # t
      <4>1. Len(t) <= Len(v) /\ SamePath(v, t, Len(t))
        BY <2>3, <3>2, <3>3 DEF SamePath
      <4>2. Waits(Now(v), j + 1) <= Waits(Now(t), j + 1)
        <5>1. Stretch(v) \in Stretches /\ Stretch(v)[1] = v /\ Now(v) = recorded[Stretch(v)]
          BY <1>18, <3>7
        <5> QED
          BY <1>52, <3>3, <4>1, <5>1
      <4>3. j + 1 \in 1..Len(v) + 1
        BY <2>1, <2>3, <2>4
      <4>4. Waits(Now(v)', j + 1) = Waits(Now(v), j + 1)
        BY <1>20, <3>7, <4>3
      <4>5. Waits(Now(v), j + 1) \in Nat /\ Waits(Now(t), j + 1) \in Nat
        BY <1>38, <1>57, <3>3, <3>7, <4>3
      <4>6. \A x, y \in Nat : x <= y => ~(y < x)
        OBVIOUS
      <4> QED
        BY <3>4, <4>2, <4>4, <4>5, <4>6
    <3> QED
      BY <1>7, <3>5, <3>6, <3>7
  <2> QED
    BY <2>6, <2>7
<1>60. ASSUME NEW s \in Stretches, NEW v \in Lower, NEW j \in 1..Len(s[1]) - 1, v = t => j < Len(t)
       PROVE  Joined(s, v, j)' <=> Joined(s, v, j)
  <2>1. j + 1 \in 1..Len(s[1]) + 1 /\ j \in Nat \ {0} /\ Len(v) \in Nat
    BY <1>10, <1>18
  <2>2. Waits(recorded'[s], j + 1) = Waits(recorded[s], j + 1)
    BY <1>56, <2>1
  <2>3. CASE j <= Len(v)
    <3>1. j + 1 \in 1..Len(v) + 1 /\ (v = t => j + 1 <= Len(t))
      BY <1>60, <2>1, <2>3
    <3>2. Waits(Now(v)', j + 1) = Waits(Now(v), j + 1)
      BY <1>20, <3>1
    <3> QED
      BY <2>2, <3>2 DEF Joined
  <2>4. CASE ~(j <= Len(v))
    BY <2>4 DEF Joined
  <2> QED
    BY <2>3, <2>4
<1>61. ASSUME NEW s \in Stretches, NEW j \in 1..Len(s[1]) - 1, j = Len(t)
       PROVE  (Joined(s, t, j) => Joined(s, t, j)') /\ (N # {} => (Joined(s, t, j)' => Joined(s, t, j)))
  <2>1. j + 1 \in 1..Len(s[1]) + 1 /\ j + 1 = Own(t)
    BY <1>8, <1>10, <1>61
  <2>2. Waits(recorded'[s], j + 1) = Waits(recorded[s], j + 1) /\ Waits(recorded[s], j + 1) \in Nat
    BY <1>56, <2>1
  <2>3. \A x, y, z \in Nat : x < y /\ y <= z => x < z
    OBVIOUS
  <2>4. Waits(recorded[s], j + 1) < Waits(Now(t), j + 1) => Waits(recorded[s], j + 1) < Waits(b, j + 1)
    BY <1>38, <2>1, <2>2, <2>3
  <2>5. Joined(s, t, j) => Joined(s, t, j)'
    BY <1>19, <2>2, <2>4 DEF Joined
  <2>6. ASSUME N # {}, Joined(s, t, j)' PROVE Joined(s, t, j)
    BY <1>19, <1>38, <2>1, <2>2, <2>6 DEF Joined
  <2> QED
    BY <2>5, <2>6
<1>62. ASSUME NEW s \in Stretches, NEW u \in N, NEW j \in 1..Len(s[1]) - 1
       PROVE  Joined(s, u, j)' <=> Joined(s, t, j)
  <2>1. /\ j + 1 \in 1..Len(s[1]) + 1 /\ j \in Nat \ {0} /\ Len(s[1]) \in Nat /\ j + 1 <= Len(s[1])
        /\ Len(t) \in Nat \ {0} /\ Own(t) = Len(t) + 1
    BY <1>8, <1>10
  <2>2. Waits(recorded'[s], j + 1) = Waits(recorded[s], j + 1)
    BY <1>56, <2>1
  <2>3. Len(u) = Len(t) + 1 /\ \A i \in 1..Len(t) : u[i] = t[i]
    BY <1>14
  <2>4. s[1] \in Tasks
    BY <1>10
  <2>5. ASSUME SamePath(s[1], u, Len(t)), Len(t) + 1 <= Len(s[1]), s[1][Len(t) + 1] = u[Len(t) + 1] PROVE FALSE
    <3>1. ASSUME NEW i \in 1..Len(u) PROVE s[1][i] = u[i]
      <4>1. i \in 1..Len(t) \/ i = Len(t) + 1
        BY <2>1, <2>3
      <4> QED
        BY <2>5, <4>1 DEF SamePath
    <3>2. SamePath(s[1], u, Len(u))
      BY <3>1 DEF SamePath
    <3> QED
      BY <1>17, <2>3, <2>4, <2>5, <3>2
  <2>6. CASE j <= Len(t)
    <3>1. j + 1 \in 1..Own(t) /\ j < Len(u) /\ j <= Len(u) /\ (\A i \in 1..j : i \in 1..Len(t))
      BY <2>1, <2>3, <2>6
    <3>2. Waits(Now(u)', j + 1) = Waits(Now(t), j + 1)
      BY <1>58, <3>1
    <3>3. SamePath(s[1], u, j) <=> SamePath(s[1], t, j)
      BY <2>3, <3>1 DEF SamePath
    <3>4. CASE j < Len(t)
      <4>1. u[j + 1] = t[j + 1]
        BY <2>1, <2>3, <3>4
      <4> QED
        BY <2>2, <2>6, <3>1, <3>2, <3>3, <3>4, <4>1 DEF Joined
    <3>5. CASE j = Len(t)
      <4>1. SamePath(s[1], u, j) => s[1][j + 1] # u[j + 1]
        BY <2>1, <2>5, <3>5
      <4>2. ~(j < Len(t))
        BY <2>1, <3>5
      <4> QED
        BY <2>2, <2>6, <3>1, <3>2, <3>3, <4>1, <4>2 DEF Joined
    <3>6. j < Len(t) \/ j = Len(t)
      BY <2>1, <2>6
    <3> QED
      BY <3>4, <3>5, <3>6
  <2>7. CASE ~(j <= Len(t))
    <3>1. ~Joined(s, t, j)
      BY <2>7 DEF Joined
    <3>2. SUFFICES ASSUME Joined(s, u, j)' PROVE FALSE
      BY <3>1
    <3>3. j <= Len(u) /\ SamePath(s[1], u, j)
      BY <3>2 DEF Joined
    <3>4. j = Len(t) + 1 /\ Len(t) + 1 \in 1..j /\ (\A i \in 1..Len(t) : i \in 1..j) /\ Len(t) + 1 <= Len(s[1])
      BY <2>1, <2>3, <2>7, <3>3
    <3>5. SamePath(s[1], u, Len(t)) /\ s[1][Len(t) + 1] = u[Len(t) + 1]
      BY <3>3, <3>4 DEF SamePath
    <3> QED
      BY <2>5, <3>4, <3>5
  <2> QED
    BY <2>6, <2>7
<1>63. TaskWaited'
  <2>1. ASSUME NEW s \in Stretches, NEW v \in Lower', NEW j \in 1..Len(s[1]) - 1,
               Live(v)', Joined(s, v, j)', Chain(s, j + 2)'
        PROVE  s \in past'[v]
    <3>1. j + 2 = j + 1 + 1 /\ j + 1 \in 1..Len(s[1]) /\ j \in Nat \ {0} /\ j + 1 - 1 = j /\ Len(t) \in Nat \ {0}
      BY <1>8, <1>10
    <3>2. CASE Chain(s, j + 2)
      <4>1. CASE v \in N
        <5>1. Joined(s, t, j)
          BY <1>62, <2>1, <4>1
        <5>2. s \in past[t]
          BY <1>1, <1>6, <1>8, <3>2, <5>1 DEF TaskWaited
        <5> QED
          BY <1>14, <4>1, <5>2 DEF Upto
      <4>2. CASE v \in Lower /\ (v = t => j < Len(t))
        <5>1. Joined(s, v, j) /\ Live(v)
          BY <1>18, <1>60, <2>1, <4>2
        <5>2. s \in past[v]
          BY <1>1, <3>2, <4>2, <5>1 DEF TaskWaited
        <5> QED
          BY <1>49, <4>2, <5>2
      <4>3. CASE v = t /\ ~(j < Len(t))
        <5>1. j <= Len(t) /\ SamePath(s[1], t, j)
          BY <2>1, <4>3 DEF Joined
        <5>2. j = Len(t)
          BY <3>1, <4>3, <5>1
        <5>3. CASE N # {}
          <6>1. Joined(s, t, j)
            BY <1>61, <2>1, <4>3, <5>2, <5>3
          <6>2. s \in past[t]
            BY <1>1, <1>6, <1>8, <3>2, <6>1 DEF TaskWaited
          <6> QED
            BY <1>6, <1>49, <4>3, <6>2
        <5>4. CASE N = {}
          <6>1. Len(t) < Len(s[1]) /\ Own(t) + 1 = j + 2
            <7>1. Len(s[1]) \in Nat
              BY <1>10
            <7> QED
              BY <1>8, <3>1, <5>2, <7>1
          <6>2. \A i \in Own(t) + 1..Len(s[1]) : Waited(recorded[s], i)
            BY <3>2, <6>1 DEF Chain
          <6> QED
            BY <1>50, <4>3, <5>1, <5>2, <5>4, <6>1, <6>2
        <5> QED
          BY <5>3, <5>4
      <4> QED
        BY <1>7, <4>1, <4>2, <4>3
    <3>3. CASE ~Chain(s, j + 2)
      <4>1. Chain(s, j + 1 + 1)' /\ ~Chain(s, j + 1 + 1)
        BY <2>1, <3>1, <3>3
      <4>2. N = {} /\ Len(t) < Len(s[1]) /\ SamePath(s[1], t, Len(t)) /\ j + 1 = Len(t)
        BY <1>53, <3>1, <4>1
      <4>3. v \in Lower
        BY <1>7, <4>2
      <4>4. /\ j <= Len(v) /\ SamePath(s[1], v, j) /\ (j < Len(v) => s[1][j + 1] # v[j + 1])
            /\ Waits(recorded'[s], j + 1) < Waits(Now(v)', j + 1)
        BY <2>1 DEF Joined
      <4>5. v # t
        <5>1. j < Len(t) /\ j + 1 \in 1..Len(t)
          BY <3>1, <4>2
        <5>2. s[1][j + 1] = t[j + 1]
          BY <4>2, <5>1 DEF SamePath
        <5> QED
          BY <4>4, <5>1, <5>2
      <4>6. Len(t) > 1 /\ Len(t) - 1 = j /\ Len(t) \in 2..Len(t) /\ Len(t) \in 0..Len(s[1]) /\ Len(t) <= Len(t)
        BY <1>10, <3>1, <4>2
      <4>7. SamePath(t, v, j)
        <5>1. \A i \in 1..j : i \in 1..Len(t)
          BY <3>1, <4>6
        <5> QED
          BY <4>2, <4>4, <5>1 DEF SamePath
      <4>8. Waits(Now(v), Len(t)) <= Waits(Now(t), Len(t))
        BY <1>51, <4>3, <4>4, <4>6, <4>7
      <4>9. recorded[s][Len(t)] = Now(t)[Len(t)]
        BY <1>1, <1>8, <4>2, <4>6, SameWay
      <4>10. Waits(recorded'[s], Len(t)) = Waits(Now(t), Len(t)) /\ Waits(Now(t), Len(t)) \in Nat
        <5>1. Len(t) \in 1..Len(s[1]) + 1
          BY <1>10, <4>6
        <5>2. Waits(recorded'[s], Len(t)) = Waits(recorded[s], Len(t)) /\ Waits(recorded[s], Len(t)) \in Nat
          BY <1>56, <5>1
        <5>3. Waits(recorded[s], Len(t)) = Waits(Now(t), Len(t))
          BY <4>9 DEF Waits
        <5> QED
          BY <5>2, <5>3
      <4>11. Waits(Now(v)', Len(t)) = Waits(Now(v), Len(t)) /\ Waits(Now(v), Len(t)) \in Nat
        <5>1. Len(t) \in 1..Len(v) + 1
          BY <1>18, <3>1, <4>2, <4>3, <4>4
        <5> QED
          BY <1>20, <1>57, <4>3, <4>5, <5>1
      <4>12. \A x, y \in Nat : x <= y => ~(y < x)
        OBVIOUS
      <4> QED
        BY <4>2, <4>4, <4>8, <4>10, <4>11, <4>12
    <3> QED
      BY <3>2, <3>3
  <2> QED
    BY <1>59, <2>1 DEF TaskWaited
<1>64. ASSUME NEW s \in Stretches, s[1] = t PROVE s \in Upto(t) /\ s[2] <= clock[t]
  <2>1. s[2] \in Nat /\ s[2] <= clock[t] /\ clock[t] \in Nat /\ s = <<t, s[2]>>
    BY <1>10, <1>64
  <2>2. CASE s[2] = clock[t]
    BY <1>8, <2>1, <2>2 DEF Upto
  <2>3. CASE s[2] # clock[t]
    <3>1. s[2] < clock[t]
      BY <2>1, <2>3
    <3>2. Lineage(s, t)
      BY <1>64, <3>1 DEF Lineage
    <3>3. s \in past[t]
      BY <1>1, <1>6, <1>8, <3>2 DEF TaskLineage
    <3> QED
      BY <2>1, <3>3 DEF Upto
  <2> QED
    BY <2>1, <2>2, <2>3
<1>65. ASSUME NEW s \in Stretches, NEW u \in N, Below(s[1], u)
       PROVE  s[1] = t \/ (Below(s[1], t) /\ u[Len(s[1]) + 1] = t[Len(s[1]) + 1])
  <2>1. /\ Len(s[1]) \in Nat \ {0} /\ s[1] \in TaskPaths /\ Len(t) \in Nat /\ t \in TaskPaths /\ Len(u) = Len(t) + 1
        /\ (\A i \in 1..Len(t) : u[i] = t[i]) /\ Len(s[1]) < Len(u) /\ SamePath(s[1], u, Len(s[1]))
    BY <1>8, <1>10, <1>14, <1>65 DEF Below
  <2>2. Len(s[1]) <= Len(t) /\ (\A i \in 1..Len(s[1]) : i \in 1..Len(t))
    BY <2>1
  <2>3. SamePath(s[1], t, Len(s[1]))
    BY <2>1, <2>2 DEF SamePath
  <2>4. CASE Len(s[1]) = Len(t)
    BY <2>1, <2>2, <2>3, <2>4, IsPathTo
  <2>5. CASE Len(s[1]) # Len(t)
    <3>1. Len(s[1]) < Len(t) /\ Len(s[1]) + 1 \in 1..Len(t)
      BY <2>1, <2>2, <2>5
    <3> QED
      BY <2>1, <2>3, <3>1 DEF Below
  <2> QED
    BY <2>4, <2>5
<1>66. TaskLineage'
  <2>1. ASSUME NEW s \in Stretches, NEW v \in Lower', Live(v)', Lineage(s, v)' PROVE s \in past'[v]
    <3>1. CASE v \in Lower /\ v # t
      <4>1. Lineage(s, v) /\ Live(v)
        BY <1>18, <2>1, <3>1 DEF Lineage
      <4> QED
        BY <1>1, <1>49, <3>1, <4>1 DEF TaskLineage
    <3>2. CASE v = t
      <4>1. CASE s[1] = t
        <5>1. s \in Upto(t)
          BY <1>64, <4>1
        <5> QED
          BY <1>4, <1>5, <3>2, <5>1
      <4>2. CASE s[1] # t
        <5>1. Lineage(s, t)
          BY <2>1, <3>2, <4>2 DEF Lineage
        <5> QED
          BY <1>1, <1>6, <1>8, <1>49, <3>2, <5>1 DEF TaskLineage
      <4> QED
        BY <4>1, <4>2
    <3>3. CASE v \in N
      <4>1. past'[v] = Upto(t) /\ s[1] # v
        <5>1. s[1] \notin N
          BY <1>10
        <5>2. past'[v] = Upto(t)
          BY <1>14, <3>3
        <5> QED
          BY <3>3, <5>1, <5>2
      <4>2. Below(s[1], v) /\ s[2] <= v[Len(s[1]) + 1][1]
        BY <2>1, <4>1 DEF Lineage
      <4>3. CASE s[1] = t
        BY <1>64, <4>1, <4>3
      <4>4. CASE s[1] # t
        <5>1. Below(s[1], t) /\ v[Len(s[1]) + 1] = t[Len(s[1]) + 1]
          BY <1>65, <3>3, <4>2, <4>4
        <5>2. Lineage(s, t)
          BY <4>2, <5>1 DEF Lineage
        <5>3. s \in past[t]
          BY <1>1, <1>6, <1>8, <5>2 DEF TaskLineage
        <5> QED
          BY <4>1, <5>3 DEF Upto
      <4> QED
        BY <4>3, <4>4
    <3> QED
      BY <1>7, <3>1, <3>2, <3>3
  <2>2. ASSUME NEW s \in Stretches', s \notin Stretches, NEW v \in Lower', Lineage(s, v)' PROVE FALSE
    <3>1. CASE s = new
      <4>1. s[1] = t /\ s[2] = clock[t] + 1 /\ clock[t] \in Nat /\ clock'[t] = clock[t] + 1
        BY <1>6, <1>7, <1>8, <3>1
      <4>2. Below(t, v) /\ s[2] <= v[Len(t) + 1][1]
        <5>1. ~(s[2] < clock'[t])
          BY <4>1
        <5> QED
          BY <2>2, <4>1, <5>1 DEF Lineage
      <4>3. v[Len(t) + 1][1] <= clock[t] /\ v[Len(t) + 1][1] \in Nat
        <5>1. CASE v \in Lower
          <6>1. v[Len(t) + 1][1] < clock[t] /\ v[Len(t) + 1][1] \in Nat
            BY <1>1, <1>6, <1>18, <4>2, <5>1, BelowBefore
          <6> QED
            BY <4>1, <6>1
        <5>2. CASE v \in N
          <6>1. v[Len(t) + 1] = <<clock[t], NoIndex>>
            BY <1>14, <5>2
          <6>2. v[Len(t) + 1][1] = clock[t]
            BY <6>1
          <6> QED
            BY <4>1, <6>2
        <5> QED
          BY <1>7, <5>1, <5>2
      <4> QED
        BY <4>1, <4>2, <4>3
    <3>2. CASE s # new
      <4>1. s[1] \in N /\ s[2] = 0
        BY <1>16, <2>2, <3>2
      <4>2. ~(s[2] < clock'[s[1]])
        BY <1>6, <4>1
      <4>3. Below(s[1], v)
        BY <2>2, <4>1, <4>2 DEF Lineage
      <4>4. CASE v \in Lower
        BY <1>17, <1>18, <4>1, <4>3, <4>4
      <4>5. CASE v \in N
        <5>1. Len(v) = Len(t) + 1 /\ Len(s[1]) = Len(t) + 1 /\ Len(t) \in Nat
          BY <1>8, <1>14, <4>1, <4>5
        <5>2. Len(s[1]) < Len(v)
          BY <4>3 DEF Below
        <5> QED
          BY <5>1, <5>2
      <4> QED
        BY <1>7, <4>4, <4>5
    <3> QED
      BY <3>1, <3>2
  <2>3. ASSUME NEW v \in Lower', Len(v) > 1, NEW n \in 0..clock'[v] - 1 PROVE <<v, n>> \in past'[v]
    <3>1. CASE v \in N
      <4>1. clock'[v] = 0
        BY <1>6, <3>1
      <4> QED
        BY <4>1
    <3>2. CASE v = t
      <4>1. n \in 0..clock[t]
        BY <1>6, <1>8, <3>2
      <4>2. <<t, n>> \in Stretches /\ <<t, n>>[1] = t
        BY <1>6, <4>1, StretchOf
      <4>3. <<t, n>> \in Upto(t)
        BY <1>64, <4>2
      <4> QED
        BY <1>4, <1>5, <3>2, <4>3
    <3>3. CASE v \in Lower /\ v # t
      <4>1. past'[v] = past[v] /\ clock'[v] = clock[v]
        BY <1>18, <3>3
      <4> QED
        BY <1>1, <2>3, <3>3, <4>1 DEF TaskLineage
    <3> QED
      BY <1>7, <3>1, <3>2, <3>3
  <2> QED
    BY <2>1, <2>2, <2>3 DEF TaskLineage
<1>67. ASSUME NEW s \in Stretches
       PROVE  Offset(recorded'[s], 1) = Offset(recorded[s], 1) /\ Offset(recorded[s], 1) \in Nat
  <2>1. 1 \in 1..Len(s[1]) + 1
    BY <1>10
  <2>2. Offset(recorded[s], 1) \in Nat
    BY <1>10, <2>1, OfLabel
  <2> QED
    BY <1>12, <2>1, <2>2 DEF SameButMark
\* Who is below t has been passed by its taskwait.
<1>68. ASSUME NEW s \in Stretches, Len(t) < Len(s[1]), SamePath(s[1], t, Len(t)), N = {}
       PROVE  Len(t) \in 1..Len(s[1]) - 1 /\ Joined(s, t, Len(t))'
  <2>1. Len(t) \in 1..Len(s[1]) - 1 /\ Len(t) <= Len(t) /\ ~(Len(t) < Len(t)) /\ Len(t) <= Len(s[1])
        /\ Own(t) = Len(t) + 1 /\ Own(t) \in 1..Len(s[1]) + 1
    BY <1>8, <1>10, <1>68
  <2>2. Waits(recorded[s], Own(t)) <= Waits(Now(t), Own(t))
    BY <1>52, <1>68, <2>1
  <2>3. Waits(recorded'[s], Own(t)) = Waits(recorded[s], Own(t)) /\ Waits(recorded[s], Own(t)) \in Nat
    BY <1>56, <2>1
  <2>4. \A x, y, z \in Nat : x <= y /\ y < z => x < z
    OBVIOUS
  <2>5. Waits(recorded'[s], Own(t)) < Waits(b, Own(t))
    BY <1>38, <1>68, <2>2, <2>3, <2>4
  <2> QED
    BY <1>19, <1>68, <2>1, <2>5 DEF Joined
<1>69. ASSUME NEW s \in Stretches, NEW c \in Kids(t), s \in Upto(c), N = {}
       PROVE  \/ Offset(recorded[s], 1) < Epoch(t)
              \/ Lineage(s, t)'
              \/ \E j \in 1..Len(s[1]) - 1 : Joined(s, t, j)'
  <2>1. c \in Lower /\ Len(c) > 1 /\ Front(c) = t /\ c \in Tasks /\ status[c] = "over"
    BY <1>5, <1>30, <1>69
  <2>2. /\ Len(c) = Len(t) + 1 /\ c \in TaskPaths /\ Stretch(c) \in Stretches /\ Stretch(c)[1] = c
        /\ Now(c) = recorded[Stretch(c)]
        /\ Len(t) \in Nat \ {0} /\ t \in TaskPaths /\ Len(s[1]) \in Nat \ {0} /\ s[1] \in TaskPaths
    BY <1>8, <1>10, <1>18, <1>45, <2>1
  <2>3. \A i \in 1..Len(t) : c[i] = t[i]
    <3>1. Front(c) = SubSeq(c, 1, Len(c) - 1)
      BY <1>1, <2>1, ExplicitIs
    <3>2. Len(c) - 1 = Len(t) /\ Len(t) \in 0..Len(c)
      BY <2>2
    <3> QED
      BY <2>1, <2>2, <3>1, <3>2, PathTo
  <2>4. SamePath(c, t, Len(t)) /\ SamePath(t, c, Len(t)) /\ Len(t) < Len(c)
    BY <2>2, <2>3 DEF SamePath
  <2>5. ASSUME Len(t) < Len(s[1]), SamePath(s[1], c, Len(t))
        PROVE  \E j \in 1..Len(s[1]) - 1 : Joined(s, t, j)'
    <3>1. SamePath(s[1], t, Len(t))
      BY <2>3, <2>5 DEF SamePath
    <3> QED
      BY <1>68, <1>69, <2>5, <3>1
  <2>6. ASSUME s[1] = c PROVE \E j \in 1..Len(s[1]) - 1 : Joined(s, t, j)'
    <3>1. SamePath(s[1], c, Len(t))
      BY <2>6 DEF SamePath
    <3> QED
      BY <2>4, <2>5, <2>6, <3>1
  <2>7. CASE s = Stretch(c)
    BY <2>2, <2>6, <2>7
  <2>8. CASE s \in past[c]
    <3>1. \/ Offset(recorded[s], 1) < Epoch(c)
          \/ Lineage(s, c)
          \/ \E j \in 1..Len(s[1]) - 1 : Joined(s, c, j)
      BY <1>1, <2>1, <2>8 DEF TaskPast
    <3>2. CASE Offset(recorded[s], 1) < Epoch(c)
      <4>1. Offset(Now(c), 1) <= Epoch(t)
        BY <1>1, <1>6, <1>8, <2>2 DEF TaskEpochs
      <4>2. Leaving(c) = 0
        BY <2>1 DEF Leaving
      <4>3. Offset(Now(c), 1) \in Nat /\ Offset(recorded[s], 1) \in Nat /\ Epoch(t) \in Nat
        BY <1>8, <1>67, <2>2
      <4>4. Epoch(c) = Offset(Now(c), 1)
        BY <4>2, <4>3 DEF Epoch
      <4> QED
        BY <3>2, <4>1, <4>3, <4>4
    <3>3. CASE Lineage(s, c)
      <4>1. CASE s[1] = c
        BY <2>6, <4>1
      <4>2. CASE s[1] # c
        <5>1. Len(s[1]) < Len(c) /\ SamePath(s[1], c, Len(s[1])) /\ s[2] <= c[Len(s[1]) + 1][1]
          BY <3>3, <4>2 DEF Lineage, Below
        <5>2. Len(s[1]) <= Len(t) /\ \A i \in 1..Len(s[1]) : i \in 1..Len(t)
          BY <2>2, <5>1
        <5>3. SamePath(s[1], t, Len(s[1]))
          BY <2>3, <5>1, <5>2 DEF SamePath
        <5>4. CASE Len(s[1]) = Len(t)
          <6>1. s[1] = t
            BY <2>2, <5>2, <5>3, <5>4, IsPathTo
          <6>2. s[2] <= clock[t] /\ s[2] \in Nat /\ clock[t] \in Nat
            BY <1>8, <1>10, <1>64, <6>1
          <6>3. s[2] < clock'[t]
            BY <1>6, <6>2
          <6> QED
            BY <6>1, <6>3 DEF Lineage
        <5>5. CASE Len(s[1]) # Len(t)
          <6>1. Len(s[1]) < Len(t) /\ Len(s[1]) + 1 \in 1..Len(t)
            BY <2>2, <5>2, <5>5
          <6>2. Below(s[1], t) /\ s[2] <= t[Len(s[1]) + 1][1]
            BY <2>3, <5>1, <5>3, <6>1 DEF Below
          <6> QED
            BY <6>2 DEF Lineage
        <5> QED
          BY <5>4, <5>5
      <4> QED
        BY <4>1, <4>2
    <3>4. ASSUME NEW j \in 1..Len(s[1]) - 1, Joined(s, c, j)
          PROVE  \E k \in 1..Len(s[1]) - 1 : Joined(s, t, k)'
      <4>1. /\ j <= Len(c) /\ SamePath(s[1], c, j) /\ (j < Len(c) => s[1][j + 1] # c[j + 1])
            /\ Waits(recorded[s], j + 1) < Waits(Now(c), j + 1)
        BY <3>4 DEF Joined
      <4>2. CASE Len(t) <= j
        <5>1. Len(t) < Len(s[1]) /\ \A i \in 1..Len(t) : i \in 1..j
          BY <2>2, <4>2
        <5>2. SamePath(s[1], c, Len(t))
          BY <4>1, <5>1 DEF SamePath
        <5> QED
          BY <2>5, <5>1, <5>2
      <4>3. CASE ~(Len(t) <= j)
        <5>1. j < Len(t) /\ j <= Len(t) /\ j < Len(c) /\ j + 1 \in 1..Len(t) /\ j + 1 \in 2..Len(t)
              /\ (\A i \in 1..j : i \in 1..Len(t))
          BY <2>2, <4>3
        <5>2. SamePath(s[1], t, j) /\ s[1][j + 1] # t[j + 1]
          BY <2>3, <4>1, <5>1 DEF SamePath
        <5>3. Now(c)[j + 1] = Now(t)[j + 1]
          <6>1. Len(t) \in 0..Len(Stretch(t)[1]) /\ Len(t) <= Len(Stretch(c)[1])
            BY <1>8, <2>2
          <6>2. \A i \in 2..Len(t) : recorded[Stretch(t)][i] = recorded[Stretch(c)][i]
            BY <1>1, <1>8, <2>2, <2>4, <6>1, SameWay
          <6> QED
            BY <1>8, <2>2, <5>1, <6>2
        <5>4. Joined(s, t, j)
          BY <4>1, <5>1, <5>2, <5>3 DEF Joined, Waits
        <5>5. Joined(s, t, j)'
          BY <1>6, <1>60, <5>1, <5>4
        <5> QED
          BY <5>5
      <4> QED
        BY <4>2, <4>3
    <3> QED
      BY <3>1, <3>2, <3>3, <3>4
  <2> QED
    BY <1>29, <1>69, <2>1, <2>7, <2>8
<1>70. TaskPast'
  <2>1. ASSUME NEW v \in Lower, NEW s \in Upto(v), s \in Stretches' PROVE s \in Stretches
    <3>1. s \in {InitialTask} \X Nat \/ s \in Stretches
      <4>1. \A r \in past[v] : r \in {InitialTask} \X Nat \/ r \in Stretches
        BY <1>1, <1>18 DEF TaskTyped
      <4> QED
        BY <1>18, <1>29, <4>1
    <3>2. s[1] # InitialTask
      <4>1. s[1] \in Lower'
        BY <1>10, <1>18, <1>35, <2>1
      <4> QED
        BY <1>7, <4>1
    <3> QED
      BY <3>1, <3>2
  <2>2. ASSUME NEW s \in Stretches, s \in past[t]
        PROVE  Offset(recorded[s], 1) < Epoch(t) \/ Lineage(s, t) \/ \E j \in 1..Len(s[1]) - 1 : Joined(s, t, j)
    BY <1>1, <1>6, <1>8, <2>2 DEF TaskPast
  <2>3. ASSUME NEW v \in Lower', Live(v)' \/ Len(v) > 1, NEW s \in past'[v] \cap Stretches'
        PROVE  \/ Offset(recorded'[s], 1) < Epoch(v)'
               \/ Lineage(s, v)'
               \/ \E j \in 1..Len(s[1]) - 1 : Joined(s, v, j)'
    <3>1. CASE v \in Lower /\ v # t
      <4>1. past'[v] = past[v] /\ clock'[v] = clock[v] /\ (Live(v)' <=> Live(v))
        BY <1>18, <3>1
      <4>2. s \in past[v] /\ s \in Stretches
        BY <2>1, <2>3, <3>1, <4>1 DEF Upto
      <4>3. Offset(recorded[s], 1) < Epoch(v) \/ Lineage(s, v) \/ \E j \in 1..Len(s[1]) - 1 : Joined(s, v, j)
        BY <1>1, <2>3, <3>1, <4>1, <4>2 DEF TaskPast
      <4>4. Lineage(s, v) => Lineage(s, v)'
        BY <4>1 DEF Lineage
      <4>5. Offset(recorded'[s], 1) = Offset(recorded[s], 1) /\ Epoch(v)' = Epoch(v)
        BY <1>21, <1>67, <3>1, <4>2
      <4>6. \A j \in 1..Len(s[1]) - 1 : Joined(s, v, j) => Joined(s, v, j)'
        BY <1>60, <3>1, <4>2
      <4> QED
        BY <4>3, <4>4, <4>5, <4>6
    <3>2. CASE v = t
      <4>1. Epoch(v)' = Epoch(t)
        BY <1>6, <1>21, <3>2
      <4>2. CASE s \in Upto(t)
        <5>1. s \in Stretches
          BY <1>6, <2>1, <2>3, <4>2
        <5>2. CASE s[1] = t
          <6>1. s[2] <= clock[t] /\ s[2] \in Nat /\ clock[t] \in Nat
            BY <1>8, <1>10, <1>64, <5>1, <5>2
          <6>2. s[2] < clock'[t]
            BY <1>6, <6>1
          <6> QED
            BY <3>2, <5>2, <6>2 DEF Lineage
        <5>3. CASE s[1] # t
          <6>1. s \in past[t]
            BY <1>6, <1>8, <1>29, <4>2, <5>3
          <6>2. Offset(recorded[s], 1) < Epoch(t) \/ Lineage(s, t) \/ \E j \in 1..Len(s[1]) - 1 : Joined(s, t, j)
            BY <2>2, <5>1, <6>1
          <6>3. Lineage(s, t) => Lineage(s, t)'
            BY <5>3 DEF Lineage
          <6>4. ASSUME NEW j \in 1..Len(s[1]) - 1, Joined(s, t, j) PROVE Joined(s, t, j)'
            <7>1. j <= Len(t) /\ j \in Nat /\ Len(t) \in Nat
              BY <1>8, <6>4 DEF Joined
            <7>2. j < Len(t) \/ j = Len(t)
              BY <7>1
            <7> QED
              BY <1>6, <1>60, <1>61, <5>1, <6>4, <7>2
          <6>5. Offset(recorded'[s], 1) = Offset(recorded[s], 1)
            BY <1>67, <5>1
          <6> QED
            BY <3>2, <4>1, <6>2, <6>3, <6>4, <6>5
        <5> QED
          BY <5>2, <5>3
      <4>3. CASE s \notin Upto(t)
        <5>1. PICK c \in Kids(t) : s \in Upto(c) /\ N = {}
          BY <1>28, <2>3, <3>2, <4>3
        <5>2. s \in Stretches
          BY <1>30, <2>1, <2>3, <5>1
        <5>3. \/ Offset(recorded[s], 1) < Epoch(t)
              \/ Lineage(s, t)'
              \/ \E j \in 1..Len(s[1]) - 1 : Joined(s, t, j)'
          BY <1>69, <5>1, <5>2
        <5>4. Offset(recorded'[s], 1) = Offset(recorded[s], 1)
          BY <1>67, <5>2
        <5> QED
          BY <3>2, <4>1, <5>3, <5>4
      <4> QED
        BY <4>2, <4>3
    <3>3. CASE v \in N
      <4>1. s \in Upto(t) /\ Epoch(v)' = Epoch(t)
        BY <1>14, <1>22, <2>3, <3>3
      <4>2. s \in Stretches
        BY <1>6, <2>1, <2>3, <4>1
      <4>3. /\ v[Len(t) + 1] = <<clock[t], NoIndex>> /\ (\A i \in 1..Len(t) : v[i] = t[i]) /\ Len(v) = Len(t) + 1
            /\ Len(t) \in Nat \ {0} /\ Len(s[1]) \in Nat \ {0}
        BY <1>8, <1>10, <1>14, <3>3, <4>2
      <4>4. CASE s[1] = t
        <5>1. s[2] <= clock[t] /\ v[Len(t) + 1][1] = clock[t]
          BY <1>64, <4>2, <4>3, <4>4
        <5>2. Below(t, v)
          BY <4>3 DEF Below, SamePath
        <5> QED
          BY <4>4, <5>1, <5>2 DEF Lineage
      <4>5. CASE s[1] # t
        <5>1. s \in past[t]
          BY <1>6, <1>8, <1>29, <4>1, <4>5
        <5>2. Offset(recorded[s], 1) < Epoch(t) \/ Lineage(s, t) \/ \E j \in 1..Len(s[1]) - 1 : Joined(s, t, j)
          BY <2>2, <4>2, <5>1
        <5>3. ASSUME Lineage(s, t) PROVE Lineage(s, v)'
          <6>1. Len(s[1]) < Len(t) /\ SamePath(s[1], t, Len(s[1])) /\ s[2] <= t[Len(s[1]) + 1][1]
            BY <4>5, <5>3 DEF Lineage, Below
          <6>2. Len(s[1]) < Len(v) /\ Len(s[1]) + 1 \in 1..Len(t) /\ \A i \in 1..Len(s[1]) : i \in 1..Len(t)
            BY <4>3, <6>1
          <6>3. Below(s[1], v) /\ s[2] <= v[Len(s[1]) + 1][1]
            BY <4>3, <6>1, <6>2 DEF Below, SamePath
          <6> QED
            BY <6>3 DEF Lineage
        <5>4. \A j \in 1..Len(s[1]) - 1 : Joined(s, t, j) => Joined(s, v, j)'
          BY <1>62, <3>3, <4>2
        <5>5. Offset(recorded'[s], 1) = Offset(recorded[s], 1)
          BY <1>67, <4>2
        <5> QED
          BY <4>1, <5>2, <5>3, <5>4, <5>5
      <4> QED
        BY <4>4, <4>5
    <3> QED
      BY <1>7, <3>1, <3>2, <3>3
  <2> QED
    BY <2>3 DEF TaskPast
<1> QED
  BY <1>31, <1>32, <1>36, <1>37, <1>39, <1>40, <1>41, <1>42, <1>44, <1>48, <1>55, <1>63, <1>66, <1>70 DEF TaskInv

-----------------------------------------------------------------------------
(* A task waits for those that it has created                               *)

\* What a taskwait does to a segment
LEMMA MarksSegment ==
  ASSUME NEW seg \in TaskSegment
  PROVE  [seg EXCEPT !.value.taskwaited = TRUE, !.taskwaitPhase = BitwiseOr(@, 0)]
           = [seg EXCEPT !.value.taskwaited = TRUE]
<1> DEFINE a == [seg EXCEPT !.value.taskwaited = TRUE]
           S == {seg.obj}
<1>1. seg.taskwaitPhase = 0
  BY OfSegment
<1>2. a = Marked(seg, S)
  BY DEF Marked
<1>3. a \in TaskSegment
  <2>1. Marked(seg, S) \in TaskSegment
    BY MarkedSegment
  <2> QED
    BY <1>2, <2>1
<1>4. [seg EXCEPT !.value.taskwaited = TRUE, !.taskwaitPhase = BitwiseOr(@, 0)]
        = [a EXCEPT !.taskwaitPhase = BitwiseOr(seg.taskwaitPhase, 0)]
  OBVIOUS
<1>5. [a EXCEPT !.taskwaitPhase = BitwiseOr(seg.taskwaitPhase, 0)] = [a EXCEPT !.taskwaitPhase = 0]
  BY <1>1, OrOfZeros
<1>6. a.taskwaitPhase = 0
  BY <1>3, OfSegment
<1> HIDE DEF a
<1>7. [a EXCEPT !.taskwaitPhase = 0] = a
  BY <1>3, <1>6 DEF TaskSegment
<1> QED
  BY <1>4, <1>5, <1>7 DEF a

\* and to a label
LEMMA MarksLabel ==
  ASSUME NEW l \in Seq(TaskSegment), NEW K
  PROVE  MarkedLabel(MarkTaskwaited(l, K, 0), l, K)
<1> DEFINE m == MarkTaskwaited(l, K, 0)
<1>1. DOMAIN l = 1..Len(l) /\ Len(l) \in Nat /\ \A k \in 1..Len(l) : l[k] \in TaskSegment
  OBVIOUS
<1>2. DOMAIN m = 1..Len(l)
  BY <1>1 DEF MarkTaskwaited
<1>3. ASSUME NEW k \in 1..Len(l) PROVE m[k] = Marked(l[k], K) /\ m[k] \in TaskSegment
  <2>1. m[k] = IF l[k].obj \in K
               THEN [l[k] EXCEPT !.value.taskwaited = TRUE, !.taskwaitPhase = BitwiseOr(@, 0)]
               ELSE l[k]
    BY <1>1 DEF MarkTaskwaited
  <2>2. [l[k] EXCEPT !.value.taskwaited = TRUE, !.taskwaitPhase = BitwiseOr(@, 0)]
          = [l[k] EXCEPT !.value.taskwaited = TRUE]
    BY <1>1, MarksSegment, ZenonT(40)
  <2>3. m[k] = Marked(l[k], K)
    BY <2>1, <2>2 DEF Marked
  <2>4. Marked(l[k], K) \in TaskSegment
    BY <1>1, MarkedSegment
  <2> QED
    BY <2>3, <2>4
<1>4. m = [k \in 1..Len(l) |-> m[k]]
  BY <1>1, <1>2 DEF MarkTaskwaited
<1> HIDE DEF m
<1>5. m \in Seq(TaskSegment) /\ Len(m) = Len(l)
  BY <1>1, <1>2, <1>3, <1>4
<1> QED
  BY <1>3, <1>5 DEF MarkedLabel, m

\* Where nothing is marked the label stays what it is.
LEMMA UnmarkedLabel ==
  ASSUME NEW l \in Seq(TaskSegment), NEW K, \A i \in 1..Len(l) : l[i].obj \notin K
  PROVE  MarkTaskwaited(l, K, 0) = l
<1>1. DOMAIN l = 1..Len(l) /\ l = [k \in 1..Len(l) |-> l[k]]
  OBVIOUS
<1>2. MarkTaskwaited(l, K, 0) = [k \in 1..Len(l) |-> l[k]]
  BY <1>1, ZenonT(40) DEF MarkTaskwaited
<1> QED
  BY <1>1, <1>2

\* The children of a task that waits are over; their labels end with a segment of it.
LEMMA MarkedIsOwn ==
  ASSUME TaskTyped, TaskTree, TaskLabels, TaskCurrent, NEW t \in Lower, NEW u \in Kids(t), status[u] = "over"
  PROVE  \E s \in Stretches : s[1] = t /\ Last(label[u]).obj = recorded[s][Own(t)].obj
<1>1. u \in Tasks /\ Len(u) > 1 /\ Front(u) = t
  BY DEF Kids
<1>2. u \in Lower /\ Len(u) \in Nat \ {0} /\ u \in TaskPaths
  <2>1. Len(u) \in Nat /\ u \in TaskPaths
    BY <1>1, OfTask
  <2>2. u # InitialTask
    BY <1>1 DEF InitialTask
  <2> QED
    BY <1>1, <2>1, <2>2 DEF Lower
<1>3. /\ Stretch(u) \in Stretches /\ Stretch(u)[1] = u
      /\ recorded[Stretch(u)] = Now(u)
  BY <1>2, NowIs DEF Now
<1>4. label[u] \in Seq(TaskSegment) /\ Len(label[u]) = Len(u) /\ label[u][Len(u)] = Now(u)[Len(u)]
  <2>1. ~Live(u) /\ Len(u) \in 1..Len(u)
    BY <1>2 DEF Live
  <2> QED
    BY <1>1, <1>2, <2>1 DEF TaskCurrent
<1>5. Last(label[u]) = Now(u)[Len(u)]
  BY <1>4 DEF Last
<1> DEFINE j == Len(u) - 1
           s == Way(Stretch(u), j)
<1>6. j \in 1..Len(u) /\ j + 1 = Len(u) /\ SubSeq(u, 1, j) = t
  <2>1. Front(u) = SubSeq(u, 1, j)
    BY DEF Front
  <2> QED
    BY <1>1, <1>2, <2>1
<1> HIDE DEF j
<1>7. /\ s \in Stretches /\ s[1] = t /\ s[2] = In(Stretch(u), j) /\ Len(t) = j
      /\ Now(u)[j + 1] = At(t, In(Stretch(u), j))[j + 1]
  <2>1. Stretch(u) \in Stretches /\ j \in 1..Len(Stretch(u)[1])
    BY <1>3, <1>6
  <2>2. /\ s \in Stretches /\ s[1] = SubSeq(Stretch(u)[1], 1, j) /\ s[2] = In(Stretch(u), j)
        /\ Len(SubSeq(Stretch(u)[1], 1, j)) = j
        /\ recorded[Stretch(u)][j + 1] = At(SubSeq(Stretch(u)[1], 1, j), In(Stretch(u), j))[j + 1]
    BY <2>1, OfWay
  <2>3. SubSeq(Stretch(u)[1], 1, j) = t
    BY <1>3, <1>6
  <2> QED
    BY <1>3, <2>2, <2>3
<1>8. recorded[s] = At(t, In(Stretch(u), j)) /\ Own(t) = j + 1
  <2>1. recorded[s] = At(s[1], s[2]) /\ Own(s[1]) = Len(s[1]) + 1
    BY <1>7, OfStretch
  <2> QED
    BY <1>7, <2>1
<1> HIDE DEF s
<1> QED
  BY <1>5, <1>6, <1>7, <1>8

\* TaskWait is such a step.
LEMMA AdvancesIfTaskWait ==
  ASSUME NEW M \in Nat, TaskProgram(M), TaskInv(M), NEW t \in Tasks, TaskWait(t)
  PROVE  Advances(t, {}, {Last(label[u]).obj : u \in children[t]}, M)
<1> DEFINE K == {Last(label[u]).obj : u \in children[t]}
           mutated == mutateTaskWait(label[t], NextStretch(t))
           labels == Labels(t, mutated)
           records == Records(t, mutated)
<1>1. TaskTyped /\ TaskTree /\ TaskLabels /\ TaskObjects /\ TaskCurrent /\ TaskMarks
  BY DEF TaskInv
<1>2. /\ "taskwait" \in Constructs /\ CanStep(t) /\ t # InitialTask /\ status[t] = "running"
      /\ Over(Created(t, 0))
  BY DEF TaskWait, CanStep, Running
<1>3. t \in Lower /\ Live(t) /\ clock[t] < M /\ label[t] = Now(t)
  <2>1. t \in Lower /\ Live(t)
    BY <1>2 DEF Lower, Live
  <2> QED
    BY <1>1, <1>2, <2>1, StepBound DEF TaskCurrent
<1>4. /\ t \in TaskPaths /\ Len(t) \in Nat \ {0} /\ clock[t] \in Nat /\ TaskLabel(t, Now(t))
      /\ NextStretch(t) \in TaskPaths \X Nat /\ NextStretch(t)[1] = t /\ Own(t) = Len(t) + 1
      /\ Stretch(t) \in Stretches /\ Stretch(t)[1] = t /\ recorded[Stretch(t)] = Now(t)
  <2>1. t \in TaskPaths /\ clock[t] \in Nat
    BY <1>1, OfTask
  <2>2. /\ Len(t) \in Nat \ {0} /\ TaskLabel(t, Now(t)) /\ Own(t) = Len(t) + 1
        /\ Stretch(t) \in Stretches /\ Stretch(t)[1] = t
    BY <1>1, <1>3, NowIs
  <2> QED
    BY <2>1, <2>2 DEF NextStretch, Now
<1>5. Last(label[t]).value.phase = 0
  <2>1. Own(t) \in 1..Len(t) + 1
    BY <1>4
  <2>2. Now(t)[Own(t)] \in TaskSegment /\ Len(Now(t)) = Own(t)
    BY <1>4, <2>1, OfLabel
  <2>3. Last(label[t]) = Now(t)[Own(t)]
    BY <1>3, <2>2 DEF Last
  <2> QED
    BY <2>2, <2>3, OfSegment
<1>6. /\ TaskLabel(t, mutated) /\ (\A i \in 1..Len(t) : mutated[i] = Now(t)[i])
      /\ Waits(mutated, Own(t)) = Waits(Now(t), Own(t)) + 1 /\ Creates(mutated, Own(t)) = Creates(Now(t), Own(t))
      /\ mutated[Own(t)].obj = NextStretch(t) /\ Waited(mutated, Own(t)) = Waited(Now(t), Own(t))
      /\ Span(mutated, Own(t)) = Span(Now(t), Own(t))
  BY <1>3, <1>4, WaitLabel
<1>7. /\ label' = [s \in DOMAIN labels |-> MarkTaskwaited(labels[s], K, 0)]
      /\ recorded' = [s \in DOMAIN records |-> MarkTaskwaited(records[s], K, 0)]
      /\ clock' = [clock EXCEPT ![t] = @ + 1]
      /\ past' = [past EXCEPT ![t] = Upto(t) \cup UNION {Upto(u) : u \in Created(t, 0)}]
      /\ children' = [children EXCEPT ![t] = {}]
      /\ app' = app /\ edges' = edges /\ status' = status /\ groups' = groups
  BY <1>5 DEF TaskWait, Relabel
<1>8. /\ DOMAIN status = Tasks /\ DOMAIN clock = Tasks /\ DOMAIN groups = Tasks
      /\ DOMAIN past = Tasks /\ DOMAIN children = Tasks /\ DOMAIN label = Tasks /\ DOMAIN recorded = Stretches
      /\ InitialTask \in Tasks /\ label[InitialTask] \in Seq(TaskSegment) /\ Len(label[InitialTask]) = 1
  BY <1>1 DEF TaskTyped, Tasks
<1>9. /\ mutated \in Seq(TaskSegment) /\ Len(mutated) = Len(t) + 1 /\ mutated # <<>>
  BY <1>4, <1>6 DEF TaskLabel
<1> HIDE DEF mutated
<1>10. /\ DOMAIN labels = Tasks /\ labels[t] = mutated
       /\ \A v \in Tasks : v # t => labels[v] = label[v]
  BY <1>8 DEF Labels
<1>11. /\ DOMAIN records = DOMAIN recorded \cup {NextStretch(t)}
       /\ (\A s \in DOMAIN recorded : s # NextStretch(t) => records[s] = recorded[s])
       /\ records[NextStretch(t)] = mutated
  BY <1>2, <1>9, RecordsOf
<1> HIDE DEF labels, records
<1>12. Created(t, 0) = Kids(t)
  <2>1. ASSUME NEW u \in Created(t, 0) PROVE u \in Kids(t)
    <3>1. u \in Tasks /\ u # InitialTask /\ Front(u) = t /\ IsExplicit(u)
      BY DEF Created
    <3>2. Len(u) > 1
      BY <1>1, <3>1, ExplicitIs DEF Lower
    <3> QED
      BY <3>1, <3>2 DEF Kids
  <2>2. ASSUME NEW u \in Kids(t) PROVE u \in Created(t, 0)
    <3>1. u \in Tasks /\ Len(u) > 1 /\ Front(u) = t
      BY DEF Kids
    <3>2. u # InitialTask
      BY <3>1 DEF InitialTask
    <3>3. IsExplicit(u) /\ Last(u) = u[Len(u)]
      BY <1>1, <3>1, <3>2, ExplicitIs DEF Lower
    <3>4. u[Len(u)][1] \in Nat
      <4>1. Len(u) \in 1..Len(u)
        BY <1>1, <3>1, OfTask
      <4> QED
        BY <1>1, <3>1, <4>1, OfTask
    <3>5. Last(u)[1] >= 0
      BY <3>3, <3>4
    <3> QED
      BY <3>1, <3>2, <3>3, <3>5 DEF Created
  <2> QED
    BY <2>1, <2>2
<1>13. ASSUME NEW w \in Kids(t) PROVE status[w] = "over"
  BY <1>2, <1>12 DEF Over
<1>14. ASSUME NEW o \in K PROVE \E s \in Stretches : s[1] = t /\ o = recorded[s][Own(t)].obj
  <2>1. PICK u \in children[t] : o = Last(label[u]).obj
    OBVIOUS
  <2>2. u \in Tasks /\ Len(u) > 1 /\ Front(u) = t
    BY <1>1 DEF TaskTyped
  <2>3. u \in Kids(t)
    BY <2>2 DEF Kids
  <2>4. status[u] = "over"
    BY <1>13, <2>3
  <2> QED
    BY <1>1, <1>3, <2>1, <2>3, <2>4, MarkedIsOwn
<1> HIDE DEF K
<1>15. ASSUME NEW o \in K
       PROVE  /\ o[1] = t /\ o # NextStretch(t)
              /\ o # label[InitialTask][1].obj /\ \A r \in Stretches : o # recorded[r][1].obj
  <2>1. PICK s \in Stretches : s[1] = t /\ o = recorded[s][Own(t)].obj
    BY <1>14
  <2>2. o = recorded[s][Own(s[1])].obj
    BY <2>1
  <2>3. o[1] = t /\ o # NextStretch(t)
    BY <1>1, <1>3, <2>1, <2>2, OwnObject, OwnIsOld
  <2> QED
    BY <1>1, <2>2, <2>3 DEF TaskObjects
<1>16. label'[InitialTask] = label[InitialTask]
  <2>1. \A i \in 1..Len(label[InitialTask]) : label[InitialTask][i].obj \notin K
    <3>1. \A i \in 1..1 : i = 1
      OBVIOUS
    <3> QED
      BY <1>8, <1>15, <3>1
  <2>2. MarkTaskwaited(label[InitialTask], K, 0) = label[InitialTask]
    BY <1>8, <2>1, UnmarkedLabel
  <2>3. labels[InitialTask] = label[InitialTask] /\ InitialTask \in DOMAIN labels
    BY <1>2, <1>8, <1>10
  <2> QED
    BY <1>7, <2>2, <2>3
<1>17. MarkTaskwaited(mutated, K, 0) = mutated
  <2>1. ASSUME NEW i \in 1..Len(mutated), mutated[i].obj \in K PROVE FALSE
    <3>1. i = 1 \/ i \in 2..Len(t) \/ i = Own(t)
      BY <1>4, <1>9
    <3>2. CASE i = 1
      <4>1. mutated[1] = recorded[Stretch(t)][1]
        BY <1>4, <1>6
      <4> QED
        BY <1>4, <1>15, <2>1, <3>2, <4>1
    <3>3. CASE i \in 2..Len(t)
      <4>1. i \in 2..Len(mutated) /\ i - 1 \in 0..Len(t) /\ i - 1 # Len(t)
        BY <1>4, <1>9, <3>3
      <4>2. mutated[i].obj[1] = SubSeq(t, 1, i - 1)
        BY <1>6, <4>1 DEF TaskLabel
      <4>3. Len(SubSeq(t, 1, i - 1)) = i - 1
        BY <1>4, <4>1, PathTo
      <4> QED
        BY <1>15, <2>1, <4>1, <4>2, <4>3
    <3>4. CASE i = Own(t)
      BY <1>6, <1>15, <2>1, <3>4
    <3> QED
      BY <3>1, <3>2, <3>3, <3>4
  <2> QED
    BY <1>9, <2>1, UnmarkedLabel
<1>18. label'[t] = mutated /\ recorded'[NextStretch(t)] = mutated
  BY <1>7, <1>10, <1>11, <1>17
<1>19. ASSUME NEW v \in Lower, v # t, Live(v) \/ Len(v) > 1 PROVE MarkedLabel(label'[v], label[v], K)
  <2>1. v \in Tasks
    BY DEF Lower
  <2>2. Now(v) \in Seq(TaskSegment)
    BY <1>1, NowIs
  <2>3. label[v] \in Seq(TaskSegment)
    BY <1>1, <1>19, <2>2 DEF TaskCurrent
  <2>4. label'[v] = MarkTaskwaited(label[v], K, 0)
    BY <1>7, <1>10, <1>19, <2>1
  <2> QED
    BY <2>3, <2>4, MarksLabel
<1>20. Tasks' = Tasks /\ clock'[t] = clock[t] + 1 /\ \A v \in Tasks : v # t => clock'[v] = clock[v]
  <2>1. DOMAIN label' = Tasks
    BY <1>7, <1>10
  <2> QED
    BY <1>7, <1>8, <2>1 DEF Tasks
<1>21. Grows(t, {})
  BY <1>3, <1>20 DEF Grows
<1>22. ASSUME NEW s \in Stretches PROVE MarkedLabel(recorded'[s], recorded[s], K)
  <2>1. s # NextStretch(t)
    BY <1>1, <1>21, GrowsTo
  <2>2. recorded'[s] = MarkTaskwaited(recorded[s], K, 0)
    BY <1>7, <1>8, <1>11, <2>1
  <2>3. recorded[s] \in Seq(TaskSegment)
    BY <1>1, RecordIs DEF TaskLabel
  <2> QED
    BY <2>2, <2>3, MarksLabel
<1>23. \A d \in {DOMAIN status', DOMAIN clock', DOMAIN groups', DOMAIN past', DOMAIN children'} : d = Tasks'
  BY <1>7, <1>8, <1>20
<1>24. ASSUME NEW v \in Tasks
       PROVE  /\ status'[v] = status[v] /\ groups'[v] = groups[v]
              /\ children'[v] \subseteq children[v] \cup (IF v = t THEN {} ELSE {})
              /\ v # t => past'[v] = past[v]
  BY <1>7, <1>8
<1>25. DOMAIN recorded' = DOMAIN recorded \cup {NextStretch(t)} \cup {<<u, 0>> : u \in {}}
  BY <1>7, <1>11
<1>26. NextLabel(t, label'[t])
  <2>1. ~Waited(mutated, Own(t))
    BY <1>1, <1>3, <1>6 DEF TaskMarks
  <2> QED
    BY <1>6, <1>18, <2>1 DEF NextLabel
<1>27. past'[t] = Upto(t) \cup UNION {Upto(w) : w \in Kids(t)}
  BY <1>7, <1>8, <1>12
<1>28. Advances(t, {}, K, M)
  BY <1>2, <1>3, <1>6, <1>7, <1>13, <1>14, <1>16, <1>18, <1>19, <1>21, <1>22, <1>23, <1>24, <1>25, <1>26, <1>27
     DEF Advances
<1> QED
  BY <1>28 DEF K

-----------------------------------------------------------------------------
(* Programs of tasks keep the invariant                                     *)

\* The label that the initial task begins with
LEMMA InitialLabel ==
  LET l == genInitTaskLabel(<<InitialTask, 0>>)
  IN  /\ l \in Seq(TaskSegment) /\ Len(l) = 1 /\ FirstSegment(l[1]) /\ l[1].obj = <<InitialTask, 0>>
      /\ Offset(l, 1) = 0
<1> DEFINE x == <<InitialTask, 0>>
           seg == BaseSegment("eImplicit", 0, 1, x)
<1>1. x \in TaskPaths \X Nat /\ 0 \in 0..OffsetLimit-1
  <2>1. InitialTask \in Seq(Nat \X Int)
    BY DEF InitialTask
  <2> QED
    BY <2>1, OffsetLimitAssumption DEF TaskPaths
<1> HIDE DEF x
<1>2. /\ seg \in TaskSegment /\ seg.obj = x /\ seg.value.type = "eImplicit" /\ seg.value.offset = 0
      /\ seg.value.span = 1
      /\ seg.value.taskwait = 0 /\ seg.value.taskcreate = 0 /\ ~seg.value.taskwaited
  BY <1>1, NewSegment
<1> HIDE DEF seg
<1>3. FirstSegment(seg)
  BY <1>2 DEF FirstSegment
<1>4. <<seg>> \in Seq(TaskSegment) /\ Len(<<seg>>) = 1 /\ <<seg>>[1] = seg
  BY <1>2
<1>5. genInitTaskLabel(x) = <<seg>>
  BY DEF genInitTaskLabel, seg
<1> QED
  BY <1>2, <1>3, <1>4, <1>5 DEF x, Offset

\* The initial states satisfy the invariant.
LEMMA TaskInitKeeps ==
  ASSUME NEW M \in Nat, TaskProgram(M), Init
  PROVE  TaskInv(M)
<1> DEFINE l == genInitTaskLabel(<<InitialTask, 0>>)
<1>1. /\ l \in Seq(TaskSegment) /\ Len(l) = 1 /\ FirstSegment(l[1]) /\ l[1].obj = <<InitialTask, 0>>
      /\ Offset(l, 1) = 0
  BY InitialLabel
<1> HIDE DEF l
<1>2. /\ label = [y \in {InitialTask} |-> l] /\ children = [y \in {InitialTask} |-> {}]
      /\ status = [y \in {InitialTask} |-> "running"] /\ clock = [y \in {InitialTask} |-> 0]
      /\ groups = [y \in {InitialTask} |-> <<>>] /\ past = [y \in {InitialTask} |-> {}]
      /\ recorded = <<>> /\ app \in Programs /\ edges = {}
  BY DEF Init, One, l
<1>3. Tasks = {InitialTask} /\ Lower = {}
  BY <1>2 DEF Tasks, Lower
<1>4. Stretches = {}
  BY <1>3 DEF Stretches
<1>5. /\ label[InitialTask] = l /\ children[InitialTask] = {} /\ status[InitialTask] = "running"
      /\ clock[InitialTask] = 0 /\ groups[InitialTask] = <<>> /\ past[InitialTask] = {}
      /\ DOMAIN recorded = {} /\ DOMAIN status = Tasks /\ DOMAIN clock = Tasks /\ DOMAIN groups = Tasks
      /\ DOMAIN past = Tasks /\ DOMAIN children = Tasks
  BY <1>2, <1>3
<1>6. /\ InitialTask \in TaskPaths /\ Len(InitialTask) = 0 /\ \A n : n \notin 2..Len(InitialTask)
      /\ \A n : n \in 0..Len(InitialTask) => n = 0
      /\ \A n : n \notin 0..Len(InitialTask) - 1
      /\ SubSeq(InitialTask, 1, 0) = InitialTask
  <2>1. InitialTask \in TaskPaths /\ Len(InitialTask) = 0
    BY DEF InitialTask, TaskPaths
  <2>2. /\ \A n : n \notin 2..0
        /\ \A n : n \in 0..0 => n = 0
        /\ \A n : n \notin 0..0 - 1
    OBVIOUS
  <2>3. 0 \in 0..0
    OBVIOUS
  <2>4. SubSeq(InitialTask, 1, 0) = InitialTask
    BY <2>1, <2>3, PathTo
  <2> QED
    BY <2>1, <2>2, <2>4
<1>7. TaskTyped
  <2>1. TaskPath(InitialTask)
    BY <1>6 DEF TaskPath
  <2>2. Len(InitialTask) + 1 <= Len(MaxSteps)
    <3>1. MaxSteps \in Seq(Nat)
      BY <1>2, BoundsAssumption DEF MaxSteps
    <3>2. Len(MaxSteps) \in Nat /\ Len(MaxSteps) > 0
      BY <3>1 DEF TaskProgram
    <3> QED
      BY <1>6, <3>2
  <2> QED
    BY <1>1, <1>2, <1>3, <1>4, <1>5, <1>6, <2>1, <2>2 DEF TaskTyped
<1>8. TaskTree
  BY <1>3, <1>6 DEF TaskTree
<1>9. TaskObjects
  <2>1. \A o \in {recorded[r][1].obj : r \in Stretches} \cup {label[InitialTask][1].obj} : o = <<InitialTask, 0>>
    BY <1>1, <1>4, <1>5
  <2> QED
    BY <1>3, <1>4, <1>5, <2>1 DEF TaskObjects
<1>10. TaskLabels /\ TaskCounts /\ TaskCurrent /\ TaskEpochs /\ TaskEnds /\ TaskMarks
  BY <1>3, <1>4 DEF TaskLabels, TaskCounts, TaskCurrent, TaskEpochs, TaskEnds, TaskMarks
<1>11. TaskBounds(M)
  BY <1>1, <1>3, <1>5 DEF TaskBounds
<1>12. TaskChain /\ TaskWaited /\ TaskLineage /\ TaskPast
  BY <1>3, <1>4 DEF TaskChain, TaskWaited, TaskLineage, TaskPast
<1> QED
  BY <1>7, <1>8, <1>9, <1>10, <1>11, <1>12 DEF TaskInv

\* A step that changes nothing preserves it.
LEMMA TaskStutterKeeps ==
  ASSUME NEW M \in Nat, TaskInv(M), UNCHANGED vars
  PROVE  TaskInv(M)'
<1>1. /\ app' = app /\ label' = label /\ children' = children /\ edges' = edges /\ status' = status
      /\ clock' = clock /\ groups' = groups /\ past' = past /\ recorded' = recorded
  BY DEF vars, data, program, truth
<1>2. Tasks' = Tasks
  BY <1>1 DEF Tasks
<1>3. Silent
  BY <1>1, <1>2 DEF Silent
<1>4. /\ Lower' = Lower /\ Stretches' = Stretches
      /\ \A p, n : At(p, n)' = At(p, n)
      /\ \A v \in Lower : Now(v)' = Now(v) /\ Stretch(v)' = Stretch(v)
      /\ Constructs' = Constructs /\ MaxSteps' = MaxSteps
  BY <1>3, SilentSame
<1>5. /\ TaskTyped /\ TaskTree /\ TaskLabels /\ TaskObjects /\ TaskCounts /\ TaskCurrent
      /\ TaskEpochs /\ TaskBounds(M) /\ TaskEnds /\ TaskMarks /\ TaskChain /\ TaskWaited
      /\ TaskLineage /\ TaskPast
  BY DEF TaskInv
<1>6. TaskTyped' /\ TaskTree'
  BY <1>1, <1>2, <1>4, <1>5 DEF TaskTyped, TaskTree
<1>7. TaskLabels' /\ TaskCounts'
  BY <1>3, <1>5, SilentLabels
<1>8. TaskChain' /\ TaskWaited' /\ TaskLineage'
  <2>1. \A v \in Tasks : past[v] \subseteq past'[v]
    BY <1>1
  <2>2. \A v \in Lower : Live(v)' => Live(v)
    BY <1>1, <1>2 DEF Live
  <2> QED
    BY <1>3, <1>5, <2>1, <2>2, SilentPast
<1>9. TaskObjects' /\ TaskEnds' /\ TaskMarks' /\ TaskCurrent'
  <2>1. TaskObjects'
    BY <1>1, <1>2, <1>4, <1>5 DEF TaskObjects
  <2>2. TaskCurrent' /\ TaskMarks'
    BY <1>1, <1>2, <1>4, <1>5 DEF TaskCurrent, TaskMarks, Live, At, Now, Stretch
  <2>3. TaskEnds'
    BY <1>1, <1>2, <1>4, <1>5 DEF TaskEnds, Epoch, Leaving, Live, Now, Stretch
  <2> QED
    BY <2>1, <2>2, <2>3
<1>10. TaskEpochs' /\ TaskBounds(M)' /\ TaskPast'
  <2>1. TaskEpochs'
    BY <1>1, <1>2, <1>4, <1>5 DEF TaskEpochs, Epoch, Leaving, Live, Now, Stretch
  <2>2. TaskBounds(M)'
    BY <1>1, <1>2, <1>4, <1>5 DEF TaskBounds, Epoch, Leaving, Live, Now, Stretch
  <2>3. TaskPast'
    BY <1>1, <1>2, <1>4, <1>5 DEF TaskPast, Epoch, Leaving, Live, Now, Stretch, Lineage, Joined
  <2> QED
    BY <2>1, <2>2, <2>3
<1> QED
  BY <1>6, <1>7, <1>8, <1>9, <1>10 DEF TaskInv

\* No member of a team is in a workshare.
LEMMA TasksArePlain ==
  ASSUME NEW M \in Nat, TaskInv(M), NEW t \in Tasks, AtWorkshare(t)
  PROVE  Plain(t)
<1>1. TaskTyped /\ TaskLabels /\ TaskCurrent
  BY DEF TaskInv
<1>2. t \in Lower /\ Live(t)
  BY DEF AtWorkshare, CanStep, Running, IsImplicit, Lower, Live
<1>3. /\ label[t] = Now(t) /\ TaskLabel(t, Now(t)) /\ Len(t) \in Nat \ {0} /\ Own(t) = Len(t) + 1
  BY <1>1, <1>2, NowIs DEF TaskCurrent
<1>4. Own(t) \in 1..Len(t) + 1
  BY <1>3
<1>5. Now(t)[Own(t)] \in TaskSegment /\ Len(Now(t)) = Own(t)
  BY <1>3, <1>4, OfLabel
<1>6. Last(label[t]) = Now(t)[Own(t)]
  BY <1>3, <1>5 DEF Last
<1> QED
  BY <1>5, <1>6, OfSegment DEF Plain, Type

\* The steps that such a program makes
LEMMA OnlyTaskSteps ==
  ASSUME NEW M \in Nat, TaskProgram(M), TaskInv(M), Next
  PROVE  \/ \E t \in Tasks : \E size \in TeamSizes : ParallelBegin(t, size)
         \/ \E t \in Tasks : \E kind \in {"atBarrier", "atEnd"} : BarrierBegin(t, kind)
         \/ \E r \in {Region(t) : t \in {u \in Tasks : IsImplicit(u)}} : BarrierComplete(r)
         \/ \E t \in Tasks : BarrierEnd(t) \/ ImplicitTaskEnd(t)
         \/ \E t \in Tasks : \E preds \in SUBSET children[t] : TaskCreate(t, preds)
         \/ \E t \in Tasks : TaskComplete(t) \/ TaskWait(t)
<1>1. Constructs \subseteq {"barrier", "task", "taskwait"}
  BY DEF TaskProgram
<1>2. ASSUME NEW t \in Tasks PROVE status[t] # "waiting" /\ groups[t] = <<>>
  BY OfTask DEF TaskInv
<1>3. ASSUME NEW t \in Tasks
      PROVE  /\ ~TaskStart(t) /\ ~TaskCreateUndeferred(t) /\ ~WorkTaskLoop(t)
             /\ ~TaskGroupBegin(t) /\ ~TaskGroupEnd(t)
  BY <1>1, <1>2 DEF TaskStart, TaskCreateUndeferred, WorkTaskLoop, TaskGroupBegin, TaskGroupEnd
<1>4. ASSUME NEW t \in Tasks
      PROVE  ~SingleBegin(t) /\ ~LoopBegin(t) /\ ~OrderedBegin(t)
  BY <1>1 DEF SingleBegin, LoopBegin, OrderedBegin
<1>5. ASSUME NEW t \in Tasks
      PROVE  ~SingleEnd(t) /\ ~LoopEnd(t) /\ ~OrderedEnd(t)
  BY TasksArePlain DEF SingleEnd, LoopEnd, OrderedEnd, InLoop, InIteration
<1>6. ASSUME NEW t \in Tasks, NEW i, NEW section PROVE ~Dispatch(t, i, section)
  BY <1>1 DEF Dispatch
<1> QED
  BY <1>3, <1>4, <1>5, <1>6 DEF Next

\* Every step preserves the invariant.
LEMMA TaskNextKeeps ==
  ASSUME NEW M \in Nat, TaskProgram(M), TaskInv(M), Next
  PROVE  TaskInv(M)'
<1>1. CASE \E t \in Tasks : \E size \in TeamSizes : ParallelBegin(t, size)
  <2>1. PICK t \in Tasks, size \in TeamSizes : ParallelBegin(t, size)
    BY <1>1
  <2>2. PICK N : Starts(size, N, M)
    BY <2>1, StartsIfParallelBegin
  <2> QED
    BY <2>2, StartsKeeps
<1>2. CASE \E t \in Tasks : \E kind \in {"atBarrier", "atEnd"} : BarrierBegin(t, kind)
  BY <1>2, RestsIfBarrierBegin, RestsKeeps
<1>3. CASE \E r \in {Region(t) : t \in {u \in Tasks : IsImplicit(u)}} : BarrierComplete(r)
  <2>1. PICK q \in Tasks : IsImplicit(q) /\ BarrierComplete(Region(q))
    BY <1>3
  <2>2. PICK kind : Freed(kind)
    BY <2>1, FreedIfBarrierComplete
  <2> QED
    BY <2>2, FreedKeeps
<1>4. CASE \E t \in Tasks : BarrierEnd(t) \/ ImplicitTaskEnd(t)
  BY <1>4, PassesIfBarrierEnd, PassesKeeps, LeavesIfImplicitTaskEnd, LeavesKeeps
<1>5. CASE \E t \in Tasks : \E preds \in SUBSET children[t] : TaskCreate(t, preds)
  <2>1. PICK t \in Tasks : \E preds \in SUBSET children[t] : TaskCreate(t, preds)
    BY <1>5
  <2>2. Spawns(t, Child(t), M)
    BY <2>1, SpawnsIfTaskCreate
  <2>3. Advances(t, {Child(t)}, {}, M)
    BY <2>2, SpawnsAdvances DEF TaskInv
  <2> QED
    BY <2>3, AdvancesKeeps
<1>6. CASE \E t \in Tasks : TaskComplete(t) \/ TaskWait(t)
  <2>1. PICK t \in Tasks : TaskComplete(t) \/ TaskWait(t)
    BY <1>6
  <2>2. CASE TaskComplete(t)
    BY <2>2, RestsIfTaskComplete, RestsKeeps
  <2>3. CASE TaskWait(t)
    <3>1. Advances(t, {}, {Last(label[u]).obj : u \in children[t]}, M)
      BY <2>3, AdvancesIfTaskWait
    <3> QED
      BY <3>1, AdvancesKeeps
  <2> QED
    BY <2>1, <2>2, <2>3
<1> QED
  BY <1>1, <1>2, <1>3, <1>4, <1>5, <1>6, OnlyTaskSteps

\* The invariant holds in every state of a program of tasks, taskwaits and
\* barriers, whatever the sizes of its teams and the depth of its tasks.
THEOREM TaskInvariant ==
  ASSUME NEW M \in Nat
  PROVE  Spec => [](TaskProgram(M) => TaskInv(M))
<1>1. Init => (TaskProgram(M) => TaskInv(M))
  BY TaskInitKeeps
<1>2. (TaskProgram(M) => TaskInv(M)) /\ [Next]_vars => (TaskProgram(M) => TaskInv(M))'
  <2>1. SUFFICES ASSUME TaskProgram(M) => TaskInv(M), [Next]_vars, TaskProgram(M)' PROVE TaskInv(M)'
    OBVIOUS
  <2>2. TaskProgram(M)
    BY <2>1, AppStays DEF TaskProgram, Constructs, MaxSteps
  <2> QED
    BY <2>1, <2>2, TaskNextKeeps, TaskStutterKeeps
<1> QED
  BY <1>1, <1>2, PTL DEF Spec

-----------------------------------------------------------------------------
(* What the detector says of programs of tasks                              *)

\* In every such program, at any depth, the detector takes a pair for ordered
\* only if it is, or if the access is of a task above the current one (Core.cpp,
\* happensBefore and its callees).
YesIsOrder ==
  \A s \in DOMAIN recorded, t \in Tasks :
    Compared(s, t) /\ happensBefore(recorded[s], label[t]) = "yes" => RealOrder(s, t) \/ Below(s[1], t)

\* So what nothing orders is missed only between a task and one below it.
THEOREM TaskYesIsOrder ==
  ASSUME NEW M \in Nat
  PROVE  Spec => [](TaskProgram(M) => YesIsOrder)
<1>1. TaskProgram(M) /\ TaskInv(M) => YesIsOrder
  BY YesMeansOrder DEF YesIsOrder
<1> QED
  BY <1>1, TaskInvariant, PTL

\* A taskwait between two tasks of one parent keeps the detector silent, at any
\* depth (Callbacks.cpp, markExpChildSyncTaskwait).
THEOREM TaskSiblingsSilent ==
  ASSUME NEW M \in Nat
  PROVE  Spec => [](TaskProgram(M) => SiblingsSilent)
<1>1. ASSUME TaskInv(M), NEW s \in DOMAIN recorded, NEW t \in Tasks, Compared(s, t), RealOrder(s, t),
             IsExplicit(s[1]), IsExplicit(t), Front(s[1]) = Front(t)
      PROVE  ~Detected(s, t)
  <2>1. happensBefore(recorded[s], label[t]) = "yes"
    BY <1>1, SiblingsYes
  <2>2. Detected(s, t) <=> happensBefore(recorded[s], label[t]) = "no"
    BY <1>1, DetectedIs
  <2> QED
    BY <2>1, <2>2
<1>2. TaskProgram(M) /\ TaskInv(M) => SiblingsSilent
  BY <1>1 DEF SiblingsSilent
<1> QED
  BY <1>2, TaskInvariant, PTL

\* analyzeRaceCondition does not read the data of an implicit task after they are
\* deleted: who is not ordered with a member of a team that is over is not a
\* running explicit task (Core.cpp, lines 49 and 50).
THEOREM TaskDeletedDataNotRead ==
  ASSUME NEW M \in Nat
  PROVE  Spec => [](TaskProgram(M) => DeletedDataNotRead)
<1>1. ASSUME TaskInv(M), NEW s \in DOMAIN recorded, NEW t \in Tasks, Compared(s, t), IsExplicit(t),
             IsRace(recorded[s], label[t]), IsImplicit(s[1])
      PROVE  status[s[1]] # "over"
  <2>1. happensBefore(recorded[s], label[t]) = "no"
    BY <1>1, DetectedIs
  <2>2. s[1] # t
    BY <1>1 DEF IsImplicit
  <2> QED
    BY <1>1, <2>1, <2>2, DeletedOrdered
<1>2. TaskProgram(M) /\ TaskInv(M) => DeletedDataNotRead
  BY <1>1 DEF DeletedDataNotRead
<1> QED
  BY <1>2, TaskInvariant, PTL

\* The label of a running task is never a prefix of a recorded one (Core.cpp,
\* line 115: the case does not arise).
THEOREM TaskPrefixIsOrdered ==
  ASSUME NEW M \in Nat
  PROVE  Spec => [](TaskProgram(M) => PrefixIsOrdered)
<1>1. TaskProgram(M) /\ TaskInv(M) => PrefixIsOrdered
  BY DetectedIs DEF PrefixIsOrdered
<1> QED
  BY <1>1, TaskInvariant, PTL

\* Where nobody waits for a task that has created tasks, what a barrier, a
\* creation or a taskwait orders is not reported.
THEOREM TaskOrderedSilent ==
  ASSUME NEW M \in Nat
  PROVE  Spec => [](TaskProgram(M) /\ Shallow => OrderedSilent)
<1>1. ASSUME TaskInv(M), Shallow, NEW s \in DOMAIN recorded, NEW t \in Tasks, Compared(s, t), RealOrder(s, t)
      PROVE  ~Detected(s, t)
  <2>1. happensBefore(recorded[s], label[t]) = "yes"
    BY <1>1, ShallowOrderMeansYes
  <2>2. Detected(s, t) <=> happensBefore(recorded[s], label[t]) = "no"
    BY <1>1, DetectedIs
  <2> QED
    BY <2>1, <2>2
<1>2. TaskProgram(M) /\ Shallow /\ TaskInv(M) => OrderedSilent
  BY <1>1 DEF OrderedSilent
<1> QED
  BY <1>2, TaskInvariant, PTL

\* In such programs no check of the analysis fails.
THEOREM TaskChecksPass ==
  ASSUME NEW M \in Nat
  PROVE  Spec => [](TaskProgram(M) /\ Shallow => ChecksPass)
<1>1. ASSUME TaskInv(M), Shallow, NEW s \in DOMAIN recorded, NEW t \in Tasks, Compared(s, t)
      PROVE  happensBefore(recorded[s], label[t]) # "abort"
  <2>1. happensBefore(recorded[s], label[t]) \in {"yes", "no"}
    BY <1>1, NotAbort
  <2> QED
    BY <2>1
<1>2. TaskProgram(M) /\ Shallow /\ TaskInv(M) => ChecksPass
  BY <1>1 DEF ChecksPass
<1> QED
  BY <1>2, TaskInvariant, PTL

\* What is neither ordered nor reported in them is of a task and one below it, which
\* an explicit task on the way separates.
THEOREM TaskOnlyAncestorsMissed ==
  ASSUME NEW M \in Nat
  PROVE  Spec => [](TaskProgram(M) /\ Shallow => OnlyAncestorsMissed)
<1>1. ASSUME TaskInv(M), Shallow, NEW s \in DOMAIN recorded, NEW t \in Tasks, Compared(s, t),
             ~RealOrder(s, t), ~Detected(s, t)
      PROVE  IsPrefix(s[1], t) /\ \E k \in Len(s[1])+1 .. Len(t) : t[k][2] = NoIndex
  <2>1. happensBefore(recorded[s], label[t]) \in {"yes", "no"}
    BY <1>1, NotAbort
  <2>2. Detected(s, t) <=> happensBefore(recorded[s], label[t]) = "no"
    BY <1>1, DetectedIs
  <2>3. happensBefore(recorded[s], label[t]) = "yes"
    BY <1>1, <2>1, <2>2
  <2>4. Below(s[1], t)
    BY <1>1, <2>3, YesMeansOrder
  <2>5. TaskTyped /\ TaskLabels /\ TaskCurrent
    BY <1>1 DEF TaskInv
  <2>6. s \in Stretches /\ t \in Tasks
    BY <1>1, <2>5, ComparedStretch
  <2>7. /\ s[1] \in TaskPaths /\ Len(s[1]) \in Nat \ {0} /\ t \in TaskPaths /\ Len(t) \in Nat
        /\ \A i \in 2..Len(t) : t[i][2] = NoIndex
    BY <2>5, <2>6, OfStretch, OfTask
  <2>8. Len(s[1]) < Len(t) /\ SamePath(s[1], t, Len(s[1]))
    BY <2>4 DEF Below
  <2>9. IsPrefix(s[1], t)
    <3>1. s[1] = SubSeq(t, 1, Len(s[1]))
      BY <2>7, <2>8, IsPathTo
    <3> QED
      BY <2>7, <2>8, <3>1 DEF IsPrefix
  <2>10. Len(t) \in Len(s[1])+1 .. Len(t) /\ Len(t) \in 2..Len(t)
    BY <2>7, <2>8
  <2> QED
    BY <2>7, <2>9, <2>10
<1>2. TaskProgram(M) /\ Shallow /\ TaskInv(M) => OnlyAncestorsMissed
  BY <1>1 DEF OnlyAncestorsMissed
<1> QED
  BY <1>2, TaskInvariant, PTL
=============================================================================
