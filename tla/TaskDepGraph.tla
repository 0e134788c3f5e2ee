---------------------------- MODULE TaskDepGraph ----------------------------
(***************************************************************************)
(* The dependence graph of the explicit tasks of one parallel region       *)
(* (TaskDepGraph.cpp, the task-create and dependences callbacks of         *)
(* Callbacks.cpp), with the depth-first search that the race analysis of   *)
(* another thread makes in it (hasPath, Core.cpp:60-69).  The registration *)
(* of dependences and the search exclude each other by the lock of the     *)
(* region's ParRegionData.                                                 *)
(***************************************************************************)
EXTENDS Naturals, FiniteSets, SequencesExt

CONSTANTS Tasks,      \* the explicit tasks of the region
          Parents,    \* the tasks that create them, each on a thread of its own
          Parent,     \* who creates which
          Variables,  \* dependence variables
          DepLists,   \* the lists of dependences the program may give a task
          None        \* nobody holds the lock

AllDepTypes == {"in", "out", "inout", "mutexinoutset", "source", "sink"}

Dependence == [variable : Variables, type : AllDepTypes]

ASSUME GraphAssumption == /\ IsFiniteSet(Tasks)
                          /\ Parent \in [Tasks -> Parents]
                          /\ DepLists \subseteq Seq(Dependence)
                          /\ None \notin Tasks /\ "search" \notin Tasks /\ None # "search"

VARIABLES expTaskCount, \* ParRegionData.expTaskCount
          expLocalId,   \* TaskData.expLocalId, for the tasks that exist
          isMutexTask,  \* TaskData.isMutexTask
          status,       \* how far the callbacks about a task have come
          declared,     \* the dependences the program gave the task (history variable)
          deps,         \* TaskDepGraph._deps: the <<task, type>> pairs of each variable
          graph,        \* TaskDepGraph._graph: the tasks each task points to
          lock,         \* ParRegionData.lock: the task being registered, "search" or None
          todoDeps,     \* dependences the holder of the lock has still to register
          from, to, todo, visited,  \* arguments and locals of hasPath
          answer        \* what hasPath has returned last

tasksVars == <<expTaskCount, expLocalId, isMutexTask, status, declared>>
graphVars == <<deps, graph>>
searchVars == <<from, to, todo, visited, answer>>
vars == <<tasksVars, graphVars, searchVars, lock, todoDeps>>

Init == /\ expTaskCount = 0
        /\ expLocalId = [t \in Tasks |-> 0]
        /\ isMutexTask = [t \in Tasks |-> FALSE]
        /\ status = [t \in Tasks |-> "new"]
        /\ declared = [t \in Tasks |-> <<>>]
        /\ deps = [v \in Variables |-> {}]
        /\ graph = [t \in Tasks |-> {}]
        /\ lock = None
        /\ todoDeps = <<>>
        /\ from = None /\ to = None
        /\ todo = <<>>
        /\ visited = {}
        /\ answer = "none"

-----------------------------------------------------------------------------
(* Creation of tasks *)

\* on_ompt_callback_task_create draws the task's number; the thread of the
\* parent goes on to the task's dependences before it creates another task.
TaskCreate(t) ==
  /\ status[t] = "new"
  /\ \A u \in Tasks : Parent[u] = Parent[t] => status[u] \in {"new", "registered"}
  /\ status' = [status EXCEPT ![t] = "created"]
  /\ expLocalId' = [expLocalId EXCEPT ![t] = expTaskCount]
  /\ expTaskCount' = expTaskCount + 1
  /\ UNCHANGED <<isMutexTask, declared, graphVars, searchVars, lock, todoDeps>>

\* on_ompt_callback_dependences takes the lock of the region.
Dependences(t, ds) ==
  /\ status[t] = "created"
  /\ lock = None
  /\ lock' = t
  /\ todoDeps' = ds
  /\ declared' = [declared EXCEPT ![t] = ds]
  /\ status' = [status EXCEPT ![t] = "registering"]
  /\ UNCHANGED <<expTaskCount, expLocalId, isMutexTask, graphVars, searchVars>>

\* Mutated form of WaitsFor: readers wait for readers.
WaitsForAll(type) == CASE type \in {"in", "out", "inout"} -> AllDepTypes
                       [] type = "mutexinoutset" -> {"in", "inout", "out"}
                       [] OTHER -> {}

\* The dependence types after which a task of the given type has to wait.
WaitsFor(type) == CASE type = "in" -> {"out", "inout", "mutexinoutset"}
                    [] type \in {"out", "inout"} -> AllDepTypes
                    [] type = "mutexinoutset" -> {"in", "inout", "out"}
                    [] OTHER -> {}

\* Mutated form of Predecessors: the order of creation is not looked at.
KnownTasks(t, d) ==
  {u \in Tasks : /\ u # t
                 /\ \E type \in WaitsFor(d.type) : <<u, type>> \in deps[d.variable]}

\* The tasks already known for the variable that the new task waits for.
Predecessors(t, d) ==
  {u \in Tasks : /\ expLocalId[t] > expLocalId[u]
                 /\ \E type \in WaitsFor(d.type) : <<u, type>> \in deps[d.variable]}

\* addEdge from every one of these tasks.
AddEdges(preds, t) ==
  graph' = [u \in Tasks |-> IF u \in preds THEN graph[u] \cup {t} ELSE graph[u]]

\* addDeps for the next dependence.  Only the first task of a variable is
\* entered in _deps; later ones get their edges and are not remembered.
AddDeps ==
  /\ lock \in Tasks
  /\ todoDeps # <<>>
  /\ LET d == Head(todoDeps)
     IN  IF d.type \in {"source", "sink"}
         THEN UNCHANGED <<isMutexTask, graphVars>>
         ELSE /\ isMutexTask' = [isMutexTask EXCEPT ![lock] = @ \/ d.type = "mutexinoutset"]
              /\ IF deps[d.variable] = {}
                 THEN /\ deps' = [deps EXCEPT ![d.variable] = { <<lock, d.type>> }]
                      /\ UNCHANGED graph
                 ELSE AddEdges(Predecessors(lock, d), lock) /\ UNCHANGED deps
  /\ todoDeps' = Tail(todoDeps)
  /\ UNCHANGED <<expTaskCount, expLocalId, status, declared, searchVars, lock>>

\* Mutated form of EndDependences: the lock is released after any dependence.
EndEarly ==
  /\ lock \in Tasks
  /\ status' = [status EXCEPT ![lock] = "registered"]
  /\ lock' = None
  /\ UNCHANGED <<expTaskCount, expLocalId, isMutexTask, declared, graphVars, searchVars, todoDeps>>

\* The LockGuard of the callback goes out of scope.
EndDependences ==
  /\ lock \in Tasks
  /\ todoDeps = <<>>
  /\ status' = [status EXCEPT ![lock] = "registered"]
  /\ lock' = None
  /\ UNCHANGED <<expTaskCount, expLocalId, isMutexTask, declared, graphVars, searchVars, todoDeps>>

-----------------------------------------------------------------------------
(* hasPath *)

\* The race analysis of a task `t` that has met a record of a task `h`.  A
\* task that is not in _graph has no neighbours and is answered like one that
\* is there without any (the search itself enters such tasks).
HasPath(h, t) ==
  /\ lock = None
  /\ h # t
  /\ status[h] = "registered" /\ status[t] = "registered"
  /\ lock' = "search"
  /\ from' = h
  /\ to' = t
  /\ todo' = <<h>>
  /\ visited' = {}
  /\ answer' = "none"
  /\ UNCHANGED <<tasksVars, graphVars, todoDeps>>

\* hasPath returns, its locals are gone, and the lock is released.
Answer(result) == /\ answer' = result
                  /\ lock' = None
                  /\ todo' = <<>>
                  /\ visited' = {}

\* Mutated forms of Visit: one neighbour is pushed only; a node that has been
\* seen is not popped.
VisitOneNeighbour ==
  /\ lock = "search"
  /\ todo # <<>>
  /\ LET node == Last(todo)
         new == graph[node] \ visited
     IN  IF node = to THEN Answer("path")
         ELSE /\ visited' = visited \cup {node}
              /\ todo' = Front(todo) \o (IF new = {} THEN <<>> ELSE <<CHOOSE u \in new : TRUE>>)
              /\ UNCHANGED <<answer, lock>>
  /\ UNCHANGED <<tasksVars, graphVars, from, to, todoDeps>>

VisitAndKeep ==
  /\ lock = "search"
  /\ todo # <<>>
  /\ LET node == Last(todo)
     IN  IF node = to THEN Answer("path")
         ELSE /\ visited' = visited \cup {node}
              /\ \E s \in SetToSeqs(graph[node] \ visited') : todo' = todo \o s
              /\ UNCHANGED <<answer, lock>>
  /\ UNCHANGED <<tasksVars, graphVars, from, to, todoDeps>>

\* One round of the loop: the top of the stack is the target, has been seen
\* before, or brings its neighbours that have not been seen.
Visit ==
  /\ lock = "search"
  /\ todo # <<>>
  /\ LET node == Last(todo)
     IN  \/ /\ node = to
            /\ Answer("path")
         \/ /\ node # to
            /\ node \in visited
            /\ todo' = Front(todo)
            /\ UNCHANGED <<visited, answer, lock>>
         \/ /\ node # to
            /\ node \notin visited
            /\ visited' = visited \cup {node}
            /\ \E s \in SetToSeqs(graph[node] \ visited') : todo' = Front(todo) \o s
            /\ UNCHANGED <<answer, lock>>
  /\ UNCHANGED <<tasksVars, graphVars, from, to, todoDeps>>

\* The stack is empty.
NoPath ==
  /\ lock = "search"
  /\ todo = <<>>
  /\ Answer("no path")
  /\ UNCHANGED <<tasksVars, graphVars, from, to, todoDeps>>

-----------------------------------------------------------------------------

\* The steps of a thread that has the lock of the region.
Holder == AddDeps \/ EndDependences \/ Visit \/ NoPath

Next == \/ \E t \in Tasks : TaskCreate(t) \/ \E ds \in DepLists : Dependences(t, ds)
        \/ \E h, t \in Tasks : HasPath(h, t)
        \/ Holder

Spec == Init /\ [][Next]_vars

\* A thread inside its critical section runs on.
FairSpec == Spec /\ WF_vars(Holder)

-----------------------------------------------------------------------------
(* Properties *)

Exists(t) == status[t] # "new"

\* Every variable has its type; dependences are registered by the holder of
\* the lock only.
TypeOK == /\ expTaskCount \in Nat
          /\ expLocalId \in [Tasks -> Nat]
          /\ isMutexTask \in [Tasks -> BOOLEAN]
          /\ status \in [Tasks -> {"new", "created", "registering", "registered"}]
          /\ declared \in [Tasks -> Seq(Dependence)]
          /\ deps \in [Variables -> SUBSET (Tasks \X AllDepTypes)]
          /\ graph \in [Tasks -> SUBSET Tasks]
          /\ lock \in Tasks \cup {"search", None}
          /\ \A t \in Tasks : lock = t <=> status[t] = "registering"
          /\ todoDeps \in Seq(Dependence)
          /\ todoDeps # <<>> => lock \in Tasks
          /\ {from, to} \subseteq Tasks \cup {None}
          /\ todo \in Seq(Tasks)
          /\ visited \subseteq Tasks
          /\ answer \in {"none", "path", "no path"}

Edge(t, u) == u \in graph[t]

\* "Task dependence forms a directed acyclic graph" (ParRegionData.cpp, line
\* 10), whatever the order in which threads draw numbers and register: every
\* edge leads from the lower number to the higher, and numbers are not shared.
Acyclic == /\ \A t, u \in Tasks : Edge(t, u) => expLocalId[t] < expLocalId[u]
           /\ \A t, u \in Tasks : Exists(t) /\ Exists(u) /\ expLocalId[t] = expLocalId[u] => t = u

Declares(t, v, types) ==
  \E i \in DOMAIN declared[t] : declared[t][i].variable = v /\ declared[t][i].type \in types

\* OpenMP orders two dependences on one variable unless both only read or both
\* exclude each other.
Conflict(t, u) ==
  \E v \in Variables, type1, type2 \in {"in", "out", "inout", "mutexinoutset"} :
    /\ Declares(t, v, {type1}) /\ Declares(u, v, {type2})
    /\ type1 = type2 => type1 \in {"out", "inout"}

\* An edge stands for two dependences on one variable that order the tasks.
EdgesDeclared == \A t, u \in Tasks : Edge(t, u) => Conflict(t, u)

\* There is a path from t to u: no edge leads out of a set with t but without u.
Reaches(t, u) ==
  \A S \in SUBSET Tasks : t \in S /\ (\A x \in S : graph[x] \subseteq S) => u \in S

\* The search answers for two tasks whether there is a path between them, and
\* the answer stays true while other tasks register their dependences.
SearchCorrect == answer # "none" => (answer = "path" <=> Reaches(from, to))

\* The search always comes to an end and gives the lock back.
SearchEnds == lock = "search" ~> lock = None

\* "it looks up all pairs in the corresponding vector ... find tasks that are
\* generated before current task (sibling tasks) and update the task graph
\* edge" (TaskDepGraph.cpp, lines 15-17).
EarlierSiblingsPrecede ==
  \A t, u \in Tasks :
    /\ Parent[t] = Parent[u]
    /\ status[t] = "registered" /\ status[u] = "registered"
    /\ expLocalId[t] < expLocalId[u]
    /\ Conflict(t, u)
   => Reaches(t, u)

\* "find tasks that are generated before current task (sibling tasks)".
EdgesBetweenSiblings == \A t, u \in Tasks : Edge(t, u) => Parent[t] = Parent[u]

\* "for any task dependence type 'mutexinoutset', form a pair of mutual
\* exclusion task" (lines 24-25): the analysis takes any two tasks with
\* isMutexTask for such a pair (Core.cpp, line 52).
MutexPairsShareVariable ==
  \A t, u \in Tasks :
    isMutexTask[t] /\ isMutexTask[u]
      => \E v \in Variables : Declares(t, v, {"mutexinoutset"}) /\ Declares(u, v, {"mutexinoutset"})
=============================================================================
