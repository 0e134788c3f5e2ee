------------------------------ MODULE Checking ------------------------------
(***************************************************************************)
(* The checks of many threads at once: checkAccess (RompLib.cpp) goes byte *)
(* by byte through the memory an instruction accesses, takes the lock of   *)
(* each byte's history and, inside it, the lock of the region for the      *)
(* dependence graph and the lock of the list of races, while another       *)
(* thread creates tasks and declares their dependences; from               *)
(* omptInitialize to the report of omptFinalize.                           *)
(*                                                                         *)
(* A lock is what FifoLock says: the queue of those that asked for it, the *)
(* first of whom holds it.  The tasks are explicit siblings: only the      *)
(* dependence graph orders them.                                           *)
(***************************************************************************)
EXTENDS Integers, Sequences, FiniteSets

CONSTANTS Threads,
          Producer,    \* the thread that creates the tasks
          Tasks,       \* 1..n, in the order of their creation
          DependsOn,   \* <<p, q>>: task q depends on task p
          Bytes,       \* an interval of addresses
          Setups,      \* the executions there are: records with
                       \* - modes, the settings of ROMP_REPORT_LINE and ROMP_REPORT,
                       \* - answers, what the runtime's queries for a task or region return,
                       \* - threadData, the threads that have a ThreadData,
                       \* - maxAccesses, a bound: so many accesses are made
          None

ASSUME ProgramAssumption ==
  /\ Producer \in Threads
  /\ Tasks \subseteq Nat
  /\ Bytes \subseteq Nat /\ IsFiniteSet(Bytes) /\ \A b, c \in Bytes : b..c \subseteq Bytes
  /\ DependsOn \subseteq {e \in Tasks \X Tasks : e[1] < e[2]}
  /\ \A s \in Setups : /\ s.answers \subseteq 0..2 /\ s.threadData \subseteq Threads
                       /\ s.modes \subseteq {"silent", "line", "runtime"}
  /\ None \notin Nat \cup {"silent", "line", "runtime"}

\* The locks: one for each byte, named by its address, and two others
Region == -1  \* ParRegionData.lock
List == -2    \* gDataRaceLock
LockNames == Bytes \cup {Region, List}

VARIABLES setup,    \* the execution this is, which no step changes
          mode,     \* gReportLineInfo and gReportAtRuntime; None until gOmptInitialized
          task,     \* the task a thread runs
          state,    \* of a task
          made,     \* how many accesses were made
          edges,    \* the dependence graph of the region
          queue,    \* of each lock
          pc, byte, last, write, it, skipAddCur, size, \* locals of a thread
          dup,      \* what the duplicate filter of a thread knows under the current labelId
          records, raceFlag,  \* the access history of each byte
          found, num, list,   \* gDataRaceFound, gNumDataRace, gDataRaceRecords
          output,   \* the lines written at run time or at the end
          printed,  \* the number of races omptFinalize prints
          performed \* the accesses that were to be checked so far, by byte (history variable)

program == <<setup, task, state, made>>
locals == <<byte, last, write, it, skipAddCur, size>>
races == <<found, num, list, output, printed>>
vars == <<mode, program, edges, queue, pc, locals, dup, records, raceFlag, races, performed>>

Answers == setup.answers

Init == /\ setup \in Setups
        /\ mode = None
        /\ task = [t \in Threads |-> None]
        /\ state = [k \in Tasks |-> "new"]
        /\ made = 0
        /\ edges = {}
        /\ queue = [l \in LockNames |-> <<>>]
        /\ pc = [t \in Threads |-> "idle"]
        /\ byte = [t \in Threads |-> 0]
        /\ last = [t \in Threads |-> 0]
        /\ write = [t \in Threads |-> FALSE]
        /\ it = [t \in Threads |-> 0]
        /\ skipAddCur = [t \in Threads |-> FALSE]
        /\ size = [t \in Threads |-> 0]
        /\ dup = [t \in Threads |-> {}]
        /\ records = [b \in Bytes |-> <<>>]
        /\ raceFlag = [b \in Bytes |-> FALSE]
        /\ found = FALSE
        /\ num = 0
        /\ list = <<>>
        /\ output = <<>>
        /\ printed = None
        /\ performed = [b \in Bytes |-> {}]

\* McsNode and LockGuard: the constructor joins the queue, the destructor leaves it.
Join(t, l) == queue' = [queue EXCEPT ![l] = Append(@, t)]
Holds(t, l) == queue[l] # <<>> /\ Head(queue[l]) = t
Leave(t, l) == queue' = [queue EXCEPT ![l] = Tail(@)]

Goto(t, where) == pc' = [pc EXCEPT ![t] = where]

\* QueryFuncs.cpp
infoIsAvailable(retVal) == retVal = 2

-----------------------------------------------------------------------------
(* The program and its callbacks *)

\* The environment variables are read, and gOmptInitialized is set last.
omptInitialize == /\ mode = None
                  /\ mode' \in setup.modes
                  /\ UNCHANGED <<program, edges, queue, pc, locals, dup, records, raceFlag, races,
                                 performed>>

\* on_ompt_callback_task_create: tasks are created one after the other.
CreateTask(k) ==
  /\ mode # None
  /\ pc[Producer] = "idle"
  /\ state[k] = "new"
  /\ \A j \in Tasks : j < k => state[j] \notin {"new", "created"}
  /\ state' = [state EXCEPT ![k] = "created"]
  /\ UNCHANGED <<setup, mode, task, made, edges, queue, pc, locals, dup, records, raceFlag, races, performed>>

\* on_ompt_callback_dependences: without the region's data nothing is done.
Dependences(k) ==
  /\ pc[Producer] = "idle"
  /\ state[k] = "created"
  /\ \E retVal \in Answers :
       IF infoIsAvailable(retVal)
       THEN Join(Producer, Region) /\ Goto(Producer, "declare") /\ UNCHANGED state
       ELSE state' = [state EXCEPT ![k] = "ready"] /\ UNCHANGED <<queue, pc>>
  /\ UNCHANGED <<setup, mode, task, made, edges, locals, dup, records, raceFlag, races, performed>>

\* Mutated form of AddDeps: the edges of earlier tasks are lost.
AddDepsOver(k) ==
  /\ pc[Producer] = "declare"
  /\ Holds(Producer, Region)
  /\ state[k] = "created"
  /\ edges' = {e \in DependsOn : e[2] = k}
  /\ Leave(Producer, Region)
  /\ Goto(Producer, "idle")
  /\ state' = [state EXCEPT ![k] = "ready"]
  /\ UNCHANGED <<setup, mode, task, made, locals, dup, records, raceFlag, races, performed>>

\* maintainTaskDeps, under the region's lock; then the task may be scheduled.
AddDeps(k) ==
  /\ pc[Producer] = "declare"
  /\ Holds(Producer, Region)
  /\ state[k] = "created"
  /\ edges' = edges \cup {e \in DependsOn : e[2] = k}
  /\ Leave(Producer, Region)
  /\ Goto(Producer, "idle")
  /\ state' = [state EXCEPT ![k] = "ready"]
  /\ UNCHANGED <<setup, mode, task, made, locals, dup, records, raceFlag, races, performed>>

\* The runtime starts a task when those it depends on have ended.
\* on_ompt_callback_task_schedule counts labelId up.
StartTask(t, k) ==
  /\ pc[t] = "idle"
  /\ state[k] = "ready"
  /\ \A e \in DependsOn : e[2] = k => state[e[1]] = "done"
  /\ state' = [state EXCEPT ![k] = "running"]
  /\ task' = [task EXCEPT ![t] = k]
  /\ dup' = [dup EXCEPT ![t] = {}]
  /\ Goto(t, "running")
  /\ UNCHANGED <<setup, mode, made, edges, queue, locals, records, raceFlag, races, performed>>

EndTask(t) ==
  /\ pc[t] = "running"
  /\ state' = [state EXCEPT ![task[t]] = "done"]
  /\ task' = [task EXCEPT ![t] = None]
  /\ Goto(t, "idle")
  /\ UNCHANGED <<setup, mode, made, edges, queue, locals, dup, records, raceFlag, races, performed>>

\* omptFinalize: the threads are idle, the races are counted and listed.
omptFinalize ==
  /\ printed = None
  /\ \A k \in Tasks : state[k] = "done"
  /\ \A t \in Threads : pc[t] = "idle"
  /\ printed' = IF found THEN num ELSE 0
  /\ output' = IF found /\ mode = "line" THEN output \o list ELSE output
  /\ UNCHANGED <<mode, program, edges, queue, pc, locals, dup, records, raceFlag, found, num, list,
                 performed>>

-----------------------------------------------------------------------------
(* checkAccess *)

\* prepareAllInfo: the access is not checked unless both queries succeed; the data of
\* an explicit task is there since it was created (Callbacks.cpp, line 502), so that
\* the pointer to it is not null.  The first byte's slot is found, and its lock asked for.
checkAccess(t, first, end, w) ==
  /\ pc[t] = "running"
  /\ made < setup.maxAccesses
  /\ made' = made + 1
  /\ \E parallel, info \in Answers :
       IF infoIsAvailable(parallel) /\ infoIsAvailable(info)
       THEN /\ performed' = [b \in Bytes |-> IF b \in first..end
                                              THEN performed[b] \cup {[task |-> task[t], write |-> w]}
                                              ELSE performed[b]]
            /\ byte' = [byte EXCEPT ![t] = first]
            /\ last' = [last EXCEPT ![t] = end]
            /\ write' = [write EXCEPT ![t] = w]
            /\ Join(t, first)
            /\ Goto(t, "slot")
       ELSE UNCHANGED <<byte, last, write, queue, pc, performed>>
  /\ UNCHANGED <<setup, mode, task, state, edges, it, skipAddCur, size, dup, records, raceFlag, races>>

\* The end of checkDataRace: the lock of the byte is given up.
Return(t) == Leave(t, byte[t]) /\ Goto(t, "next")

\* Mutated form of NextByte: the last byte is not checked.
NextByteBut(t) ==
  /\ pc[t] = "next"
  /\ IF byte[t] + 1 < last[t]
     THEN /\ byte' = [byte EXCEPT ![t] = @ + 1]
          /\ Join(t, byte[t] + 1)
          /\ Goto(t, "slot")
          /\ UNCHANGED <<last, write>>
     ELSE /\ byte' = [byte EXCEPT ![t] = 0]
          /\ last' = [last EXCEPT ![t] = 0]
          /\ write' = [write EXCEPT ![t] = FALSE]
          /\ Goto(t, "running")
          /\ UNCHANGED queue
  /\ UNCHANGED <<mode, program, edges, it, skipAddCur, size, dup, records, raceFlag, races, performed>>

NextByte(t) ==
  /\ pc[t] = "next"
  /\ IF byte[t] < last[t]
     THEN /\ byte' = [byte EXCEPT ![t] = @ + 1]
          /\ Join(t, byte[t] + 1)
          /\ Goto(t, "slot")
          /\ UNCHANGED <<last, write>>
     ELSE /\ byte' = [byte EXCEPT ![t] = 0]
          /\ last' = [last EXCEPT ![t] = 0]
          /\ write' = [write EXCEPT ![t] = FALSE]
          /\ Goto(t, "running")
          /\ UNCHANGED queue
  /\ UNCHANGED <<mode, program, edges, it, skipAddCur, size, dup, records, raceFlag, races, performed>>

Current(t) == [task |-> task[t], write |-> write[t]]

\* The head of checkDataRace: a race already found, a duplicate, the first
\* access; otherwise the loop over the records begins.  A thread without data has
\* no duplicate tables: isDupMemAccess finds and notes nothing.
EnterSlot(t) ==
  LET b == byte[t]
      isDup == <<b, write[t]>> \in dup[t]
  IN  /\ pc[t] = "slot"
      /\ Holds(t, b)
      /\ dup' = IF raceFlag[b] \/ t \notin setup.threadData THEN dup
                ELSE [dup EXCEPT ![t] = @ \cup {<<b, write[t]>>}]
      /\ \/ /\ raceFlag[b]
            /\ records' = [records EXCEPT ![b] = <<>>]
            /\ Return(t)
            /\ UNCHANGED it
         \/ /\ ~raceFlag[b] /\ isDup
            /\ Return(t)
            /\ UNCHANGED <<records, it>>
         \/ /\ ~raceFlag[b] /\ ~isDup /\ records[b] = <<>>
            /\ records' = [records EXCEPT ![b] = <<Current(t)>>]
            /\ Return(t)
            /\ UNCHANGED it
         \/ /\ ~raceFlag[b] /\ ~isDup /\ records[b] # <<>>
            /\ it' = [it EXCEPT ![t] = 1]
            /\ Goto(t, "loop")
            /\ UNCHANGED <<records, queue>>
      /\ UNCHANGED <<mode, program, edges, byte, last, write, skipAddCur, size, raceFlag, races,
                     performed>>

Record(t) == records[byte[t]][it[t]]
AtRecord(t) == pc[t] = "loop" /\ it[t] <= Len(records[byte[t]])

\* manageAccessRecord and modifyAccessHistory; no task holds a lock.
Manage(t, histBefore) ==
  LET hist == Record(t)
      b == byte[t]
  IN  IF (hist.write => write[t]) /\ histBefore
      THEN /\ records' = [records EXCEPT ![b] = SubSeq(@, 1, it[t] - 1)
                                                  \o SubSeq(@, it[t] + 1, Len(@))]
           /\ UNCHANGED <<it, skipAddCur>>
      ELSE /\ it' = [it EXCEPT ![t] = @ + 1]
           /\ skipAddCur' = [skipAddCur EXCEPT ![t] = @ \/ hist.task = task[t]]
           /\ UNCHANGED records

\* analyzeRaceCondition: labels order accesses of one task.
SameTask(t) ==
  /\ AtRecord(t)
  /\ Record(t).task = task[t]
  /\ Manage(t, TRUE)
  /\ UNCHANGED <<mode, program, edges, queue, pc, byte, last, write, size, dup, raceFlag, races,
                 performed>>

\* Two explicit tasks: the region's lock is asked for.  If the region cannot
\* be had, the tasks count as unordered.
AskRegion(t) ==
  /\ AtRecord(t)
  /\ Record(t).task # task[t]
  /\ \E retVal \in Answers :
       \/ /\ infoIsAvailable(retVal)
          /\ Join(t, Region)
          /\ Goto(t, "search")
          /\ UNCHANGED <<records, it, skipAddCur>>
       \/ /\ ~infoIsAvailable(retVal) /\ (Record(t).write \/ write[t])
          /\ Goto(t, "race")
          /\ UNCHANGED <<queue, records, it, skipAddCur>>
       \/ /\ ~infoIsAvailable(retVal) /\ ~(Record(t).write \/ write[t])
          /\ Manage(t, FALSE)
          /\ UNCHANGED <<queue, pc>>
  /\ UNCHANGED <<mode, program, edges, byte, last, write, size, dup, raceFlag, races, performed>>

\* Every set of tasks that has p and that no edge leaves has q.
PathIn(graph, p, q) ==
  \A S \in SUBSET Tasks : p \in S /\ (\A e \in graph : e[1] \in S => e[2] \in S) => q \in S

hasPath(p, q) == PathIn(edges, p, q)

\* Mutated form of SearchPath: an early return, without the guard's destructor
SearchAndKeep(t) ==
  LET ordered == hasPath(Record(t).task, task[t])
      race == ~ordered /\ (Record(t).write \/ write[t])
  IN  /\ pc[t] = "search"
      /\ Holds(t, Region)
      /\ IF race
         THEN Goto(t, "race") /\ UNCHANGED <<queue, records, it, skipAddCur>>
         ELSE Leave(t, Region) /\ Goto(t, "loop") /\ Manage(t, ordered)
      /\ UNCHANGED <<mode, program, edges, byte, last, write, size, dup, raceFlag, races, performed>>

\* The search in the graph, under the region's lock, and the verdict
SearchPath(t) ==
  LET ordered == hasPath(Record(t).task, task[t])
      race == ~ordered /\ (Record(t).write \/ write[t])
  IN  /\ pc[t] = "search"
      /\ Holds(t, Region)
      /\ Leave(t, Region)
      /\ IF race
         THEN Goto(t, "race") /\ UNCHANGED <<records, it, skipAddCur>>
         ELSE Goto(t, "loop") /\ Manage(t, ordered)
      /\ UNCHANGED <<mode, program, edges, byte, last, write, size, dup, raceFlag, races, performed>>

Report(t) == [prev |-> Record(t).task, cur |-> task[t], byte |-> byte[t]]

CountRace(t) ==
  /\ pc[t] = "race"
  /\ found' = TRUE
  /\ num' = num + 1
  /\ \/ /\ mode = "line"
        /\ Join(t, List)
        /\ Goto(t, "list")
        /\ UNCHANGED output
     \/ /\ mode = "runtime"
        /\ output' = Append(output, Report(t))
        /\ Goto(t, "flag")
        /\ UNCHANGED queue
     \/ /\ mode = "silent"
        /\ Goto(t, "flag")
        /\ UNCHANGED <<queue, output>>
  /\ UNCHANGED <<mode, program, edges, locals, dup, records, raceFlag, list, printed, performed>>

\* Mutated form of ListSize: gDataRaceLock is taken for the writing only.
ListSizeUnlocked(t) ==
  /\ pc[t] = "list"
  /\ size' = [size EXCEPT ![t] = Len(list)]
  /\ Goto(t, "push")
  /\ UNCHANGED <<mode, program, edges, queue, byte, last, write, it, skipAddCur, dup, records,
                 raceFlag, races, performed>>

\* gDataRaceRecords.push_back reads the size of the vector, then writes the
\* element and the new size.
ListSize(t) ==
  /\ pc[t] = "list"
  /\ Holds(t, List)
  /\ size' = [size EXCEPT ![t] = Len(list)]
  /\ Goto(t, "push")
  /\ UNCHANGED <<mode, program, edges, queue, byte, last, write, it, skipAddCur, dup, records,
                 raceFlag, races, performed>>

PushRace(t) ==
  /\ pc[t] = "push"
  /\ Holds(t, List)
  /\ list' = Append(SubSeq(list, 1, size[t]), Report(t))
  /\ size' = [size EXCEPT ![t] = 0]
  /\ Leave(t, List)
  /\ Goto(t, "flag")
  /\ UNCHANGED <<mode, program, edges, byte, last, write, it, skipAddCur, dup, records, raceFlag,
                 found, num, output, printed, performed>>

\* The end of the loop: the current access is added, unless it is to be skipped.
AddCurrent(t) == /\ records' = IF skipAddCur[t] THEN records
                               ELSE [records EXCEPT ![byte[t]] = Append(@, Current(t))]
                 /\ it' = [it EXCEPT ![t] = 0]
                 /\ skipAddCur' = [skipAddCur EXCEPT ![t] = FALSE]
                 /\ Return(t)

SetFlag(t) ==
  /\ pc[t] = "flag"
  /\ raceFlag' = [raceFlag EXCEPT ![byte[t]] = TRUE]
  /\ AddCurrent(t)
  /\ UNCHANGED <<mode, program, edges, byte, last, write, size, dup, races, performed>>

EndLoop(t) ==
  /\ pc[t] = "loop"
  /\ it[t] > Len(records[byte[t]])
  /\ AddCurrent(t)
  /\ UNCHANGED <<mode, program, edges, byte, last, write, size, dup, raceFlag, races, performed>>

-----------------------------------------------------------------------------

\* The steps of a thread inside checkAccess or the dependences callback
Proceed(t) == \/ NextByte(t) \/ EnterSlot(t) \/ SameTask(t) \/ AskRegion(t) \/ SearchPath(t)
              \/ CountRace(t) \/ ListSize(t) \/ PushRace(t) \/ SetFlag(t) \/ EndLoop(t)
              \/ t = Producer /\ \E k \in Tasks : AddDeps(k)

Next == \/ omptInitialize
        \/ \E k \in Tasks : CreateTask(k) \/ Dependences(k)
        \/ \E t \in Threads :
             \/ \E k \in Tasks : StartTask(t, k)
             \/ \E first, end \in Bytes, w \in BOOLEAN : first <= end /\ checkAccess(t, first, end, w)
             \/ EndTask(t)
             \/ Proceed(t)
        \/ omptFinalize

Spec == Init /\ [][Next]_vars

FairSpec == Spec /\ \A t \in Threads : WF_vars(Proceed(t))

-----------------------------------------------------------------------------
(* Properties *)

\* Every variable has its type, and nobody waits twice.
TypeOK == /\ setup \in Setups
          /\ mode \in setup.modes \cup {None}
          /\ task \in [Threads -> Tasks \cup {None}]
          /\ state \in [Tasks -> {"new", "created", "ready", "running", "done"}]
          /\ edges \subseteq DependsOn
          /\ \A l \in LockNames : /\ queue[l] \in Seq(Threads)
                                  /\ \A i, j \in DOMAIN queue[l] : queue[l][i] = queue[l][j] => i = j
          /\ \A t \in Threads : /\ pc[t] \in {"loop", "search", "race", "list", "push", "flag"}
                                     => Holds(t, byte[t])
                                /\ pc[t] \in {"search", "race"} => it[t] \in 1..Len(records[byte[t]])
          /\ \A b \in Bytes : records[b] \in Seq([task : Tasks, write : BOOLEAN])
          /\ num \in Nat /\ found \in BOOLEAN

Inside(t) == pc[t] \notin {"idle", "running"}

Race(p, q) == /\ p.task # q.task
              /\ ~PathIn(DependsOn, p.task, q.task) /\ ~PathIn(DependsOn, q.task, p.task)
              /\ p.write \/ q.write

\* Every byte that unordered tasks access, one of them writing, is marked when
\* their checks are over, whatever the threads did on its neighbours meanwhile.
RacesFound ==
  (\A t \in Threads : ~Inside(t))
    => \A b \in Bytes : (\E p, q \in performed[b] : Race(p, q)) => raceFlag[b]

\* Tasks that depend on one another are never taken for a race: the edges are in
\* the graph before the later task runs, although others use the graph meanwhile.
\* Where queries fail the edges, or the look at them, may be missing.
DependentTasksSilent ==
  Answers = {2} => \A t \in Threads : pc[t] = "race" => Race(Record(t), Current(t))

Flagged == {b \in Bytes : raceFlag[b]}

\* omptFinalize prints the number of bytes with a race; with ROMP_REPORT_LINE or
\* ROMP_REPORT each of them has its line, and only one ("romp only reports one
\* data race on any memory location in one run", RompLib.cpp, line 42), although
\* the counter, the mark and the list are changed at different moments.
ReportAccounts ==
  printed # None =>
    /\ printed = Cardinality(Flagged)
    /\ mode # "silent" => /\ Len(output) = Cardinality(Flagged)
                          /\ {output[i].byte : i \in DOMAIN output} = Flagged

\* A thread that enters checkAccess or the dependences callback comes out again:
\* the locks that are taken while others are held are never waited for in a circle.
EveryCallReturns == \A t \in Threads : Inside(t) ~> ~Inside(t)
=============================================================================
