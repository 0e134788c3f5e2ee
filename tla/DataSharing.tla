---------------------------- MODULE DataSharing ----------------------------
(***************************************************************************)
(* Where the memory of a task lies and what is made of it: the stacks of   *)
(* the threads with the frames of nested tasks, the private memory of a    *)
(* task on the heap, analyzeDataSharing, which decides from an address     *)
(* whether an access is checked, and the recycling of a task's memory when *)
(* it ends or is switched out (DataSharing.cpp).                           *)
(*                                                                         *)
(* An address is a number.  A frame of a task on a stack has two words:    *)
(* the exit frame, which is the runtime's, and below it one local variable.*)
(* The order of accesses is the real one of the program: how well labels   *)
(* tell it is Tasking's subject, and how a history is pruned is that of    *)
(* AccessHistory.                                                          *)
(***************************************************************************)
EXTENDS Integers, Sequences, FiniteSets

CONSTANTS ThreadCount, Levels,  \* stacks, and how many frames fit on one
          TaskCount,            \* explicit tasks
          BlockCount,           \* blocks of the heap, for the private memory of tasks
          Setups                \* the executions there are: records with
                                \* - untied, the explicit tasks that may move to another thread,
                                \* - threadData, the threads that the runtime gives a ThreadData,
                                \* - stackInfo, what queryThreadStackInfo may answer,
                                \* - frames, whether the runtime has set the exit frame: booleans,
                                \* - levels, blocks: those of the above that are used,
                                \* - maxAccesses, a bound: so many accesses are made

ASSUME SizeAssumption ==
  /\ ThreadCount \in Nat \ {0} /\ Levels \in Nat \ {0}
  /\ TaskCount \in Nat /\ BlockCount \in Nat
  /\ \A s \in Setups : /\ s.untied \subseteq 1..TaskCount /\ s.threadData \subseteq 1..ThreadCount
                       /\ s.stackInfo \subseteq BOOLEAN /\ s.frames \subseteq BOOLEAN
                       /\ s.levels \in 1..Levels /\ s.blocks \in 0..BlockCount

Threads == 1..ThreadCount
Explicit == 1..TaskCount
Implicit(t) == -t
Tasks == Explicit \cup {Implicit(t) : t \in Threads}
Nil == 0  \* a null pointer, and no task

\* The heap lies below the stacks, which grow downwards.
Blocks == 1..BlockCount
Base(t) == BlockCount + 1 + (t - 1) * (2 * Levels + 1)
Top(t) == Base(t) + 2 * Levels
ExitFrame(t, level) == Top(t) - 2 * level + 1
Local(t, level) == Top(t) - 2 * level
StaticLowerBound == Top(ThreadCount) + 1  \* STATIC_THREAD_PRIVATE_LOWER_BOUND
Addresses == 1..StaticLowerBound - 1

VARIABLES setup,      \* the execution this is, which no step changes
          stackBaseAddr, stackTopAddr,  \* of the ThreadData of each thread
          stack,      \* the tasks with a frame on the stack of a thread, the outermost first
          status, parent, block,  \* of a task; block: its private memory
          exitFrame,  \* of its TaskData
          past,       \* the accesses that come before what the task does next
          made,       \* all accesses, in the order they were made
          races,      \* the pairs of accesses that race (history variable)
          history, raceFlag, recycled,  \* the history of each address in the shared table
          freed       \* what the last step recycled, for which task on which thread
                      \* (history variable)

program == <<stack, status, parent, block>>
detector == <<history, raceFlag, recycled>>
vars == <<setup, stackBaseAddr, stackTopAddr, program, exitFrame, past, made, races, detector, freed>>

Nothing == [why |-> "none", task |-> Nil, thread |-> Nil, words |-> {}]

Untied == setup.untied

Init == /\ setup \in Setups
        /\ stackBaseAddr = [t \in Threads |-> Nil]
        /\ stackTopAddr = [t \in Threads |-> Nil]
        /\ stack = [t \in Threads |-> <<>>]
        /\ status = [k \in Tasks |-> "new"]
        /\ parent = [k \in Tasks |-> Nil]
        /\ block = [k \in Tasks |-> Nil]
        /\ exitFrame = [k \in Tasks |-> Nil]
        /\ past = [k \in Tasks |-> {}]
        /\ made = <<>>
        /\ races = {}
        /\ history = [a \in Addresses |-> {}]
        /\ raceFlag = [a \in Addresses |-> FALSE]
        /\ recycled = {}
        /\ freed = Nothing

Current(t) == stack[t][Len(stack[t])]
Running(t) == stack[t] # <<>>
FramesOf(k) == {f \in Threads \X (1..Levels) : f[2] <= Len(stack[f[1]]) /\ stack[f[1]][f[2]] = k}

\* A task and those it descends from: the tasks in every set that holds the task
\* and, of each of its members, the parent.
Ancestors(k) ==
  {o \in Tasks : \A S \in SUBSET Tasks : k \in S /\ (\A j \in S : parent[j] \in S \cup {Nil}) => o \in S}

-----------------------------------------------------------------------------
(* Data sharing of one access                                               *)

\* The bounds of a thread without a ThreadData are never set: it gets the answer
\* eUndefined that a thread with null bounds gets.
\* Mutated form of analyzeDataSharing: the stack is private as a whole.
analyzeWholeStack(t, address, frame) ==
  CASE frame = Nil \/ stackTopAddr[t] = Nil \/ stackBaseAddr[t] = Nil -> "eUndefined"
    [] OTHER -> IF address >= StaticLowerBound THEN "eStaticThreadPrivate"
                ELSE IF address < stackBaseAddr[t] \/ address > stackTopAddr[t]
                     THEN "eNonThreadPrivate"
                ELSE "eThreadPrivateBelowExit"

analyzeDataSharing(t, address, frame) ==
  CASE frame = Nil \/ stackTopAddr[t] = Nil \/ stackBaseAddr[t] = Nil -> "eUndefined"
    [] OTHER -> IF address >= StaticLowerBound THEN "eStaticThreadPrivate"
                ELSE IF address < stackBaseAddr[t] \/ address > stackTopAddr[t]
                     THEN "eNonThreadPrivate"
                ELSE IF address < frame THEN "eThreadPrivateBelowExit"
                ELSE "eThreadPrivateAboveExit"

Skipped(type) == type \in {"eThreadPrivateBelowExit", "eStaticThreadPrivate"}

\* The variables a task can name: its own, and those of the tasks it descends
\* from while they live.  A local of an untied task is for its present part only.
LocalsOf(k) == {Local(f[1], f[2]) : f \in FramesOf(k)}
OwnedBy(o, k) == ({block[o]} \ {Nil}) \cup (IF o = k \/ o \notin Untied THEN LocalsOf(o) ELSE {})
Variables(k) == UNION {[addr : OwnedBy(o, k), owner : {o}] : o \in Ancestors(k)}

Conflict(a, b) == a.addr = b.addr /\ (a.write \/ b.write)

\* checkDataRace for access n: a location with a race, or with the mark of
\* recycled memory, only loses its records; otherwise the access is compared.
CheckDataRace(n, a, unordered) ==
  LET reset == raceFlag[a] \/ a \in recycled
  IN  /\ history' = [history EXCEPT ![a] = IF reset THEN {} ELSE @ \cup {n}]
      /\ raceFlag' = [raceFlag EXCEPT ![a] = @ \/ (~reset /\ history[a] \cap unordered # {})]
      /\ recycled' = IF raceFlag[a] THEN recycled ELSE recycled \ {a}

\* checkAccess, for a task that the runtime knows
checkAccess(t, write) ==
  LET k == Current(t)
      n == Len(made) + 1
  IN  /\ Running(t)
      /\ Len(made) < setup.maxAccesses
      /\ \E v \in Variables(k), set \in setup.frames :
           LET frame == IF set THEN ExitFrame(t, Len(stack[t])) ELSE Nil
               type == analyzeDataSharing(t, v.addr, frame)
               access == [task |-> k, addr |-> v.addr, owner |-> v.owner, write |-> write,
                          type |-> type]
               unordered == {i \in DOMAIN made : i \notin past[k] /\ Conflict(made[i], access)}
           IN  /\ made' = Append(made, access)
               /\ past' = [past EXCEPT ![k] = @ \cup {n}]
               /\ races' = races \cup {<<i, n>> : i \in {j \in unordered : made[j].owner = v.owner}}
               /\ exitFrame' = [exitFrame EXCEPT ![k] = frame]
               /\ IF Skipped(type) THEN UNCHANGED detector ELSE CheckDataRace(n, v.addr, unordered)
  /\ freed' = Nothing
  /\ UNCHANGED <<setup, stackBaseAddr, stackTopAddr, program>>

-----------------------------------------------------------------------------
(* Recycling                                                                *)

\* Mutated form of recycleMemRange: the marks are set in the shared table.
recycleInShared(words) == recycled' = recycled \cup (words \cap Addresses)

\* The marks are set in a table of the function's own (ShadowMemory), which is
\* gone when it returns.
recycleMemRange(words) == recycled' = recycled

\* Mutated form of StackMemory: the frames of the whole thread
StackMemoryOfThread(t, k) == stackBaseAddr[t]..stackTopAddr[t]

\* recycleTaskThreadStackMemory: from the base of the stack to the exit frame
\* of the last access of the task.  Empty if the bounds are the wrong way round.
StackMemory(t, k) == stackBaseAddr[t]..exitFrame[k]

\* recycleTaskPrivateMemory, if the runtime knows the memory of the task
PrivateMemory(k) == {block[k]} \ {Nil}

\* on_ompt_callback_task_schedule for a prior task that ends or is switched out.
\* On a thread without a ThreadData it ends the process.
Recycle(t, k, why) ==
  /\ t \in setup.threadData
  /\ \E private \in {{}, PrivateMemory(k)} :
       /\ recycleMemRange(StackMemory(t, k) \cup private)
       /\ freed' = [why |-> why, task |-> k, thread |-> t, words |-> StackMemory(t, k) \cup private]

-----------------------------------------------------------------------------
(* Threads and tasks                                                        *)

\* on_ompt_callback_thread_begin, and the implicit task of the thread: the bounds
\* stay null if there is no ThreadData or the stack cannot be queried.
ThreadBegin(t) ==
  /\ stack[t] = <<>>
  /\ \E info \in setup.stackInfo :
       LET known == info /\ t \in setup.threadData
       IN  /\ stackBaseAddr' = [stackBaseAddr EXCEPT ![t] = IF known THEN Base(t) ELSE Nil]
           /\ stackTopAddr' = [stackTopAddr EXCEPT ![t] = IF known THEN Top(t) ELSE Nil]
  /\ stack' = [stack EXCEPT ![t] = <<Implicit(t)>>]
  /\ status' = [status EXCEPT ![Implicit(t)] = "running"]
  /\ freed' = Nothing
  /\ UNCHANGED <<setup, parent, block, exitFrame, past, made, races, detector>>

\* A new task gets the first free number and memory for its private data.
TaskCreate(t, k) ==
  /\ Running(t)
  /\ status[k] = "new" /\ \A j \in Explicit : j < k => status[j] # "new"
  /\ \E b \in 1..setup.blocks \ {block[j] : j \in Tasks} : block' = [block EXCEPT ![k] = b]
  /\ status' = [status EXCEPT ![k] = "ready"]
  /\ parent' = [parent EXCEPT ![k] = Current(t)]
  /\ past' = [past EXCEPT ![k] = past[Current(t)]]
  /\ freed' = Nothing
  /\ UNCHANGED <<setup, stackBaseAddr, stackTopAddr, stack, exitFrame, made, races, detector>>

\* A thread starts or resumes a task on top of the one it runs, which is
\* switched out: a new task must descend from those that wait on this thread.
TaskStart(t, k) ==
  /\ Running(t) /\ Len(stack[t]) < setup.levels
  /\ status[k] \in {"ready", "waiting"}
  /\ \A i \in DOMAIN stack[t] : stack[t][i] \in Explicit \ Untied => stack[t][i] \in Ancestors(k)
  /\ Recycle(t, Current(t), "switch")
  /\ stack' = [stack EXCEPT ![t] = Append(@, k)]
  /\ status' = [status EXCEPT ![k] = "running"]
  /\ UNCHANGED <<setup, stackBaseAddr, stackTopAddr, parent, block, exitFrame, past, made, races,
                 history, raceFlag>>

\* The frame of a task leaves the stack.
Leave(t, k, now) ==
  /\ Running(t) /\ Current(t) = k
  /\ stack' = [stack EXCEPT ![t] = SubSeq(@, 1, Len(@) - 1)]
  /\ status' = [status EXCEPT ![k] = now]

TaskComplete(t, k) ==
  /\ Leave(t, k, "done")
  /\ Recycle(t, k, "complete")
  /\ block' = [block EXCEPT ![k] = Nil]
  /\ UNCHANGED <<setup, stackBaseAddr, stackTopAddr, parent, exitFrame, past, made, races, history,
                 raceFlag>>

\* A part of an untied task is over; any thread may go on with it.
TaskSwitchOut(t, k) ==
  /\ k \in Untied
  /\ Leave(t, k, "waiting")
  /\ Recycle(t, k, "left")
  /\ UNCHANGED <<setup, stackBaseAddr, stackTopAddr, parent, block, exitFrame, past, made, races,
                 history, raceFlag>>

TaskWait(t) ==
  LET children == {k \in Explicit : parent[k] = Current(t)}
  IN  /\ Running(t)
      /\ children # {} /\ \A k \in children : status[k] = "done"
      /\ past' = [past EXCEPT ![Current(t)] = @ \cup UNION {past[k] : k \in children}]
      /\ freed' = Nothing
      /\ UNCHANGED <<setup, stackBaseAddr, stackTopAddr, program, exitFrame, made, races, detector>>

Next == \E t \in Threads :
          \/ ThreadBegin(t)
          \/ \E k \in Explicit : \/ TaskCreate(t, k) \/ TaskStart(t, k)
                                 \/ TaskComplete(t, k) \/ TaskSwitchOut(t, k)
          \/ TaskWait(t)
          \/ \E write \in BOOLEAN : checkAccess(t, write)

Spec == Init /\ [][Next]_vars

-----------------------------------------------------------------------------
(* Properties                                                               *)

\* Every variable has its type; a task has at most one frame, a running one exactly one.
TypeOK == /\ setup \in Setups
          /\ \A t \in Threads : /\ {stackBaseAddr[t], stackTopAddr[t]} \subseteq Addresses \cup {Nil}
                                /\ stackBaseAddr[t] <= stackTopAddr[t]
          /\ \A t \in Threads : Len(stack[t]) <= Levels /\ stack[t] \in Seq(Tasks)
          /\ \A k \in Tasks : Cardinality(FramesOf(k)) = IF status[k] = "running" THEN 1 ELSE 0
          /\ status \in [Tasks -> {"new", "ready", "running", "waiting", "done"}]
          /\ parent \in [Tasks -> Tasks \cup {Nil}]
          /\ block \in [Tasks -> Blocks \cup {Nil}]
          /\ exitFrame \in [Tasks -> Addresses \cup {Nil}]
          /\ \A k \in Tasks : past[k] \subseteq DOMAIN made
          /\ history \in [Addresses -> SUBSET DOMAIN made]
          /\ raceFlag \in [Addresses -> BOOLEAN]
          /\ recycled \subseteq Addresses

\* An access that is not checked is one of a task to a variable of its own: a
\* variable of a task that waits further up the same stack is not taken for it.
SkippedIsPrivate == \A i \in DOMAIN made : Skipped(made[i].type) => made[i].owner = made[i].task

\* Neither access of a race is made by the task on whose stack the variable is.
OfStrangers(r) == \A i \in {r[1], r[2]} : made[i].addr \in Blocks \/ made[i].task # made[i].owner

\* Two tasks that race on a third one's variable, or on one in private memory, are
\* found, although the memory is recycled again and again while tasks are switched.
StrangersRacesFound == \A r \in races : OfStrangers(r) => raceFlag[made[r[1]].addr]

\* Every race on a variable is found, also if one of the two accesses is made by
\* the task on whose stack the variable is (DRB106-taskwaitmissing-orig-yes.c,
\* line 49: "Data races pairs: i@61:5 vs i@65:12", where i is a local variable).
SharedLocalsChecked == \A r \in races : raceFlag[made[r[1]].addr]

AllLocals == UNION {LocalsOf(k) : k \in Tasks}
Live == AllLocals \cup ({block[k] : k \in Tasks} \ {Nil})

\* What is recycled at the end of a tied task, on a thread whose stack is known, is
\* dead: no task has a variable there.
EndedIsDead ==
  freed.why = "complete" /\ freed.task \notin Untied /\ stackBaseAddr[freed.thread] # Nil
    => freed.words \cap AllLocals = {}

\* The same of any task and thread: recycleTaskThreadStackMemory "marks these
\* locations as deallocated" when "an explicit task is completed" (DataSharing.cpp,
\* lines 86-89).
EndedIsAlwaysDead == freed.why = "complete" => freed.words \cap AllLocals = {}

\* What is recycled is dead, whatever the reason ("marks these locations as
\* deallocated", DataSharing.cpp, lines 88-89).
RecycledIsDead == freed.words \cap Live = {}

\* Only races are found: two accesses to different variables, one of which has
\* been deallocated, are none.
AlarmsAreRaces == \A a \in Addresses : raceFlag[a] => \E r \in races : made[r[1]].addr = a
=============================================================================
