-------------------------- MODULE DataSharingProofs --------------------------
(***************************************************************************)
(* What analyzeDataSharing leaves unchecked is private, whatever the       *)
(* number of threads, stacks and tasks: it follows from where frames lie   *)
(* and from the tasks on a stack having a frame each.  Every other access  *)
(* stays in its location's history until a race is found there, since the  *)
(* marks of recycled memory are never set in the shared table.             *)
(***************************************************************************)
EXTENDS DataSharing, SequenceTheorems, FiniteSetTheorems, TLAPS

-----------------------------------------------------------------------------
(* The layout of memory                                                     *)

\* The words of a stack lie between its bounds, above the heap and below the
\* static memory of threads.
LEMMA StackWords ==
  ASSUME NEW t \in Threads
  PROVE  /\ Base(t) \in Nat /\ Top(t) \in Nat /\ StaticLowerBound \in Nat
         /\ BlockCount < Base(t) /\ Base(t) <= Top(t) /\ Top(t) < StaticLowerBound
<1>1. /\ ThreadCount \in Nat \ {0} /\ Levels \in Nat \ {0} /\ BlockCount \in Nat
      /\ t \in Nat /\ 1 <= t /\ t <= ThreadCount
  BY SizeAssumption DEF Threads
<1>2. \A n \in Nat : n * (2 * Levels + 1) \in Nat
  BY <1>1
<1>3. (t - 1) * (2 * Levels + 1) \in Nat /\ (ThreadCount - 1) * (2 * Levels + 1) \in Nat
  BY <1>1, <1>2
<1>4. (t - 1) * (2 * Levels + 1) <= (ThreadCount - 1) * (2 * Levels + 1)
  <2>1. (ThreadCount - t) * (2 * Levels + 1) \in Nat
    BY <1>1, <1>2
  <2>2. (ThreadCount - 1) * (2 * Levels + 1) = (t - 1) * (2 * Levels + 1) + (ThreadCount - t) * (2 * Levels + 1)
    BY <1>1
  <2> QED
    BY <1>3, <2>1, <2>2
<1> QED
  BY <1>1, <1>3, <1>4 DEF Base, Top, StaticLowerBound

\* The stacks of two threads have no word in common.
LEMMA StacksApart ==
  ASSUME NEW t \in Threads, NEW u \in Threads, t < u
  PROVE  Top(t) < Base(u)
<1>1. /\ Levels \in Nat \ {0} /\ BlockCount \in Nat
      /\ t \in Nat /\ 1 <= t /\ u \in Nat /\ 1 <= u
  BY SizeAssumption DEF Threads
<1>2. \A n \in Nat : n * (2 * Levels + 1) \in Nat
  BY <1>1
<1>3. (t - 1) * (2 * Levels + 1) \in Nat /\ (u - t - 1) * (2 * Levels + 1) \in Nat
  BY <1>1, <1>2
<1>4. (u - 1) * (2 * Levels + 1)
        = (t - 1) * (2 * Levels + 1) + (u - t - 1) * (2 * Levels + 1) + (2 * Levels + 1)
  BY <1>1
<1> QED
  BY <1>1, <1>3, <1>4 DEF Base, Top

\* A frame's words are words of its stack, and those of inner frames lie lower.
LEMMA FrameWords ==
  ASSUME NEW t \in Threads, NEW l \in 1..Levels
  PROVE  /\ Local(t, l) \in Nat /\ ExitFrame(t, l) \in Nat
         /\ Base(t) <= Local(t, l) /\ Local(t, l) < ExitFrame(t, l) /\ ExitFrame(t, l) <= Top(t)
         /\ \A m \in 1..Levels : /\ m < l => ExitFrame(t, l) < Local(t, m)
                                 /\ l < m => Local(t, m) < ExitFrame(t, l)
<1>1. Base(t) \in Nat /\ Levels \in Nat /\ BlockCount < Base(t) /\ BlockCount \in Nat
  BY StackWords, SizeAssumption
<1>2. Top(t) = Base(t) + 2 * Levels
  BY DEF Top
<1> QED
  BY <1>1, <1>2 DEF Local, ExitFrame

\* A stack's word belongs to one thread.
LEMMA OneStack ==
  ASSUME NEW t \in Threads, NEW u \in Threads, NEW a \in Nat,
         Base(t) <= a, a <= Top(t), Base(u) <= a, a <= Top(u)
  PROVE  t = u
<1>1. t < u \/ u < t \/ t = u
  BY SizeAssumption DEF Threads
<1>2. Base(t) \in Nat /\ Top(t) \in Nat /\ Base(u) \in Nat /\ Top(u) \in Nat
  BY StackWords
<1>3. CASE t < u
  BY <1>2, <1>3, StacksApart
<1>4. CASE u < t
  BY <1>2, <1>4, StacksApart
<1> QED
  BY <1>1, <1>3, <1>4

\* Addresses are those of the heap and of the stacks.
LEMMA WordsAreAddresses ==
  /\ Blocks \subseteq Addresses
  /\ \A t \in Threads : /\ Base(t) \in Addresses /\ Top(t) \in Addresses
                        /\ \A l \in 1..Levels : Local(t, l) \in Addresses /\ ExitFrame(t, l) \in Addresses
  /\ Nil \notin Blocks
<1>1. 1 \in Threads /\ BlockCount \in Nat
  BY SizeAssumption DEF Threads
<1>2. BlockCount < StaticLowerBound /\ StaticLowerBound \in Nat
  BY <1>1, StackWords
<1>3. Blocks \subseteq Addresses /\ Nil \notin Blocks
  BY <1>1, <1>2 DEF Blocks, Addresses, Nil
<1>4. ASSUME NEW t \in Threads, NEW a \in Nat, Base(t) <= a, a <= Top(t) PROVE a \in Addresses
  BY <1>1, <1>4, StackWords DEF Addresses
<1>5. ASSUME NEW t \in Threads PROVE Base(t) \in Addresses /\ Top(t) \in Addresses
  BY <1>4, StackWords
<1>6. ASSUME NEW t \in Threads, NEW l \in 1..Levels
      PROVE  Local(t, l) \in Addresses /\ ExitFrame(t, l) \in Addresses
  <2>1. /\ Base(t) <= Local(t, l) /\ Local(t, l) <= Top(t) /\ Local(t, l) \in Nat
        /\ Base(t) <= ExitFrame(t, l) /\ ExitFrame(t, l) <= Top(t) /\ ExitFrame(t, l) \in Nat
    BY FrameWords, StackWords
  <2> QED
    BY <1>4, <2>1
<1> QED
  BY <1>3, <1>5, <1>6
-----------------------------------------------------------------------------
(* The invariant                                                            *)

DataSharingTypes == {"eUndefined", "eStaticThreadPrivate", "eNonThreadPrivate",
                     "eThreadPrivateBelowExit", "eThreadPrivateAboveExit"}
Statuses == {"new", "ready", "running", "waiting", "done"}
Access == [task : Tasks, addr : Addresses, owner : Tasks, write : BOOLEAN, type : DataSharingTypes]

\* The bounds of a thread are both known or both null, and no mark of recycled
\* memory is ever set.
Typed ==
  /\ setup \in Setups
  /\ stackBaseAddr \in [Threads -> Addresses \cup {Nil}]
  /\ stackTopAddr \in [Threads -> Addresses \cup {Nil}]
  /\ \A t \in Threads : \/ stackBaseAddr[t] = Nil /\ stackTopAddr[t] = Nil
                        \/ stackBaseAddr[t] = Base(t) /\ stackTopAddr[t] = Top(t)
  /\ stack \in [Threads -> Seq(Tasks)]
  /\ \A t \in Threads : Len(stack[t]) <= Levels
  /\ status \in [Tasks -> Statuses]
  /\ parent \in [Tasks -> Tasks \cup {Nil}]
  /\ block \in [Tasks -> Blocks \cup {Nil}]
  /\ exitFrame \in [Tasks -> Addresses \cup {Nil}]
  /\ made \in Seq(Access)
  /\ past \in [Tasks -> SUBSET DOMAIN made]
  /\ history \in [Addresses -> SUBSET DOMAIN made]
  /\ raceFlag \in [Addresses -> BOOLEAN]
  /\ recycled = {}

\* The tasks that run are those with a frame, and they have one.
Frames ==
  /\ \A t \in Threads : \A i \in DOMAIN stack[t] :
       /\ stack[t][i] \in Explicit \/ stack[t][i] = Implicit(t)
       /\ status[stack[t][i]] = "running"
  /\ \A t, u \in Threads : \A i \in DOMAIN stack[t], j \in DOMAIN stack[u] :
       stack[t][i] = stack[u][j] => t = u /\ i = j
  /\ \A k \in Tasks : status[k] = "running" => \E t \in Threads : \E i \in DOMAIN stack[t] : stack[t][i] = k

\* The exit frame that is remembered for a tied task that runs is that of its
\* only frame.
TiedFrames ==
  \A k \in Explicit \ Untied :
    exitFrame[k] # Nil =>
      \/ status[k] = "done"
      \/ \E t \in Threads : \E i \in DOMAIN stack[t] : stack[t][i] = k /\ exitFrame[k] = ExitFrame(t, i)

\* An access that is not checked is to a local variable of the task itself; any
\* other is in the history of its location until a race has been found there.
Settled ==
  /\ \A i \in DOMAIN made :
       IF Skipped(made[i].type) THEN made[i].owner = made[i].task /\ made[i].addr \notin Blocks
       ELSE raceFlag[made[i].addr] \/ i \in history[made[i].addr]
  /\ \A r \in races : /\ r[1] \in DOMAIN made /\ r[2] \in DOMAIN made
                      /\ OfStrangers(r) => raceFlag[made[r[1]].addr]

IInv == Typed /\ Frames /\ TiedFrames /\ Settled

\* Numbers tell explicit and implicit tasks apart.
LEMMA TaskNumbers ==
  /\ \A t \in Threads : Implicit(t) \in Tasks /\ Implicit(t) \notin Explicit /\ Implicit(t) # Nil
  /\ \A t, u \in Threads : Implicit(t) = Implicit(u) => t = u
  /\ Explicit \subseteq Tasks /\ Nil \notin Explicit /\ Nil \notin Tasks
BY SizeAssumption DEF Threads, Explicit, Implicit, Tasks, Nil

\* A frame more, and one less.
LEMMA Pushed ==
  ASSUME NEW S, NEW s \in Seq(S), NEW k \in S
  PROVE  /\ Append(s, k) \in Seq(S) /\ Len(Append(s, k)) = Len(s) + 1
         /\ DOMAIN s \subseteq DOMAIN Append(s, k)
         /\ DOMAIN Append(s, k) = DOMAIN s \cup {Len(s) + 1} /\ Len(s) + 1 \notin DOMAIN s
         /\ \A i \in DOMAIN s : Append(s, k)[i] = s[i]
         /\ Append(s, k)[Len(s) + 1] = k
<1>1. Len(s) \in Nat /\ DOMAIN s = 1..Len(s)
  BY LenProperties
<1>2. /\ Append(s, k) \in Seq(S) /\ Len(Append(s, k)) = Len(s) + 1
      /\ \A i \in 1..Len(s) : Append(s, k)[i] = s[i]
      /\ Append(s, k)[Len(s) + 1] = k
  BY AppendProperties
<1>3. DOMAIN Append(s, k) = 1..Len(s) + 1
  BY <1>2, LenProperties
<1>4. 1..Len(s) + 1 = 1..Len(s) \cup {Len(s) + 1} /\ Len(s) + 1 \notin 1..Len(s)
  BY <1>1
<1> QED
  BY <1>1, <1>2, <1>3, <1>4

LEMMA Popped ==
  ASSUME NEW S, NEW s \in Seq(S), s # <<>>
  PROVE  LET r == SubSeq(s, 1, Len(s) - 1)
         IN  /\ r \in Seq(S) /\ Len(r) = Len(s) - 1
             /\ Len(s) \in DOMAIN s /\ DOMAIN r = DOMAIN s \ {Len(s)}
             /\ \A i \in DOMAIN r : r[i] = s[i]
<1>1. Len(s) \in Nat /\ Len(s) >= 1 /\ DOMAIN s = 1..Len(s) /\ \A i \in 1..Len(s) : s[i] \in S
  BY LenProperties, EmptySeq, ElementOfSeq
<1> DEFINE r == SubSeq(s, 1, Len(s) - 1)
<1>2. \A i \in 1..Len(s) - 1 : s[i] \in S
  BY <1>1
<1>3. /\ r \in Seq(S)
      /\ Len(r) = IF 1 <= Len(s) - 1 THEN Len(s) - 1 - 1 + 1 ELSE 0
      /\ \A i \in 1..Len(s) - 1 - 1 + 1 : r[i] = s[1 + i - 1]
  BY <1>1, <1>2, SubSeqProperties
<1>4. Len(r) = Len(s) - 1
  BY <1>1, <1>3
<1>5. DOMAIN r = 1..Len(s) - 1
  BY <1>3, <1>4, LenProperties
<1>6. 1..Len(s) - 1 = 1..Len(s) \ {Len(s)} /\ Len(s) \in 1..Len(s)
  BY <1>1
<1>7. \A i \in 1..Len(s) - 1 : r[i] = s[i]
  BY <1>1, <1>3
<1> QED
  BY <1>1, <1>3, <1>4, <1>5, <1>6, <1>7

LEMMA InitIInv == Init => IInv
<1> SUFFICES ASSUME Init PROVE IInv
  OBVIOUS
<1> USE DEF Init
<1>1. <<>> \in Seq(Tasks) /\ <<>> \in Seq(Access) /\ Len(<<>>) = 0 /\ DOMAIN <<>> = {}
  <2>1. <<>> \in Seq(Tasks) /\ <<>> \in Seq(Access) /\ Len(<<>>) = 0
    OBVIOUS
  <2> QED
    BY <2>1, LenProperties
<1>2. Levels \in Nat
  BY SizeAssumption
<1>3. \A t \in Threads : stack[t] = <<>>
  OBVIOUS
<1>4. Typed
  BY <1>1, <1>2 DEF Typed, Statuses
<1>5. Frames
  BY <1>1, <1>3 DEF Frames
<1>6. TiedFrames
  BY TaskNumbers DEF TiedFrames
<1>7. Settled
  BY <1>1 DEF Settled
<1> QED
  BY <1>4, <1>5, <1>6, <1>7 DEF IInv

-----------------------------------------------------------------------------
(* Threads and tasks                                                        *)

\* These steps make and settle no access.
LEMMA SettledStays ==
  ASSUME Settled, UNCHANGED <<made, races, history, raceFlag>>
  PROVE  Settled'
BY DEF Settled, OfStrangers

LEMMA RecycleKeeps ==
  ASSUME NEW t, NEW k, NEW why, Recycle(t, k, why)
  PROVE  recycled' = recycled
BY DEF Recycle, recycleMemRange

LEMMA ThreadBeginStep ==
  ASSUME IInv, NEW t \in Threads, ThreadBegin(t)
  PROVE  IInv'
<1>1. /\ stack[t] = <<>> /\ stack' = [stack EXCEPT ![t] = <<Implicit(t)>>]
      /\ status' = [status EXCEPT ![Implicit(t)] = "running"]
      /\ UNCHANGED <<setup, parent, block, exitFrame, past, made, races, history, raceFlag, recycled>>
  BY DEF ThreadBegin, detector
<1>2. /\ stackBaseAddr' \in [Threads -> Addresses \cup {Nil}]
      /\ stackTopAddr' \in [Threads -> Addresses \cup {Nil}]
      /\ \A u \in Threads : \/ stackBaseAddr'[u] = Nil /\ stackTopAddr'[u] = Nil
                            \/ stackBaseAddr'[u] = Base(u) /\ stackTopAddr'[u] = Top(u)
  <2>1. PICK known \in BOOLEAN :
          /\ stackBaseAddr' = [stackBaseAddr EXCEPT ![t] = IF known THEN Base(t) ELSE Nil]
          /\ stackTopAddr' = [stackTopAddr EXCEPT ![t] = IF known THEN Top(t) ELSE Nil]
    BY DEF ThreadBegin
  <2>2. /\ stackBaseAddr \in [Threads -> Addresses \cup {Nil}]
        /\ stackTopAddr \in [Threads -> Addresses \cup {Nil}]
        /\ \A u \in Threads : \/ stackBaseAddr[u] = Nil /\ stackTopAddr[u] = Nil
                              \/ stackBaseAddr[u] = Base(u) /\ stackTopAddr[u] = Top(u)
    BY DEF IInv, Typed
  <2>3. Base(t) \in Addresses /\ Top(t) \in Addresses
    BY WordsAreAddresses
  <2> QED
    BY <2>1, <2>2, <2>3
<1>3. /\ stack \in [Threads -> Seq(Tasks)] /\ status \in [Tasks -> Statuses]
      /\ \A u \in Threads : Len(stack[u]) <= Levels
      /\ Implicit(t) \in Tasks
  BY TaskNumbers DEF IInv, Typed
<1>4. <<Implicit(t)>> \in Seq(Tasks) /\ Len(<<Implicit(t)>>) = 1 /\ <<Implicit(t)>>[1] = Implicit(t)
      /\ DOMAIN <<Implicit(t)>> = {1}
  BY <1>3
<1>5. stack' \in [Threads -> Seq(Tasks)] /\ status' \in [Tasks -> Statuses]
  BY <1>1, <1>3, <1>4 DEF Statuses
<1>6. \A u \in Threads : Len(stack'[u]) <= Levels
  BY <1>1, <1>3, <1>4, SizeAssumption
<1>7. Typed'
  BY <1>1, <1>2, <1>5, <1>6 DEF IInv, Typed
<1>8. DOMAIN stack[t] = {}
  BY <1>1, <1>3, LenProperties
<1>9. /\ stack'[t] = <<Implicit(t)>> /\ \A u \in Threads : u # t => stack'[u] = stack[u]
      /\ \A k \in Tasks : k # Implicit(t) => status'[k] = status[k]
      /\ status'[Implicit(t)] = "running"
  BY <1>1, <1>3
<1>10. \A u \in Threads : \A i \in DOMAIN stack[u] :
         /\ stack[u][i] \in Tasks /\ stack[u][i] # Implicit(t) /\ u # t /\ stack'[u] = stack[u]
         /\ status[stack[u][i]] = "running" /\ (stack[u][i] \in Explicit \/ stack[u][i] = Implicit(u))
  BY <1>1, <1>8, <1>9, TaskNumbers DEF IInv, Frames
<1>11. \A u \in Threads : \A i \in DOMAIN stack'[u] :
         (u = t /\ i = 1 /\ stack'[u][i] = Implicit(t))
         \/ (u # t /\ i \in DOMAIN stack[u] /\ stack'[u][i] = stack[u][i])
  BY <1>4, <1>9
<1>12. Frames'
  <2>1. \A u \in Threads : \A i \in DOMAIN stack'[u] :
          /\ stack'[u][i] \in Explicit \/ stack'[u][i] = Implicit(u)
          /\ status'[stack'[u][i]] = "running"
    BY <1>9, <1>10, <1>11
  <2>2. \A u, v \in Threads : \A i \in DOMAIN stack'[u], j \in DOMAIN stack'[v] :
          stack'[u][i] = stack'[v][j] => u = v /\ i = j
    <3>1. \A u, v \in Threads : \A i \in DOMAIN stack[u], j \in DOMAIN stack[v] :
            stack[u][i] = stack[v][j] => u = v /\ i = j
      BY DEF IInv, Frames
    <3> QED
      BY <1>10, <1>11, <3>1
  <2>3. \A k \in Tasks : status'[k] = "running" =>
          \E u \in Threads : \E i \in DOMAIN stack'[u] : stack'[u][i] = k
    <3>1. \A k \in Tasks : status[k] = "running" =>
            \E u \in Threads : \E i \in DOMAIN stack[u] : stack[u][i] = k
      BY DEF IInv, Frames
    <3>2. \E i \in DOMAIN stack'[t] : stack'[t][i] = Implicit(t)
      BY <1>4, <1>9
    <3> QED
      BY <1>9, <1>10, <3>1, <3>2
  <2> QED
    BY <2>1, <2>2, <2>3 DEF Frames
<1>13. TiedFrames'
  <2> SUFFICES ASSUME NEW k \in Explicit \ Untied, exitFrame[k] # Nil
               PROVE  \/ status'[k] = "done"
                      \/ \E u \in Threads : \E i \in DOMAIN stack'[u] :
                           stack'[u][i] = k /\ exitFrame[k] = ExitFrame(u, i)
    BY <1>1 DEF TiedFrames, Untied
  <2>1. k \in Tasks /\ k # Implicit(t)
    BY TaskNumbers
  <2>2. \/ status[k] = "done"
        \/ \E u \in Threads : \E i \in DOMAIN stack[u] : stack[u][i] = k /\ exitFrame[k] = ExitFrame(u, i)
    BY DEF IInv, TiedFrames
  <2> QED
    BY <1>9, <1>10, <2>1, <2>2
<1> QED
  BY <1>1, <1>7, <1>12, <1>13, SettledStays DEF IInv

LEMMA TaskCreateStep ==
  ASSUME IInv, NEW t \in Threads, NEW k \in Explicit, TaskCreate(t, k)
  PROVE  IInv'
<1>1. /\ status[k] = "new" /\ status' = [status EXCEPT ![k] = "ready"]
      /\ parent' = [parent EXCEPT ![k] = Current(t)]
      /\ past' = [past EXCEPT ![k] = past[Current(t)]]
      /\ UNCHANGED <<setup, stackBaseAddr, stackTopAddr, stack, exitFrame, made, races, history, raceFlag, recycled>>
      /\ stack[t] # <<>>
  BY DEF TaskCreate, detector, Running
<1>2. k \in Tasks
  BY TaskNumbers
<1>3. Current(t) \in Tasks
  <2>1. stack[t] \in Seq(Tasks)
    BY DEF IInv, Typed
  <2>2. Len(stack[t]) \in DOMAIN stack[t]
    BY <1>1, <2>1, Popped
  <2> QED
    BY <2>1, <2>2, ElementOfSeq, LenProperties DEF Current
<1>4. block' \in [Tasks -> Blocks \cup {Nil}]
  <2>1. PICK b \in 1..setup.blocks : block' = [block EXCEPT ![k] = b]
    BY DEF TaskCreate
  <2>2. setup.blocks \in Nat /\ setup.blocks <= BlockCount /\ BlockCount \in Nat
    BY SizeAssumption DEF IInv, Typed
  <2>3. b \in Blocks
    BY <2>2 DEF Blocks
  <2>4. block \in [Tasks -> Blocks \cup {Nil}]
    BY DEF IInv, Typed
  <2> QED
    BY <1>2, <2>1, <2>3, <2>4
<1>5. /\ status \in [Tasks -> Statuses] /\ parent \in [Tasks -> Tasks \cup {Nil}]
      /\ past \in [Tasks -> SUBSET DOMAIN made]
  BY DEF IInv, Typed
<1>6. /\ status' \in [Tasks -> Statuses] /\ parent' \in [Tasks -> Tasks \cup {Nil}]
      /\ past' \in [Tasks -> SUBSET DOMAIN made]
  BY <1>1, <1>2, <1>3, <1>5 DEF Statuses
<1>7. Typed'
  BY <1>1, <1>4, <1>6 DEF IInv, Typed
<1>8. \A j \in Tasks : (j # k => status'[j] = status[j]) /\ status'[k] = "ready"
  BY <1>1, <1>2, <1>5
<1>9. \A u \in Threads : \A i \in DOMAIN stack[u] : stack[u][i] \in Tasks /\ stack[u][i] # k
  BY <1>1, TaskNumbers DEF IInv, Frames
<1>10. Frames'
  <2>1. \A u \in Threads : \A i \in DOMAIN stack[u] :
          /\ stack[u][i] \in Explicit \/ stack[u][i] = Implicit(u)
          /\ status'[stack[u][i]] = "running"
    BY <1>8, <1>9 DEF IInv, Frames
  <2>2. \A j \in Tasks : status'[j] = "running" =>
          \E u \in Threads : \E i \in DOMAIN stack[u] : stack[u][i] = j
    BY <1>8, <1>2 DEF IInv, Frames
  <2> QED
    BY <1>1, <2>1, <2>2 DEF IInv, Frames
<1>11. TiedFrames'
  <2>1. \A j \in Explicit : status[j] = "done" => status'[j] = "done"
    BY <1>1, <1>8, TaskNumbers
  <2> QED
    BY <1>1, <2>1 DEF IInv, TiedFrames, Untied
<1> QED
  BY <1>1, <1>7, <1>10, <1>11, SettledStays DEF IInv

LEMMA TaskStartStep ==
  ASSUME IInv, NEW t \in Threads, NEW k \in Explicit, TaskStart(t, k)
  PROVE  IInv'
<1>1. /\ status[k] \in {"ready", "waiting"} /\ status' = [status EXCEPT ![k] = "running"]
      /\ stack' = [stack EXCEPT ![t] = Append(@, k)] /\ Len(stack[t]) < setup.levels
      /\ UNCHANGED <<setup, stackBaseAddr, stackTopAddr, parent, block, exitFrame, past, made, races, history, raceFlag>>
      /\ Recycle(t, Current(t), "switch")
  BY DEF TaskStart
<1>2. recycled' = recycled
  BY <1>1, RecycleKeeps
<1>3. /\ stack \in [Threads -> Seq(Tasks)] /\ status \in [Tasks -> Statuses]
      /\ \A u \in Threads : Len(stack[u]) <= Levels /\ Len(stack[u]) \in Nat
      /\ k \in Tasks
  BY TaskNumbers DEF IInv, Typed
<1>4. /\ stack'[t] = Append(stack[t], k) /\ \A u \in Threads : u # t => stack'[u] = stack[u]
      /\ \A j \in Tasks : j # k => status'[j] = status[j]
      /\ status'[k] = "running"
  BY <1>1, <1>3
<1> DEFINE top == Len(stack[t]) + 1
<1>5. /\ stack'[t] \in Seq(Tasks) /\ Len(stack'[t]) = top
      /\ DOMAIN stack'[t] = DOMAIN stack[t] \cup {top} /\ top \notin DOMAIN stack[t]
      /\ \A i \in DOMAIN stack[t] : stack'[t][i] = stack[t][i]
      /\ stack'[t][top] = k
  BY <1>3, <1>4, Pushed
<1>6. stack' \in [Threads -> Seq(Tasks)] /\ status' \in [Tasks -> Statuses]
  BY <1>1, <1>3, <1>4, <1>5 DEF Statuses
<1>7. \A u \in Threads : Len(stack'[u]) <= Levels
  <2>1. setup.levels \in Nat /\ setup.levels <= Levels /\ Levels \in Nat
    BY SizeAssumption DEF IInv, Typed
  <2>2. Len(stack'[t]) <= Levels
    BY <1>1, <1>3, <1>5, <2>1
  <2> QED
    BY <1>3, <1>4, <2>2
<1>8. Typed'
  BY <1>1, <1>2, <1>6, <1>7 DEF IInv, Typed
<1>9. \A u \in Threads : \A i \in DOMAIN stack[u] :
         /\ stack[u][i] \in Tasks /\ stack[u][i] # k
         /\ i \in DOMAIN stack'[u] /\ stack'[u][i] = stack[u][i]
  BY <1>1, <1>4, <1>5, TaskNumbers DEF IInv, Frames
<1> HIDE DEF top
<1>10. \A u \in Threads : \A i \in DOMAIN stack'[u] :
         (u = t /\ i = top /\ stack'[u][i] = k) \/ (i \in DOMAIN stack[u] /\ stack'[u][i] = stack[u][i])
  BY <1>4, <1>5
<1>11. Frames'
  <2>1. \A u \in Threads : \A i \in DOMAIN stack'[u] :
          /\ stack'[u][i] \in Explicit \/ stack'[u][i] = Implicit(u)
          /\ status'[stack'[u][i]] = "running"
    BY <1>4, <1>9, <1>10 DEF IInv, Frames
  <2>2. \A u, v \in Threads : \A i \in DOMAIN stack'[u], j \in DOMAIN stack'[v] :
          stack'[u][i] = stack'[v][j] => u = v /\ i = j
    <3>1. \A u, v \in Threads : \A i \in DOMAIN stack[u], j \in DOMAIN stack[v] :
            stack[u][i] = stack[v][j] => u = v /\ i = j
      BY DEF IInv, Frames
    <3> QED
      BY <1>9, <1>10, <3>1
  <2>3. \A j \in Tasks : status'[j] = "running" =>
          \E u \in Threads : \E i \in DOMAIN stack'[u] : stack'[u][i] = j
    <3>1. \A j \in Tasks : status[j] = "running" =>
            \E u \in Threads : \E i \in DOMAIN stack[u] : stack[u][i] = j
      BY DEF IInv, Frames
    <3>2. \E i \in DOMAIN stack'[t] : stack'[t][i] = k
      BY <1>5
    <3> QED
      BY <1>4, <1>9, <3>1, <3>2
  <2> QED
    BY <2>1, <2>2, <2>3 DEF Frames
<1>12. TiedFrames'
  <2> SUFFICES ASSUME NEW j \in Explicit \ Untied, exitFrame[j] # Nil
               PROVE  \/ status'[j] = "done"
                      \/ \E u \in Threads : \E i \in DOMAIN stack'[u] :
                           stack'[u][i] = j /\ exitFrame[j] = ExitFrame(u, i)
    BY <1>1 DEF TiedFrames, Untied
  <2>1. \/ status[j] = "done"
        \/ \E u \in Threads : \E i \in DOMAIN stack[u] : stack[u][i] = j /\ exitFrame[j] = ExitFrame(u, i)
    BY DEF IInv, TiedFrames
  <2>2. status[j] = "done" => status'[j] = "done"
    BY <1>1, <1>4, TaskNumbers
  <2> QED
    BY <1>9, <2>1, <2>2
<1> QED
  BY <1>1, <1>8, <1>11, <1>12, SettledStays DEF IInv

\* The frame that leaves is the only one of its task.
LEMMA LeaveStep ==
  ASSUME IInv, NEW t \in Threads, NEW k \in Explicit, NEW now \in {"done", "waiting"},
         Leave(t, k, now), now = "done" \/ k \in Untied,
         block' \in [Tasks -> Blocks \cup {Nil}], recycled' = recycled,
         UNCHANGED <<setup, stackBaseAddr, stackTopAddr, parent, exitFrame, past, made, races, history, raceFlag>>
  PROVE  IInv'
<1>1. /\ stack[t] # <<>> /\ stack[t][Len(stack[t])] = k
      /\ stack' = [stack EXCEPT ![t] = SubSeq(@, 1, Len(@) - 1)]
      /\ status' = [status EXCEPT ![k] = now]
  BY DEF Leave, Running, Current
<1>2. /\ stack \in [Threads -> Seq(Tasks)] /\ status \in [Tasks -> Statuses]
      /\ \A u \in Threads : Len(stack[u]) <= Levels /\ Len(stack[u]) \in Nat
      /\ k \in Tasks /\ Levels \in Nat
  BY TaskNumbers, SizeAssumption DEF IInv, Typed
<1>3. /\ stack'[t] = SubSeq(stack[t], 1, Len(stack[t]) - 1) /\ \A u \in Threads : u # t => stack'[u] = stack[u]
      /\ \A j \in Tasks : j # k => status'[j] = status[j]
      /\ status'[k] = now
  BY <1>1, <1>2
<1> DEFINE top == Len(stack[t])
<1>4. /\ stack'[t] \in Seq(Tasks) /\ Len(stack'[t]) = top - 1
      /\ top \in DOMAIN stack[t] /\ DOMAIN stack'[t] = DOMAIN stack[t] \ {top}
      /\ \A i \in DOMAIN stack'[t] : stack'[t][i] = stack[t][i]
  BY <1>1, <1>2, <1>3, Popped
<1>5. stack' \in [Threads -> Seq(Tasks)] /\ status' \in [Tasks -> Statuses]
  BY <1>1, <1>2, <1>3, <1>4 DEF Statuses
<1>6. \A u \in Threads : Len(stack'[u]) <= Levels
  <2>1. Len(stack'[t]) <= Levels
    BY <1>2, <1>4
  <2> QED
    BY <1>2, <1>3, <2>1
<1>7. Typed'
  BY <1>5, <1>6 DEF IInv, Typed
<1> HIDE DEF top
<1>8. stack[t][top] = k
  BY <1>1 DEF top
<1>9. \A u \in Threads : \A i \in DOMAIN stack'[u] :
         /\ i \in DOMAIN stack[u] /\ stack'[u][i] = stack[u][i]
         /\ stack[u][i] \in Tasks /\ stack[u][i] # k
  <2>1. \A u \in Threads : \A i \in DOMAIN stack'[u] :
          i \in DOMAIN stack[u] /\ stack'[u][i] = stack[u][i] /\ ~(u = t /\ i = top)
    BY <1>3, <1>4
  <2>2. \A u \in Threads : \A i \in DOMAIN stack[u] : stack[u][i] = k => u = t /\ i = top
    BY <1>4, <1>8 DEF IInv, Frames
  <2>3. \A u \in Threads : \A i \in DOMAIN stack[u] : stack[u][i] \in Tasks
    BY TaskNumbers DEF IInv, Frames
  <2> QED
    BY <2>1, <2>2, <2>3
<1>10. \A u \in Threads : \A i \in DOMAIN stack[u] : stack[u][i] # k => i \in DOMAIN stack'[u]
  BY <1>3, <1>4, <1>8
<1>11. Frames'
  <2>1. \A u \in Threads : \A i \in DOMAIN stack'[u] :
          /\ stack'[u][i] \in Explicit \/ stack'[u][i] = Implicit(u)
          /\ status'[stack'[u][i]] = "running"
    BY <1>3, <1>9 DEF IInv, Frames
  <2>2. \A u, v \in Threads : \A i \in DOMAIN stack'[u], j \in DOMAIN stack'[v] :
          stack'[u][i] = stack'[v][j] => u = v /\ i = j
    BY <1>9 DEF IInv, Frames
  <2>3. \A j \in Tasks : status'[j] = "running" =>
          \E u \in Threads : \E i \in DOMAIN stack'[u] : stack'[u][i] = j
    <3>1. \A j \in Tasks : status[j] = "running" =>
            \E u \in Threads : \E i \in DOMAIN stack[u] : stack[u][i] = j
      BY DEF IInv, Frames
    <3> QED
      BY <1>3, <1>9, <1>10, <3>1
  <2> QED
    BY <2>1, <2>2, <2>3 DEF Frames
<1>12. TiedFrames'
  <2> SUFFICES ASSUME NEW j \in Explicit \ Untied, exitFrame[j] # Nil
               PROVE  \/ status'[j] = "done"
                      \/ \E u \in Threads : \E i \in DOMAIN stack'[u] :
                           stack'[u][i] = j /\ exitFrame[j] = ExitFrame(u, i)
    BY DEF TiedFrames, Untied
  <2>1. \/ status[j] = "done"
        \/ \E u \in Threads : \E i \in DOMAIN stack[u] : stack[u][i] = j /\ exitFrame[j] = ExitFrame(u, i)
    BY DEF IInv, TiedFrames
  <2>2. CASE j = k
    BY <1>3, <2>2
  <2>3. CASE j # k
    <3>1. status'[j] = status[j]
      BY <1>3, <2>3, TaskNumbers
    <3> QED
      BY <1>9, <1>10, <2>1, <2>3, <3>1
  <2> QED
    BY <2>2, <2>3
<1> QED
  BY <1>7, <1>11, <1>12, SettledStays DEF IInv

\* The end of a task and the end of a part of an untied task
LEMMA TaskEndStep ==
  ASSUME IInv, NEW t \in Threads, NEW k \in Explicit, TaskComplete(t, k) \/ TaskSwitchOut(t, k)
  PROVE  IInv'
<1>1. k \in Tasks /\ block \in [Tasks -> Blocks \cup {Nil}]
  BY TaskNumbers DEF IInv, Typed
<1>2. CASE TaskComplete(t, k)
  <2>1. Leave(t, k, "done") /\ Recycle(t, k, "complete") /\ block' = [block EXCEPT ![k] = Nil]
        /\ UNCHANGED <<setup, stackBaseAddr, stackTopAddr, parent, exitFrame, past, made, races, history, raceFlag>>
    BY <1>2 DEF TaskComplete
  <2>2. block' \in [Tasks -> Blocks \cup {Nil}]
    BY <1>1, <2>1
  <2> QED
    BY <2>1, <2>2, LeaveStep, RecycleKeeps
<1>3. CASE TaskSwitchOut(t, k)
  <2>1. Leave(t, k, "waiting") /\ Recycle(t, k, "left") /\ k \in Untied
        /\ UNCHANGED <<setup, stackBaseAddr, stackTopAddr, parent, block, exitFrame, past, made, races, history, raceFlag>>
    BY <1>3 DEF TaskSwitchOut
  <2> QED
    BY <1>1, <2>1, LeaveStep, RecycleKeeps
<1> QED
  BY <1>2, <1>3

LEMMA TaskWaitStep ==
  ASSUME IInv, NEW t \in Threads, TaskWait(t)
  PROVE  IInv'
<1> DEFINE children == {k \in Explicit : parent[k] = Current(t)}
<1>1. /\ past' = [past EXCEPT ![Current(t)] = @ \cup UNION {past[k] : k \in children}]
      /\ UNCHANGED <<setup, stackBaseAddr, stackTopAddr, stack, status, parent, block, exitFrame, made, races,
                     history, raceFlag, recycled>>
  BY DEF TaskWait, program, detector
<1>2. past \in [Tasks -> SUBSET DOMAIN made] /\ Explicit \subseteq Tasks
  BY TaskNumbers DEF IInv, Typed
<1>3. UNION {past[k] : k \in children} \subseteq DOMAIN made
  BY <1>2
<1>4. past' \in [Tasks -> SUBSET DOMAIN made]
  BY <1>1, <1>2, <1>3
<1>5. Typed'
  BY <1>1, <1>4 DEF IInv, Typed
<1>6. Frames' /\ TiedFrames'
  BY <1>1 DEF IInv, Frames, TiedFrames, Untied
<1> QED
  BY <1>1, <1>5, <1>6, SettledStays DEF IInv
-----------------------------------------------------------------------------
(* An access                                                                *)

\* The variables a task can name have an owner, and lie in its block or are
\* locals of its frames.
LEMMA NamedVariables ==
  ASSUME IInv, NEW k \in Tasks, NEW v \in Variables(k)
  PROVE  /\ v.owner \in Tasks /\ v.addr \in Addresses
         /\ \/ v.addr \in Blocks
            \/ \E t \in Threads, l \in 1..Levels : /\ l <= Len(stack[t]) /\ stack[t][l] = v.owner
                                                   /\ v.addr = Local(t, l)
<1>1. PICK o \in Ancestors(k) : v \in [addr : OwnedBy(o, k), owner : {o}]
  BY DEF Variables
<1>2. o \in Tasks /\ v.owner = o /\ v.addr \in OwnedBy(o, k)
  BY <1>1 DEF Ancestors
<1>3. block \in [Tasks -> Blocks \cup {Nil}]
  BY DEF IInv, Typed
<1>4. CASE v.addr \in {block[o]} \ {Nil}
  BY <1>2, <1>3, <1>4, WordsAreAddresses
<1>5. CASE v.addr \in LocalsOf(o)
  <2>1. PICK f \in FramesOf(o) : v.addr = Local(f[1], f[2])
    BY <1>5 DEF LocalsOf
  <2>2. f[1] \in Threads /\ f[2] \in 1..Levels /\ f[2] <= Len(stack[f[1]]) /\ stack[f[1]][f[2]] = o
    BY <2>1 DEF FramesOf
  <2>3. v.addr \in Addresses
    BY <2>1, <2>2, WordsAreAddresses
  <2> QED
    BY <1>2, <2>1, <2>2, <2>3
<1> QED
  BY <1>2, <1>4, <1>5 DEF OwnedBy

\* What the analysis takes for private is a local of the innermost frame of the
\* thread: locals of outer frames lie above the exit frame, those of other
\* threads and the heap outside the bounds.
LEMMA SkippedIsOwn ==
  ASSUME IInv, NEW t \in Threads, Running(t), NEW v \in Variables(Current(t)), Current(t) \in Tasks,
         NEW frame \in {ExitFrame(t, Len(stack[t])), Nil},
         Skipped(analyzeDataSharing(t, v.addr, frame))
  PROVE  v.owner = Current(t) /\ v.addr \notin Blocks
<1> DEFINE top == Len(stack[t])
<1>1. v.owner \in Tasks /\ v.addr \in Addresses
  BY NamedVariables
<1>2. v.addr \in Nat /\ v.addr < StaticLowerBound
  BY <1>1, StackWords DEF Addresses
<1>3. /\ stackBaseAddr[t] = Base(t) /\ stackTopAddr[t] = Top(t) /\ frame = ExitFrame(t, top)
      /\ Base(t) <= v.addr /\ v.addr <= Top(t) /\ v.addr < ExitFrame(t, top)
  <2>1. \/ stackBaseAddr[t] = Nil /\ stackTopAddr[t] = Nil
        \/ stackBaseAddr[t] = Base(t) /\ stackTopAddr[t] = Top(t)
    BY DEF IInv, Typed
  <2>2. /\ frame # Nil /\ stackTopAddr[t] # Nil
        /\ \/ v.addr >= StaticLowerBound
           \/ ~(v.addr < stackBaseAddr[t] \/ v.addr > stackTopAddr[t]) /\ v.addr < frame
    BY DEF analyzeDataSharing, Skipped
  <2>3. Base(t) \in Nat /\ Top(t) \in Nat /\ StaticLowerBound \in Nat
    BY StackWords
  <2> QED
    BY <1>2, <2>1, <2>2, <2>3
<1>4. v.addr \notin Blocks
  BY <1>2, <1>3, StackWords, SizeAssumption DEF Blocks
<1>5. PICK u \in Threads, l \in 1..Levels : l <= Len(stack[u]) /\ stack[u][l] = v.owner /\ v.addr = Local(u, l)
  BY <1>4, NamedVariables
<1>6. u = t
  <2>1. Base(u) <= v.addr /\ v.addr <= Top(u)
    BY <1>5, FrameWords, StackWords
  <2> QED
    BY <1>2, <1>3, <2>1, OneStack
<1>7. top \in 1..Levels
  <2>1. stack[t] \in Seq(Tasks) /\ stack[t] # <<>> /\ top <= Levels
    BY DEF IInv, Typed, Running
  <2>2. top \in DOMAIN stack[t]
    BY <2>1, Popped
  <2> QED
    BY <2>1, <2>2, LenProperties, SizeAssumption
<1>8. ~(l < top)
  <2>1. l < top => ExitFrame(t, top) < Local(t, l)
    BY <1>7, FrameWords
  <2>2. ExitFrame(t, top) \in Nat
    BY <1>7, FrameWords
  <2> QED
    BY <1>2, <1>3, <1>5, <1>6, <2>1, <2>2
<1>9. l = top
  <2>1. l \in Nat /\ top \in Nat
    BY <1>7, SizeAssumption
  <2> QED
    BY <1>5, <1>6, <1>8, <2>1
<1> QED
  BY <1>4, <1>5, <1>6, <1>9 DEF Current

LEMMA CheckAccessStep ==
  ASSUME IInv, NEW t \in Threads, NEW write \in BOOLEAN, checkAccess(t, write)
  PROVE  IInv'
<1> DEFINE k == Current(t)
           n == Len(made) + 1
           top == Len(stack[t])
<1>1. PICK v \in Variables(k), set \in setup.frames :
           LET frame == IF set THEN ExitFrame(t, Len(stack[t])) ELSE Nil
               type == analyzeDataSharing(t, v.addr, frame)
               access == [task |-> k, addr |-> v.addr, owner |-> v.owner, write |-> write,
                          type |-> type]
               unordered == {i \in DOMAIN made : i \notin past[k] /\ Conflict(made[i], access)}
           IN  /\ made' = Append(made, access)
               /\ past' = [past EXCEPT ![k] = @ \cup {n}]
               /\ races' = races \cup {<<i, n>> : i \in {j \in unordered : made[j].owner = v.owner}}
               /\ exitFrame' = [exitFrame EXCEPT ![k] = frame]
               /\ IF Skipped(type) THEN UNCHANGED detector ELSE CheckDataRace(n, v.addr, unordered)
  BY DEF checkAccess
<1> DEFINE frame == IF set THEN ExitFrame(t, top) ELSE Nil
           type == analyzeDataSharing(t, v.addr, frame)
           access == [task |-> k, addr |-> v.addr, owner |-> v.owner, write |-> write, type |-> type]
           unordered == {i \in DOMAIN made : i \notin past[k] /\ Conflict(made[i], access)}
<1>2. /\ made' = Append(made, access)
      /\ past' = [past EXCEPT ![k] = @ \cup {n}]
      /\ races' = races \cup {<<i, n>> : i \in {j \in unordered : made[j].owner = v.owner}}
      /\ exitFrame' = [exitFrame EXCEPT ![k] = frame]
      /\ IF Skipped(type) THEN UNCHANGED <<history, raceFlag, recycled>>
         ELSE CheckDataRace(n, v.addr, unordered)
  BY <1>1 DEF detector
<1>3. UNCHANGED <<setup, stackBaseAddr, stackTopAddr, stack, status, parent, block>> /\ stack[t] # <<>> /\ Running(t)
  BY DEF checkAccess, program, Running
<1>4. /\ top \in 1..Levels /\ top \in DOMAIN stack[t]
      /\ k = stack[t][top] /\ k \in Tasks
  <2>1. stack[t] \in Seq(Tasks) /\ top <= Levels
    BY DEF IInv, Typed
  <2>2. top \in DOMAIN stack[t]
    BY <1>3, <2>1, Popped
  <2> QED
    BY <2>1, <2>2, LenProperties, ElementOfSeq, SizeAssumption DEF Current
<1>5. v.owner \in Tasks /\ v.addr \in Addresses
  BY <1>4, NamedVariables
<1>6. frame \in {ExitFrame(t, top), Nil} /\ frame \in Addresses \cup {Nil}
  BY <1>4, WordsAreAddresses
<1>7. Skipped(type) => v.owner = k /\ v.addr \notin Blocks
  BY <1>3, <1>4, <1>6, SkippedIsOwn
<1>8. type \in DataSharingTypes
  BY DEF analyzeDataSharing, DataSharingTypes
<1> HIDE DEF k, frame, type, top
<1>9. access \in Access
  BY <1>4, <1>5, <1>8 DEF Access
<1>10. /\ made \in Seq(Access) /\ past \in [Tasks -> SUBSET DOMAIN made]
       /\ history \in [Addresses -> SUBSET DOMAIN made] /\ raceFlag \in [Addresses -> BOOLEAN]
       /\ exitFrame \in [Tasks -> Addresses \cup {Nil}] /\ recycled = {}
  BY DEF IInv, Typed
<1> HIDE DEF access
<1>11. /\ made' \in Seq(Access) /\ DOMAIN made' = DOMAIN made \cup {n} /\ n \notin DOMAIN made
       /\ \A i \in DOMAIN made : made'[i] = made[i]
       /\ made'[n] = access
  BY <1>2, <1>9, <1>10, Pushed
<1>12. access.task = k /\ access.addr = v.addr /\ access.owner = v.owner /\ access.type = type
  BY DEF access
<1> HIDE DEF n, unordered
<1>13. /\ past' \in [Tasks -> SUBSET DOMAIN made']
       /\ exitFrame' \in [Tasks -> Addresses \cup {Nil}]
  BY <1>2, <1>4, <1>6, <1>10, <1>11
<1>14. ~Skipped(type) =>
         /\ recycled' = {}
         /\ history' = [history EXCEPT ![v.addr] = IF raceFlag[v.addr] THEN {} ELSE @ \cup {n}]
         /\ raceFlag' = [raceFlag EXCEPT ![v.addr] =
                           @ \/ (~raceFlag[v.addr] /\ history[v.addr] \cap unordered # {})]
  <2>1. ~Skipped(type) => CheckDataRace(n, v.addr, unordered)
    BY <1>2
  <2> QED
    BY <1>10, <2>1 DEF CheckDataRace
<1>15. /\ recycled' = {}
       /\ history' \in [Addresses -> SUBSET DOMAIN made']
       /\ raceFlag' \in [Addresses -> BOOLEAN]
  <2>1. CASE Skipped(type)
    BY <1>2, <1>10, <1>11, <2>1
  <2>2. CASE ~Skipped(type)
    <3>1. history' \in [Addresses -> SUBSET DOMAIN made']
      BY <1>5, <1>10, <1>11, <1>14, <2>2
    <3>2. raceFlag' \in [Addresses -> BOOLEAN]
      BY <1>5, <1>10, <1>14, <2>2
    <3> QED
      BY <1>14, <2>2, <3>1, <3>2
  <2> QED
    BY <2>1, <2>2
<1>16. Typed'
  BY <1>3, <1>11, <1>13, <1>15 DEF IInv, Typed
<1>17. Frames'
  BY <1>3 DEF IInv, Frames
<1>18. TiedFrames'
  <2> SUFFICES ASSUME NEW j \in Explicit \ Untied, exitFrame'[j] # Nil
               PROVE  \/ status[j] = "done"
                      \/ \E u \in Threads : \E i \in DOMAIN stack[u] :
                           stack[u][i] = j /\ exitFrame'[j] = ExitFrame(u, i)
    BY <1>3 DEF TiedFrames, Untied
  <2>1. CASE j = k
    <3>1. exitFrame'[j] = ExitFrame(t, top)
      BY <1>2, <1>4, <1>6, <1>10, <2>1
    <3> QED
      BY <1>4, <2>1, <3>1
  <2>2. CASE j # k
    <3>1. exitFrame'[j] = exitFrame[j]
      BY <1>2, <1>10, <2>2, TaskNumbers
    <3> QED
      BY <3>1 DEF IInv, TiedFrames
  <2> QED
    BY <2>1, <2>2
\* A race that is known stays known, and so does what is in a history without one.
<1>19. /\ \A a \in Addresses : raceFlag[a] => raceFlag'[a]
       /\ \A a \in Addresses : \A i \in history[a] : raceFlag'[a] \/ i \in history'[a]
  <2>1. CASE Skipped(type)
    BY <1>2, <2>1
  <2>2. CASE ~Skipped(type)
    <3>1. \A a \in Addresses : raceFlag[a] => raceFlag'[a]
      BY <1>5, <1>10, <1>14, <2>2
    <3>2. ASSUME NEW a \in Addresses, NEW i \in history[a], ~raceFlag'[a] PROVE i \in history'[a]
      <4>1. ~raceFlag[a]
        BY <3>1, <3>2
      <4> QED
        BY <1>5, <1>10, <1>14, <2>2, <4>1
    <3> QED
      BY <3>1, <3>2
  <2> QED
    BY <2>1, <2>2
<1>20. ~Skipped(type) => raceFlag'[v.addr] \/ n \in history'[v.addr]
  <2>1. ASSUME ~Skipped(type), ~raceFlag'[v.addr] PROVE n \in history'[v.addr]
    <3>1. ~raceFlag[v.addr]
      BY <1>5, <1>19, <2>1
    <3> QED
      BY <1>5, <1>10, <1>14, <2>1, <3>1
  <2> QED
    BY <2>1
<1>21. \A i \in DOMAIN made : made[i] \in Access /\ made[i].addr \in Addresses
  <2>1. \A i \in DOMAIN made : made[i] \in Access
    BY <1>10
  <2> QED
    BY <2>1 DEF Access
<1>22. \A i \in DOMAIN made' :
         IF Skipped(made'[i].type) THEN made'[i].owner = made'[i].task /\ made'[i].addr \notin Blocks
         ELSE raceFlag'[made'[i].addr] \/ i \in history'[made'[i].addr]
  <2>1. ASSUME NEW i \in DOMAIN made
        PROVE  IF Skipped(made[i].type) THEN made[i].owner = made[i].task /\ made[i].addr \notin Blocks
               ELSE raceFlag'[made[i].addr] \/ i \in history'[made[i].addr]
    BY <1>19, <1>21 DEF IInv, Settled
  <2>2. IF Skipped(type) THEN v.owner = k /\ v.addr \notin Blocks
        ELSE raceFlag'[v.addr] \/ n \in history'[v.addr]
    BY <1>7, <1>20
  <2> QED
    BY <1>11, <1>12, <2>1, <2>2
<1>23. \A r \in races' : /\ r[1] \in DOMAIN made' /\ r[2] \in DOMAIN made'
                         /\ OfStrangers(r)' => raceFlag'[made'[r[1]].addr]
  <2>1. ASSUME NEW r \in races
        PROVE  /\ r[1] \in DOMAIN made' /\ r[2] \in DOMAIN made'
               /\ OfStrangers(r)' => raceFlag'[made'[r[1]].addr]
    <3>1. /\ r[1] \in DOMAIN made /\ r[2] \in DOMAIN made
          /\ OfStrangers(r) => raceFlag[made[r[1]].addr]
      BY DEF IInv, Settled
    <3>2. OfStrangers(r)' => OfStrangers(r)
      BY <1>11, <3>1 DEF OfStrangers
    <3> QED
      BY <1>11, <1>19, <1>21, <3>1, <3>2
  <2>2. ASSUME NEW i \in unordered, made[i].owner = v.owner, NEW m, m = n
        PROVE  /\ i \in DOMAIN made' /\ m \in DOMAIN made'
               /\ OfStrangers(<<i, m>>)' => raceFlag'[made'[i].addr]
    <3>1. i \in DOMAIN made /\ made[i].addr = v.addr
      BY <1>12 DEF unordered, Conflict
    <3>2. ASSUME OfStrangers(<<i, m>>)' PROVE raceFlag'[v.addr]
      <4>1. /\ made[i].addr \in Blocks \/ made[i].task # made[i].owner
            /\ v.addr \in Blocks \/ k # v.owner
        <5>1. <<i, m>>[1] = i /\ <<i, m>>[2] = m
          OBVIOUS
        <5>2. \A j \in {i, m} : made'[j].addr \in Blocks \/ made'[j].task # made'[j].owner
          BY <3>2, <5>1 DEF OfStrangers
        <5>3. made'[i] = made[i] /\ made'[n] = access
          BY <1>11, <3>1
        <5> QED
          BY <1>12, <2>2, <3>1, <5>2, <5>3
      <4>2. ~Skipped(type) /\ ~Skipped(made[i].type)
        BY <1>7, <3>1, <4>1 DEF IInv, Settled
      <4>3. raceFlag[v.addr] \/ i \in history[v.addr]
        BY <3>1, <4>2 DEF IInv, Settled
      <4>4. CASE raceFlag[v.addr]
        BY <1>5, <1>19, <4>4
      <4>5. CASE ~raceFlag[v.addr] /\ i \in history[v.addr] \cap unordered
        BY <1>5, <1>10, <1>14, <4>2, <4>5
      <4> QED
        BY <2>2, <4>3, <4>4, <4>5
    <3> QED
      BY <1>11, <2>2, <3>1, <3>2
  <2>3. ASSUME NEW r \in races', r \notin races
        PROVE  \E i \in unordered : made[i].owner = v.owner /\ r = <<i, n>>
    BY <1>2, <2>3
  <2>4. \A i : <<i, n>>[1] = i /\ <<i, n>>[2] = n
    OBVIOUS
  <2> SUFFICES ASSUME NEW r \in races'
               PROVE  /\ r[1] \in DOMAIN made' /\ r[2] \in DOMAIN made'
                      /\ OfStrangers(r)' => raceFlag'[made'[r[1]].addr]
    OBVIOUS
  <2>5. CASE r \in races
    BY <2>1, <2>5
  <2>6. CASE r \notin races
    <3>1. PICK i \in unordered, m \in {n} : made[i].owner = v.owner /\ r = <<i, m>>
      BY <2>3, <2>6
    <3> QED
      BY <2>2, <2>4, <3>1
  <2> QED
    BY <2>5, <2>6
<1>24. Settled'
  BY <1>22, <1>23 DEF Settled
<1> QED
  BY <1>16, <1>17, <1>18, <1>24 DEF IInv

-----------------------------------------------------------------------------
(* Theorems                                                                 *)

LEMMA NextIInv == IInv /\ [Next]_vars => IInv'
<1> SUFFICES ASSUME IInv, [Next]_vars PROVE IInv'
  OBVIOUS
<1>1. CASE UNCHANGED vars
  <2>1. UNCHANGED <<setup, stackBaseAddr, stackTopAddr, stack, status, parent, block, exitFrame, past, made,
                    races, history, raceFlag, recycled>>
    BY <1>1 DEF vars, program, detector
  <2>2. Typed' /\ Frames' /\ TiedFrames'
    BY <2>1 DEF IInv, Typed, Frames, TiedFrames, Untied
  <2> QED
    BY <2>1, <2>2, SettledStays DEF IInv
<1> QED
  BY <1>1, ThreadBeginStep, TaskCreateStep, TaskStartStep, TaskEndStep, TaskWaitStep, CheckAccessStep DEF Next

\* The invariant holds of every execution.
THEOREM SpecIInv == Spec => []IInv
  BY InitIInv, NextIInv, PTL DEF Spec

\* Every variable of the analysis keeps its type, and each running task has one frame.
THEOREM TypeCorrect == Spec => []TypeOK
<1>1. IInv => TypeOK
  <2> SUFFICES ASSUME IInv PROVE TypeOK
    OBVIOUS
  <2>1. \A t \in Threads : /\ {stackBaseAddr[t], stackTopAddr[t]} \subseteq Addresses \cup {Nil}
                           /\ stackBaseAddr[t] <= stackTopAddr[t]
    <3> SUFFICES ASSUME NEW t \in Threads
                 PROVE  /\ {stackBaseAddr[t], stackTopAddr[t]} \subseteq Addresses \cup {Nil}
                        /\ stackBaseAddr[t] <= stackTopAddr[t]
      OBVIOUS
    <3>1. \/ stackBaseAddr[t] = Nil /\ stackTopAddr[t] = Nil
          \/ stackBaseAddr[t] = Base(t) /\ stackTopAddr[t] = Top(t)
      BY DEF IInv, Typed
    <3> QED
      BY <3>1, StackWords, WordsAreAddresses DEF Nil
  <2>2. ASSUME NEW k \in Tasks
        PROVE  Cardinality(FramesOf(k)) = IF status[k] = "running" THEN 1 ELSE 0
    <3>1. \A t \in Threads : DOMAIN stack[t] = 1..Len(stack[t]) /\ 1..Len(stack[t]) \subseteq 1..Levels
      <4>1. \A t \in Threads : Len(stack[t]) \in Nat /\ Len(stack[t]) <= Levels /\ DOMAIN stack[t] = 1..Len(stack[t])
        BY LenProperties DEF IInv, Typed
      <4>2. \A n \in Nat : n <= Levels => 1..n \subseteq 1..Levels
        BY SizeAssumption
      <4> QED
        BY <4>1, <4>2
    <3>2. \A f : f \in FramesOf(k) <=> /\ f \in Threads \X (1..Levels)
                                       /\ f[2] \in DOMAIN stack[f[1]] /\ stack[f[1]][f[2]] = k
      <4>1. \A t \in Threads, l \in 1..Levels : l \in DOMAIN stack[t] <=> l <= Len(stack[t])
        <5>1. \A t \in Threads : Len(stack[t]) \in Nat
          BY LenProperties DEF IInv, Typed
        <5>2. \A n \in Nat, l \in 1..Levels : l \in 1..n <=> l <= n
          BY SizeAssumption
        <5> QED
          BY <3>1, <5>1, <5>2
      <4> QED
        BY <4>1 DEF FramesOf
    <3>3. CASE status[k] # "running"
      <4>1. FramesOf(k) = {}
        BY <3>2, <3>3 DEF IInv, Frames
      <4> QED
        BY <3>3, <4>1, FS_EmptySet
    <3>4. CASE status[k] = "running"
      <4>1. PICK t \in Threads : \E i \in DOMAIN stack[t] : stack[t][i] = k
        BY <3>4 DEF IInv, Frames
      <4>2. PICK i \in DOMAIN stack[t] : stack[t][i] = k
        BY <4>1
      <4>3. <<t, i>> \in FramesOf(k)
        BY <3>1, <3>2, <4>2
      <4>4. \A f \in FramesOf(k) : f = <<t, i>>
        BY <3>2, <4>2 DEF IInv, Frames
      <4>5. FramesOf(k) = { <<t, i>> }
        BY <4>3, <4>4
      <4> QED
        BY <3>4, <4>5, FS_Singleton
    <3> QED
      BY <3>3, <3>4
  <2> QED
    BY <2>1, <2>2 DEF TypeOK, IInv, Typed, Statuses
<1> QED
  BY SpecIInv, <1>1, PTL

\* An access the analysis passes over is one of a task to its own local variable:
\* the exit frame of the innermost frame separates it from all others.
THEOREM SkippedIsPrivateHolds == Spec => []SkippedIsPrivate
<1>1. IInv => SkippedIsPrivate
  BY DEF IInv, Settled, SkippedIsPrivate
<1> QED
  BY SpecIInv, <1>1, PTL

\* Two tasks that race on a third one's variable, or on one in private memory, are
\* found, however often memory is recycled: both accesses are checked, and nothing
\* but a race takes the first from the history.
THEOREM StrangersRacesFoundHolds == Spec => []StrangersRacesFound
<1>1. IInv => StrangersRacesFound
  BY DEF IInv, Settled, StrangersRacesFound
<1> QED
  BY SpecIInv, <1>1, PTL

\* The end of a task recycles its block and the words below its exit frame.
LEMMA EndIsDead ==
  ASSUME IInv, NEW t \in Threads, NEW k \in Explicit, TaskComplete(t, k)
  PROVE  EndedIsDead'
<1>1. /\ stack[t] # <<>> /\ k = stack[t][Len(stack[t])]
      /\ stack' = [stack EXCEPT ![t] = SubSeq(@, 1, Len(@) - 1)]
      /\ UNCHANGED <<setup, stackBaseAddr, exitFrame>>
  BY DEF TaskComplete, Leave, Running, Current
<1>2. PICK private \in {{}, PrivateMemory(k)} :
        freed' = [why |-> "complete", task |-> k, thread |-> t, words |-> StackMemory(t, k) \cup private]
  BY DEF TaskComplete, Recycle
<1>3. /\ freed'.task = k /\ freed'.thread = t /\ freed'.words = StackMemory(t, k) \cup private
  BY <1>2
<1> SUFFICES ASSUME k \notin Untied, stackBaseAddr[t] # Nil,
                    NEW a \in StackMemory(t, k) \cup private, a \in AllLocals'
             PROVE  FALSE
  <2>1. Untied' = Untied
    BY <1>1 DEF Untied
  <2> QED
    BY <1>1, <1>3, <2>1 DEF EndedIsDead
<1> DEFINE top == Len(stack[t])
<1>4. /\ stack[t] \in Seq(Tasks) /\ stack \in [Threads -> Seq(Tasks)] /\ top <= Levels
      /\ stackBaseAddr[t] = Base(t)
      /\ block \in [Tasks -> Blocks \cup {Nil}] /\ k \in Tasks
      /\ Levels \in Nat
  BY TaskNumbers, SizeAssumption DEF IInv, Typed
<1>5. /\ Len(stack'[t]) = top - 1 /\ top \in DOMAIN stack[t] /\ top \in Nat
      /\ stack'[t] = SubSeq(stack[t], 1, top - 1)
  BY <1>1, <1>4, Popped, LenProperties
<1>6. top \in 1..Levels
  BY <1>4, <1>5, LenProperties
<1>7. PICK u \in Threads, l \in 1..Levels : l <= Len(stack'[u]) /\ a = Local(u, l)
  BY DEF AllLocals, LocalsOf, FramesOf
<1>8. a \in Nat /\ Base(u) <= a /\ a <= Top(u)
  BY <1>7, FrameWords, StackWords
<1>9. a \notin Blocks
  BY <1>8, StackWords, SizeAssumption DEF Blocks
<1>10. a \in StackMemory(t, k)
  BY <1>4, <1>9 DEF PrivateMemory
<1>11. /\ Base(t) <= a /\ a <= exitFrame[k]
  BY <1>4, <1>10, StackWords, <1>8 DEF StackMemory
<1>12. exitFrame[k] # Nil
  BY <1>8, <1>11, StackWords, SizeAssumption DEF Nil
<1>13. exitFrame[k] = ExitFrame(t, top)
  <2>1. status[k] = "running"
    BY <1>1, <1>5 DEF IInv, Frames
  <2>2. PICK v \in Threads : \E i \in DOMAIN stack[v] : stack[v][i] = k /\ exitFrame[k] = ExitFrame(v, i)
    BY <1>12, <2>1 DEF IInv, TiedFrames
  <2> QED
    BY <1>1, <1>5, <2>2 DEF IInv, Frames
<1>14. a <= Top(t)
  BY <1>6, <1>8, <1>11, <1>13, FrameWords, StackWords
<1>15. u = t
  BY <1>8, <1>11, <1>14, OneStack
<1>16. l < top
  BY <1>5, <1>7, <1>15, <1>4
<1>17. ExitFrame(t, top) < Local(t, l)
  BY <1>6, <1>16, FrameWords
<1> QED
  BY <1>6, <1>7, <1>8, <1>11, <1>13, <1>15, <1>17, FrameWords

\* At the end of a tied task, on a thread whose stack is known, no task has a
\* variable in what is recycled: the exit frame that was remembered is that of
\* the frame that leaves, and all others lie above it.
THEOREM EndedIsDeadHolds == Spec => []EndedIsDead
<1>1. Init => EndedIsDead
  BY DEF Init, EndedIsDead, Nothing
<1>2. IInv /\ EndedIsDead /\ [Next]_vars => EndedIsDead'
  <2> SUFFICES ASSUME IInv, EndedIsDead, [Next]_vars PROVE EndedIsDead'
    OBVIOUS
  <2>1. CASE UNCHANGED vars
    BY <2>1 DEF vars, program, EndedIsDead, Untied, AllLocals, LocalsOf, FramesOf
  <2>2. CASE \E t \in Threads, k \in Explicit : TaskComplete(t, k)
    BY <2>2, EndIsDead
  <2>3. CASE \E t \in Threads : \/ ThreadBegin(t) \/ TaskWait(t)
                                \/ \E k \in Explicit : TaskCreate(t, k) \/ TaskStart(t, k) \/ TaskSwitchOut(t, k)
                                \/ \E write \in BOOLEAN : checkAccess(t, write)
    <3>1. freed' = Nothing => freed'.why # "complete"
      BY DEF Nothing
    <3>2. \A t, k : Recycle(t, k, "switch") \/ Recycle(t, k, "left") => freed'.why # "complete"
      BY DEF Recycle
    <3>3. \/ freed' = Nothing
          \/ \E t, k : Recycle(t, k, "switch") \/ Recycle(t, k, "left")
      BY <2>3 DEF ThreadBegin, TaskWait, TaskCreate, TaskStart, TaskSwitchOut, checkAccess
    <3>4. freed'.why # "complete"
      BY <3>1, <3>2, <3>3
    <3> QED
      BY <3>4 DEF EndedIsDead
  <2> QED
    BY <2>1, <2>2, <2>3 DEF Next
<1> QED
  BY SpecIInv, <1>1, <1>2, PTL DEF Spec
==============================================================================
