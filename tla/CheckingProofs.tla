----------------------------- MODULE CheckingProofs -----------------------------
(***************************************************************************)
(* The checks of any number of threads, for any tasks, dependences and     *)
(* bytes: who holds which lock, what the histories of the bytes say when   *)
(* the checks are over, and what the races add up to.                      *)
(***************************************************************************)
EXTENDS Checking, SequenceTheorems, FiniteSetTheorems, TLAPS

(* The invariant: places and types *)

\* A thread inside checkDataRace is in the queue of its byte; past the head of
\* the function it holds the byte's lock.
AtByte == {"slot", "loop", "search", "race", "list", "push", "flag"}
InLoop == AtByte \ {"slot"}
Places == AtByte \cup {"idle", "declare", "running", "next"}

Access == [task : Tasks, write : BOOLEAN]
ReportLine == [prev : Tasks, cur : Tasks, byte : Bytes]

Elems(s) == {s[i] : i \in DOMAIN s}

Typed == /\ setup \in Setups
         /\ mode \in setup.modes \cup {None}
         /\ task \in [Threads -> Tasks \cup {None}]
         /\ state \in [Tasks -> {"new", "created", "ready", "running", "done"}]
         /\ edges \subseteq DependsOn
         /\ queue \in [LockNames -> Seq(Threads)]
         /\ pc \in [Threads -> Places]
         /\ byte \in [Threads -> Nat] /\ last \in [Threads -> Nat]
         /\ write \in [Threads -> BOOLEAN]
         /\ it \in [Threads -> Nat] /\ skipAddCur \in [Threads -> BOOLEAN] /\ size \in [Threads -> Nat]
         /\ dup \in [Threads -> SUBSET (Bytes \X BOOLEAN)]
         /\ records \in [Bytes -> Seq(Access)] /\ raceFlag \in [Bytes -> BOOLEAN]
         /\ found \in BOOLEAN /\ num \in Nat
         /\ list \in Seq(ReportLine) /\ output \in Seq(ReportLine)
         /\ performed \in [Bytes -> SUBSET Access]

Busy(t) == pc[t] \notin {"idle", "declare"}

\* A thread that is not idle runs a task of its own; one that checks is at one of
\* its bytes, and one that writes to the list has read its size.
Placed == \A t \in Threads :
            /\ Busy(t) => /\ task[t] \in Tasks /\ state[task[t]] = "running"
                          /\ \A u \in Threads : Busy(u) /\ task[u] = task[t] => u = t
            /\ pc[t] \in AtByte \cup {"next"} => byte[t] \in Bytes /\ last[t] \in Bytes /\ byte[t] <= last[t]
            /\ pc[t] = "push" => size[t] = Len(list)
            /\ pc[t] = "declare" => t = Producer

-----------------------------------------------------------------------------
(* Locks *)

\* The locks a thread asked for and has not given up, and those it must hold.
Wants(t) == (IF pc[t] \in AtByte THEN {byte[t]} ELSE {})
            \cup (IF pc[t] \in {"search", "declare"} THEN {Region} ELSE {})
            \cup (IF pc[t] \in {"list", "push"} THEN {List} ELSE {})
Has(t) == (IF pc[t] \in InLoop THEN {byte[t]} ELSE {}) \cup (IF pc[t] = "push" THEN {List} ELSE {})

Queued(l) == /\ \A i, j \in DOMAIN queue[l] : queue[l][i] = queue[l][j] => i = j
             /\ \A t \in Threads : /\ t \in Elems(queue[l]) => l \in Wants(t)
                                   /\ l \in Has(t) => Holds(t, l)

Queues == \A l \in LockNames : Queued(l)

-----------------------------------------------------------------------------
(* The order of the tasks *)

StartedTask(k) == state[k] \in {"running", "done"}

Ordered(p, q) == PathIn(DependsOn, p, q)

InOrder == /\ \A k \in Tasks : StartedTask(k) => \A e \in DependsOn : e[2] = k => state[e[1]] = "done"
           /\ \A j, k \in Tasks : j < k /\ state[k] # "new" => state[j] \notin {"new", "created"}
           /\ \A b \in Bytes : \A i \in DOMAIN records[b] : StartedTask(records[b][i].task)
           /\ Answers = {2} => \A e \in DependsOn : state[e[2]] \notin {"new", "created"} => e \in edges

-----------------------------------------------------------------------------
(* The loop over the records of a byte *)

Covers(r, a) == Ordered(a.task, r.task) /\ (a.write => r.write)

\* What the loop has passed does not race with the access; if the access is to be
\* skipped, a record of its task stands for it.
LoopOf(t) == LET recs == records[byte[t]]
             IN  /\ ~raceFlag[byte[t]]
                 /\ it[t] \in 1..Len(recs) + 1
                 /\ \A i \in 1..it[t] - 1 : Ordered(recs[i].task, task[t]) \/ ~(recs[i].write \/ write[t])
                 /\ skipAddCur[t] => \E i \in 1..it[t] - 1 : /\ recs[i].task = task[t]
                                                             /\ write[t] => recs[i].write

Loops == \A t \in Threads :
           /\ pc[t] \in InLoop => LoopOf(t)
           /\ pc[t] \in InLoop \ {"loop"} => it[t] <= Len(records[byte[t]])
           /\ pc[t] \notin InLoop => ~skipAddCur[t]

\* DependentTasksSilent is about threads that are on their way to a report.
Unordered == \A t \in Threads : Answers = {2} /\ pc[t] = "race" => Race(Record(t), Current(t))

-----------------------------------------------------------------------------
(* What has been checked *)

\* The bytes whose check is still to come or under way
Pending(t) == IF pc[t] \in AtByte THEN byte[t]..last[t]
              ELSE IF pc[t] = "next" THEN byte[t] + 1..last[t]
              ELSE {}

\* The filter of its thread takes an access for one that has been checked.
Filtered(t, b, a) == /\ Busy(t) /\ task[t] = a.task
                     /\ <<b, a.write>> \in dup[t]
                     /\ ~(pc[t] \in InLoop /\ byte[t] = b /\ write[t] = a.write)

Settled(b) == {a \in performed[b] : \/ \A t \in Threads : ~(b \in Pending(t) /\ a = Current(t))
                                    \/ \E t \in Threads : Filtered(t, b, a)}

CoveredAt(b, a) == \/ \E i \in DOMAIN records[b] : Covers(records[b][i], a)
                   \/ \E t \in Threads : pc[t] \in InLoop /\ byte[t] = b /\ Covers(Current(t), a)

Checked == \A b \in Bytes : ~raceFlag[b] => /\ \A a \in Settled(b) : CoveredAt(b, a)
                                            /\ \A a, c \in Settled(b) : ~Race(a, c)

PendingMade == \A t \in Threads : \A b \in Pending(t) : Current(t) \in performed[b]

\* The filter of a thread that runs a task knows only what it has made.
FilteredMade == \A t \in Threads : \A d \in dup[t] : Busy(t) =>
               [task |-> task[t], write |-> d[2]] \in performed[d[1]]

-----------------------------------------------------------------------------
(* What is counted and listed *)

ByteOf(where) == {byte[t] : t \in {u \in Threads : pc[u] \in where}}

Counted == Flagged \cup ByteOf({"list", "push", "flag"})
Listed == Flagged \cup ByteOf({"flag"})

LinesFor(lines, bytes) == Len(lines) = Cardinality(bytes) /\ {lines[i].byte : i \in DOMAIN lines} = bytes

\* The counter and the lines are of the bytes that have a race.
Counts == num = Cardinality(Counted) /\ (~found => num = 0)
Lines == /\ \A t \in Threads : pc[t] \in {"list", "push"} => mode = "line"
         /\ mode = "line" => LinesFor(list, Listed) /\ (printed = None => output = <<>>)
         /\ mode = "runtime" => LinesFor(output, Counted)

\* Before the initialization and after the end nothing moves.
Idle == \A t \in Threads : pc[t] = "idle"
Before == mode = None => /\ num = 0 /\ output = <<>> /\ list = <<>>
                         /\ Idle /\ \A k \in Tasks : state[k] = "new"
After == printed # None => Idle /\ (\A k \in Tasks : state[k] = "done") /\ ReportAccounts

Accounts == Counts /\ Lines /\ Before /\ After

IInv == /\ Typed /\ Placed /\ Queues /\ InOrder /\ Loops /\ Unordered
        /\ PendingMade /\ FilteredMade /\ Checked /\ Accounts

-----------------------------------------------------------------------------
(* Paths *)

\* A path from p to q and one from q to r make one from p to r.
LEMMA OrderedReflexive ==
  ASSUME NEW p
  PROVE  Ordered(p, p)
BY DEF Ordered, PathIn

LEMMA OrderedTransitive ==
  ASSUME NEW p, NEW q, NEW r, Ordered(p, q), Ordered(q, r)
  PROVE  Ordered(p, r)
BY DEF Ordered, PathIn

\* What the graph of the region has so far is part of the whole.
LEMMA PathOrders ==
  ASSUME edges \subseteq DependsOn, NEW p, NEW q, hasPath(p, q)
  PROVE  Ordered(p, q)
BY DEF hasPath, Ordered, PathIn

LEMMA DependencesAreTasks ==
  ASSUME NEW e \in DependsOn
  PROVE  e[1] \in Tasks /\ e[2] \in Tasks /\ e[1] < e[2]
BY ProgramAssumption

\* The graph has every path to a task that has started, before anyone looks for it.
LEMMA OrderIsInGraph ==
  ASSUME InOrder, Answers = {2}, NEW p \in Tasks, NEW q \in Tasks, StartedTask(q), Ordered(p, q)
  PROVE  hasPath(p, q)
<1> SUFFICES ASSUME NEW S \in SUBSET Tasks, p \in S, \A e \in edges : e[1] \in S => e[2] \in S
             PROVE  q \in S
  BY DEF hasPath, PathIn
<1> DEFINE T == S \cup {k \in Tasks : state[k] \in {"new", "created"}}
<1>1. ASSUME NEW e \in DependsOn, e[1] \in T PROVE e[2] \in T
  <2>1. e[1] \in Tasks /\ e[2] \in Tasks /\ e[1] < e[2]
    BY DependencesAreTasks
  <2>2. CASE state[e[2]] \in {"new", "created"}
    BY <2>1, <2>2
  <2>3. CASE state[e[2]] \notin {"new", "created"}
    <3>1. e \in edges /\ state[e[1]] \notin {"new", "created"}
      BY <2>1, <2>3 DEF InOrder
    <3> QED
      BY <1>1, <3>1
  <2> QED
    BY <2>2, <2>3
<1>2. q \in T
  <2>1. T \in SUBSET Tasks /\ p \in T
    OBVIOUS
  <2> HIDE DEF T
  <2> QED
    BY <1>1, <2>1 DEF Ordered, PathIn
<1> QED
  BY <1>2 DEF StartedTask

\* No path leads from a task that runs to another one that has started.
LEMMA RunningIsBeforeNone ==
  ASSUME InOrder, NEW p \in Tasks, NEW q \in Tasks, state[p] = "running", StartedTask(q), Ordered(p, q)
  PROVE  p = q
<1> DEFINE T == {p} \cup {k \in Tasks : ~StartedTask(k)}
<1>1. ASSUME NEW e \in DependsOn, e[1] \in T PROVE e[2] \in T
  <2>1. e[1] \in Tasks /\ e[2] \in Tasks
    BY DependencesAreTasks
  <2>2. state[e[1]] # "done"
    BY <1>1 DEF StartedTask
  <2> QED
    BY <2>1, <2>2 DEF InOrder
<1>2. q \in T
  <2>1. T \in SUBSET Tasks /\ p \in T
    OBVIOUS
  <2> HIDE DEF T
  <2> QED
    BY <1>1, <2>1 DEF Ordered, PathIn
<1> QED
  BY <1>2

-----------------------------------------------------------------------------
(* Queues *)

LEMMA JoinElems ==
  ASSUME NEW S, NEW s \in Seq(S), NEW t \in S
  PROVE  /\ Append(s, t) \in Seq(S)
         /\ Elems(Append(s, t)) = Elems(s) \cup {t}
         /\ s # <<>> => Append(s, t) # <<>> /\ Head(Append(s, t)) = Head(s)
         /\ t \notin Elems(s) /\ (\A i, j \in DOMAIN s : s[i] = s[j] => i = j) =>
              \A i, j \in DOMAIN Append(s, t) : Append(s, t)[i] = Append(s, t)[j] => i = j
<1> DEFINE a == Append(s, t)
<1>1. /\ Len(s) \in Nat /\ DOMAIN s = 1..Len(s) /\ a \in Seq(S) /\ Len(a) = Len(s) + 1
      /\ DOMAIN a = 1..Len(s) + 1 /\ a[Len(s) + 1] = t /\ \A i \in 1..Len(s) : a[i] = s[i]
  BY AppendProperties, LenProperties
<1> HIDE DEF a
<1>2. \A i \in DOMAIN a : i \in DOMAIN s \/ i = Len(s) + 1
  BY <1>1
<1>3. Elems(a) = Elems(s) \cup {t}
  BY <1>1, <1>2 DEF Elems
<1>4. s # <<>> => a # <<>> /\ Head(a) = Head(s)
  <2> SUFFICES ASSUME s # <<>> PROVE a # <<>> /\ Head(a) = Head(s)
    OBVIOUS
  <2>1. Len(s) >= 1 /\ Head(s) = s[1]
    BY <1>1, EmptySeq
  <2>2. a # <<>> /\ Head(a) = a[1]
    BY <1>1, EmptySeq
  <2> QED
    BY <1>1, <2>1, <2>2
<1>5. t \notin Elems(s) /\ (\A i, j \in DOMAIN s : s[i] = s[j] => i = j) =>
        \A i, j \in DOMAIN a : a[i] = a[j] => i = j
  BY <1>1, <1>2 DEF Elems
<1> QED
  BY <1>1, <1>3, <1>4, <1>5 DEF a

LEMMA LeaveElems ==
  ASSUME NEW S, NEW s \in Seq(S), s # <<>>, \A i, j \in DOMAIN s : s[i] = s[j] => i = j
  PROVE  /\ Tail(s) \in Seq(S)
         /\ Elems(Tail(s)) = Elems(s) \ {Head(s)}
         /\ \A i, j \in DOMAIN Tail(s) : Tail(s)[i] = Tail(s)[j] => i = j
<1> DEFINE r == Tail(s)
<1>1. /\ Len(s) \in Nat /\ Len(s) >= 1 /\ DOMAIN s = 1..Len(s) /\ Head(s) = s[1]
      /\ r \in Seq(S) /\ Len(r) = Len(s) - 1 /\ DOMAIN r = 1..Len(s) - 1
      /\ \A i \in 1..Len(s) - 1 : r[i] = s[i + 1]
  BY HeadTailProperties, LenProperties, EmptySeq
<1> HIDE DEF r
<1>2. ASSUME NEW i \in DOMAIN r, NEW j \in DOMAIN r, r[i] = r[j] PROVE i = j
  <2>1. i + 1 \in DOMAIN s /\ j + 1 \in DOMAIN s /\ s[i + 1] = s[j + 1]
    BY <1>1, <1>2
  <2> QED
    BY <1>1, <2>1
<1>3. ASSUME NEW x \in Elems(r) PROVE x \in Elems(s) /\ x # Head(s)
  BY <1>1, <1>3 DEF Elems
<1>4. ASSUME NEW x \in Elems(s), x # Head(s) PROVE x \in Elems(r)
  <2>1. PICK i \in DOMAIN s : x = s[i]
    BY <1>4 DEF Elems
  <2>2. i - 1 \in DOMAIN r /\ (i - 1) + 1 = i
    BY <1>1, <1>4, <2>1
  <2> QED
    BY <1>1, <2>1, <2>2 DEF Elems
<1> QED
  BY <1>1, <1>2, <1>3, <1>4 DEF r

LEMMA LockNamesDistinct ==
  /\ Region \in LockNames /\ List \in LockNames /\ Bytes \subseteq LockNames
  /\ Region \notin Bytes /\ List \notin Bytes /\ Region # List
  /\ Bytes \subseteq Nat /\ \A b, c \in Bytes : b..c \subseteq Bytes
BY ProgramAssumption DEF Region, List, LockNames

\* The three ways the queues change, with the place of one thread.
OnlyAt(t) == \A u \in Threads \ {t} : pc'[u] = pc[u] /\ byte'[u] = byte[u]

LEMMA JoinQueues ==
  ASSUME Typed, Queues, NEW t \in Threads, NEW l \in LockNames, Join(t, l), OnlyAt(t),
         l \notin Wants(t), Wants(t)' = Wants(t) \cup {l}, Has(t)' \subseteq Has(t)
  PROVE  Queues'
<1> SUFFICES ASSUME NEW k \in LockNames PROVE Queued(k)'
  BY DEF Queues
<1>1. /\ queue[k] \in Seq(Threads) /\ queue[l] \in Seq(Threads)
      /\ Queued(k) /\ Queued(l)
      /\ \A u \in Threads \ {t} : Wants(u)' = Wants(u) /\ Has(u)' = Has(u)
      /\ queue'[k] = IF k = l THEN Append(queue[l], t) ELSE queue[k]
  BY DEF Typed, Queues, OnlyAt, Wants, Has, Join
<1>2. CASE k # l
  <2>1. queue'[k] = queue[k]
    BY <1>1, <1>2
  <2>2. ASSUME NEW u \in Threads PROVE /\ u \in Elems(queue'[k]) => k \in Wants(u)'
                                       /\ k \in Has(u)' => Holds(u, k)'
    BY <1>1, <2>1 DEF Queued, Holds
  <2> QED
    BY <1>1, <2>1, <2>2 DEF Queued
<1>3. CASE k = l
  <2> DEFINE s == queue[l]
  <2>1. /\ Elems(Append(s, t)) = Elems(s) \cup {t}
        /\ s # <<>> => Append(s, t) # <<>> /\ Head(Append(s, t)) = Head(s)
        /\ \A i, j \in DOMAIN Append(s, t) : Append(s, t)[i] = Append(s, t)[j] => i = j
    <3>1. t \notin Elems(s) /\ \A i, j \in DOMAIN s : s[i] = s[j] => i = j
      BY <1>1 DEF Queued
    <3> QED
      BY <1>1, <3>1, JoinElems
  <2>2. ASSUME NEW u \in Threads PROVE /\ u \in Elems(queue'[l]) => l \in Wants(u)'
                                       /\ l \in Has(u)' => Holds(u, l)'
    <3>1. queue'[l] = Append(s, t)
      BY <1>1, <1>3
    <3>2. u \in Elems(queue'[l]) => u \in Elems(s) \/ u = t
      BY <2>1, <3>1
    <3>3. l \in Has(u) => Holds(u, l)'
      BY <1>1, <2>1, <3>1 DEF Queued, Holds
    <3>4. CASE u = t
      BY <3>3, <3>4
    <3>5. CASE u # t
      BY <1>1, <3>2, <3>3, <3>5 DEF Queued
    <3> QED
      BY <3>4, <3>5
  <2> QED
    BY <1>1, <1>3, <2>1, <2>2 DEF Queued
<1> QED
  BY <1>2, <1>3

LEMMA LeaveQueues ==
  ASSUME Typed, Queues, NEW t \in Threads, NEW l \in LockNames, Leave(t, l), Holds(t, l), OnlyAt(t),
         Wants(t) \ {l} \subseteq Wants(t)', Has(t)' \subseteq Has(t) \ {l}
  PROVE  Queues'
<1> SUFFICES ASSUME NEW k \in LockNames PROVE Queued(k)'
  BY DEF Queues
<1>1. /\ queue[k] \in Seq(Threads) /\ queue[l] \in Seq(Threads)
      /\ Queued(k) /\ Queued(l)
      /\ \A u \in Threads \ {t} : Wants(u)' = Wants(u) /\ Has(u)' = Has(u)
      /\ queue'[k] = IF k = l THEN Tail(queue[l]) ELSE queue[k]
  BY DEF Typed, Queues, OnlyAt, Wants, Has, Leave
<1>2. CASE k # l
  <2>1. queue'[k] = queue[k]
    BY <1>1, <1>2
  <2>2. ASSUME NEW u \in Threads PROVE /\ u \in Elems(queue'[k]) => k \in Wants(u)'
                                       /\ k \in Has(u)' => Holds(u, k)'
    BY <1>1, <1>2, <2>1 DEF Queued, Holds
  <2> QED
    BY <1>1, <2>1, <2>2 DEF Queued
<1>3. CASE k = l
  <2> DEFINE s == queue[l]
  <2>1. /\ Elems(Tail(s)) = Elems(s) \ {t}
        /\ \A i, j \in DOMAIN Tail(s) : Tail(s)[i] = Tail(s)[j] => i = j
    <3>1. s # <<>> /\ Head(s) = t /\ \A i, j \in DOMAIN s : s[i] = s[j] => i = j
      BY <1>1 DEF Queued, Holds
    <3> QED
      BY <1>1, <3>1, LeaveElems
  <2>2. ASSUME NEW u \in Threads PROVE /\ u \in Elems(queue'[l]) => l \in Wants(u)'
                                       /\ l \notin Has(u)'
    <3>1. l \in Has(u) => u = t
      BY <1>1 DEF Queued, Holds
    <3> QED
      BY <1>1, <1>3, <2>1, <3>1 DEF Queued
  <2> QED
    BY <1>1, <1>3, <2>1, <2>2 DEF Queued
<1> QED
  BY <1>2, <1>3

LEMMA KeepQueues ==
  ASSUME Typed, Queues, NEW t \in Threads, queue' = queue, OnlyAt(t),
         Wants(t) \subseteq Wants(t)', \A l \in Has(t)' : l \in Has(t) \/ Holds(t, l)
  PROVE  Queues'
<1> SUFFICES ASSUME NEW k \in LockNames PROVE Queued(k)'
  BY DEF Queues
<1>1. Queued(k) /\ \A u \in Threads \ {t} : Wants(u)' = Wants(u) /\ Has(u)' = Has(u)
  BY DEF Queues, OnlyAt, Wants, Has
<1>2. ASSUME NEW u \in Threads PROVE /\ u \in Elems(queue'[k]) => k \in Wants(u)'
                                     /\ k \in Has(u)' => Holds(u, k)'
  BY <1>1 DEF Queued, Holds
<1> QED
  BY <1>1, <1>2 DEF Queued

\* One thread at a time is past the head of checkDataRace for one byte.
LEMMA OneAtByte ==
  ASSUME Placed, Queues, NEW t \in Threads, NEW u \in Threads,
         pc[t] \in InLoop, pc[u] \in InLoop, byte[t] = byte[u]
  PROVE  t = u
<1>1. byte[t] \in LockNames /\ byte[t] \in Has(t) /\ byte[t] \in Has(u)
  BY LockNamesDistinct DEF Placed, Busy, Has, InLoop
<1> QED
  BY <1>1 DEF Queues, Queued, Holds

-----------------------------------------------------------------------------
(* Types and places *)

\* The elements behind the one that is removed move up by one.
Without(s, i) == SubSeq(s, 1, i - 1) \o SubSeq(s, i + 1, Len(s))

LEMMA WithoutProperties ==
  ASSUME NEW S, NEW s \in Seq(S), NEW i \in 1..Len(s)
  PROVE  /\ Without(s, i) \in Seq(S)
         /\ Len(Without(s, i)) = Len(s) - 1
         /\ \A j \in 1..i - 1 : j \in DOMAIN Without(s, i) /\ Without(s, i)[j] = s[j]
         /\ Elems(Without(s, i)) \subseteq Elems(s) /\ Elems(s) \subseteq Elems(Without(s, i)) \cup {s[i]}
<1> DEFINE front == SubSeq(s, 1, i - 1)
           back == SubSeq(s, i + 1, Len(s))
           r == Without(s, i)
<1>1. Len(s) \in Nat /\ i \in Int /\ \A j \in 1..Len(s) : s[j] \in S
  BY LenProperties, ElementOfSeq
<1>2. /\ front \in Seq(S) /\ Len(front) = i - 1
      /\ \A j \in 1..i - 1 : front[j] = s[j]
  <2>1. \A j \in 1..i - 1 : s[j] \in S
    BY <1>1
  <2>2. /\ front \in Seq(S) /\ Len(front) = IF 1 <= i - 1 THEN i - 1 - 1 + 1 ELSE 0
        /\ \A j \in 1..i - 1 - 1 + 1 : front[j] = s[1 + j - 1]
    BY <1>1, <2>1, SubSeqProperties
  <2> HIDE DEF front
  <2> QED
    BY <1>1, <2>2
<1>3. /\ back \in Seq(S) /\ Len(back) = Len(s) - i
      /\ \A j \in 1..Len(s) - i : back[j] = s[i + j]
  <2>1. \A j \in i + 1..Len(s) : s[j] \in S
    BY <1>1
  <2>2. /\ back \in Seq(S) /\ Len(back) = IF i + 1 <= Len(s) THEN Len(s) - (i + 1) + 1 ELSE 0
        /\ \A j \in 1..Len(s) - (i + 1) + 1 : back[j] = s[(i + 1) + j - 1]
    BY <1>1, <2>1, SubSeqProperties
  <2> HIDE DEF back
  <2>3. \A j \in 1..Len(s) - i : j \in 1..Len(s) - (i + 1) + 1 /\ (i + 1) + j - 1 = i + j
    BY <1>1
  <2> QED
    BY <1>1, <2>2, <2>3
<1>4. r = front \o back
  BY DEF Without
<1> HIDE DEF front, back
<1>5. /\ front \o back \in Seq(S) /\ Len(front \o back) = Len(front) + Len(back)
      /\ \A j \in 1..Len(front) + Len(back) :
           (front \o back)[j] = IF j <= Len(front) THEN front[j] ELSE back[j - Len(front)]
  BY <1>2, <1>3, ConcatProperties
<1> HIDE DEF r
<1>6. r \in Seq(S) /\ Len(r) = Len(s) - 1 /\ DOMAIN r = 1..Len(s) - 1 /\ DOMAIN s = 1..Len(s)
  BY <1>1, <1>2, <1>3, <1>4, <1>5, LenProperties
<1>7. \A j \in 1..i - 1 : j \in DOMAIN r /\ r[j] = s[j]
  BY <1>1, <1>2, <1>3, <1>4, <1>5, <1>6
<1>8. ASSUME NEW j \in i + 1..Len(s) PROVE j - 1 \in DOMAIN r /\ r[j - 1] = s[j]
  <2>1. /\ j - 1 \in 1..Len(front) + Len(back) /\ ~(j - 1 <= Len(front))
        /\ (j - 1) - Len(front) = j - i /\ j - i \in 1..Len(s) - i /\ i + (j - i) = j
    BY <1>1, <1>2, <1>3
  <2>2. r[j - 1] = back[j - i] /\ back[j - i] = s[j]
    BY <1>3, <1>4, <1>5, <2>1
  <2> QED
    BY <1>1, <1>6, <2>2
<1>9. ASSUME NEW x \in Elems(s) PROVE x \in Elems(r) \cup {s[i]}
  <2>1. PICK j \in 1..Len(s) : x = s[j]
    BY <1>6 DEF Elems
  <2>2. j \in 1..i - 1 \/ j = i \/ j \in i + 1..Len(s)
    BY <1>1
  <2> QED
    BY <1>7, <1>8, <2>1, <2>2 DEF Elems
<1>10. ASSUME NEW x \in Elems(r) PROVE x \in Elems(s)
  <2>1. PICK j \in 1..Len(s) - 1 : x = r[j]
    BY <1>6 DEF Elems
  <2>2. j \in 1..i - 1 \/ j + 1 \in i + 1..Len(s)
    BY <1>1
  <2>3. CASE j \in 1..i - 1
    BY <1>1, <1>6, <1>7, <2>1, <2>3 DEF Elems
  <2>4. CASE j + 1 \in i + 1..Len(s)
    <3>1. (j + 1) - 1 = j /\ j + 1 \in DOMAIN s
      BY <1>1, <1>6, <2>4
    <3> QED
      BY <1>8, <2>1, <2>4, <3>1 DEF Elems
  <2> QED
    BY <2>2, <2>3, <2>4
<1> QED
  BY <1>6, <1>7, <1>9, <1>10 DEF r

\* What becomes of the record at hand.
Erases(t) == /\ records' = [records EXCEPT ![byte[t]] = Without(@, it[t])]
             /\ Record(t).write => write[t]
             /\ UNCHANGED <<it, skipAddCur>>
Passes(t) == /\ it' = [it EXCEPT ![t] = @ + 1]
             /\ skipAddCur' = [skipAddCur EXCEPT ![t] = @ \/ Record(t).task = task[t]]
             /\ UNCHANGED records

LEMMA ManageCases ==
  ASSUME NEW t \in Threads, NEW before, Manage(t, before)
  PROVE  \/ before /\ Erases(t)
         \/ ~(before /\ (Record(t).write => write[t])) /\ Passes(t)
BY DEF Manage, Erases, Passes, Without, Record

LEMMA AtRecordIs ==
  ASSUME Typed, Placed, Loops, NEW t \in Threads,
         AtRecord(t) \/ pc[t] \in InLoop \ {"loop"}
  PROVE  /\ byte[t] \in Bytes /\ task[t] \in Tasks /\ Current(t) \in Access
         /\ records[byte[t]] \in Seq(Access) /\ Len(records[byte[t]]) \in Nat
         /\ DOMAIN records[byte[t]] = 1..Len(records[byte[t]])
         /\ it[t] \in 1..Len(records[byte[t]]) /\ Record(t) \in Access
         /\ Report(t) \in ReportLine
<1>1. pc[t] \in InLoop
  BY DEF AtRecord, InLoop, AtByte
<1>2. byte[t] \in Bytes /\ task[t] \in Tasks /\ write[t] \in BOOLEAN
  BY <1>1 DEF Placed, Busy, InLoop, AtByte, Typed
<1>3. /\ records[byte[t]] \in Seq(Access) /\ Len(records[byte[t]]) \in Nat
      /\ DOMAIN records[byte[t]] = 1..Len(records[byte[t]])
  BY <1>2, LenProperties DEF Typed
<1>4. it[t] \in 1..Len(records[byte[t]])
  BY <1>1, <1>3 DEF Loops, LoopOf, AtRecord
<1>5. Record(t) \in Access
  BY <1>3, <1>4, ElementOfSeq DEF Record
<1> QED
  BY <1>2, <1>3, <1>4, <1>5 DEF Current, Access, Report, ReportLine

LEMMA TypedManage ==
  ASSUME Typed, Placed, Loops, NEW t \in Threads, NEW before, Manage(t, before),
         AtRecord(t) \/ pc[t] \in InLoop \ {"loop"}
  PROVE  /\ records' \in [Bytes -> Seq(Access)] /\ it' \in [Threads -> Nat]
         /\ skipAddCur' \in [Threads -> BOOLEAN]
<1>1. /\ byte[t] \in Bytes /\ records[byte[t]] \in Seq(Access) /\ it[t] \in 1..Len(records[byte[t]])
  BY AtRecordIs
<1>2. CASE Erases(t)
  <2>1. Without(records[byte[t]], it[t]) \in Seq(Access)
    BY <1>1, WithoutProperties
  <2> QED
    BY <1>1, <1>2, <2>1 DEF Erases, Typed
<1>3. CASE Passes(t)
  BY <1>3 DEF Passes, Typed
<1> QED
  BY <1>2, <1>3, ManageCases

\* A vector that nobody else writes to has the size that was read.
LEMMA WholeList ==
  ASSUME Typed, Placed, NEW t \in Threads, pc[t] = "push"
  PROVE  SubSeq(list, 1, size[t]) = list /\ list \in Seq(ReportLine)
<1>1. size[t] = Len(list) /\ list \in Seq(ReportLine) /\ Len(list) \in Nat
  BY LenProperties DEF Placed, Busy, Typed
<1>2. \A i \in 1..Len(list) : list[i] \in ReportLine
  BY <1>1, ElementOfSeq
<1>3. /\ SubSeq(list, 1, Len(list)) \in Seq(ReportLine)
      /\ Len(SubSeq(list, 1, Len(list))) = Len(list)
      /\ \A i \in 1..Len(list) : SubSeq(list, 1, Len(list))[i] = list[i]
  <2>1. /\ SubSeq(list, 1, Len(list)) \in Seq(ReportLine)
        /\ Len(SubSeq(list, 1, Len(list))) = IF 1 <= Len(list) THEN Len(list) - 1 + 1 ELSE 0
        /\ \A i \in 1..Len(list) - 1 + 1 : SubSeq(list, 1, Len(list))[i] = list[1 + i - 1]
    BY <1>1, <1>2, SubSeqProperties
  <2> QED
    BY <1>1, <2>1
<1> QED
  BY <1>1, <1>3, SeqEqual

\* The bytes of an access are all there.
LEMMA ByteAfter ==
  ASSUME Placed, NEW t \in Threads, pc[t] = "next", byte[t] < last[t]
  PROVE  byte[t] + 1 \in Bytes /\ last[t] \in Bytes /\ byte[t] + 1 <= last[t]
<1>1. byte[t] \in Bytes /\ last[t] \in Bytes
  BY DEF Placed
<1>2. byte[t] \in Nat /\ last[t] \in Nat /\ byte[t]..last[t] \subseteq Bytes
  BY <1>1, LockNamesDistinct
<1>3. byte[t] + 1 \in byte[t]..last[t]
  BY <1>2
<1> QED
  BY <1>1, <1>2, <1>3

LEMMA QueueTypes ==
  ASSUME Typed, NEW l \in LockNames, NEW t \in Threads
  PROVE  /\ Join(t, l) => queue' \in [LockNames -> Seq(Threads)]
         /\ Leave(t, l) /\ Holds(t, l) => queue' \in [LockNames -> Seq(Threads)]
<1>1. queue[l] \in Seq(Threads) /\ queue \in [LockNames -> Seq(Threads)]
  BY DEF Typed
<1>2. Append(queue[l], t) \in Seq(Threads)
  BY <1>1, AppendProperties
<1>3. queue[l] # <<>> => Tail(queue[l]) \in Seq(Threads)
  BY <1>1, HeadTailProperties
<1> QED
  BY <1>1, <1>2, <1>3 DEF Join, Leave, Holds

LEMMA TypedProgram ==
  ASSUME Typed, Placed, Queues, Loops,
         \/ omptInitialize \/ omptFinalize
         \/ \E k \in Tasks : CreateTask(k) \/ Dependences(k) \/ AddDeps(k)
         \/ \E t \in Threads : EndTask(t) \/ \E k \in Tasks : StartTask(t, k)
  PROVE  Typed'
<1> USE DEF program, locals, races, Places
<1>1. CASE omptInitialize
  BY <1>1 DEF omptInitialize, Typed
<1>2. CASE omptFinalize
  <2>1. output \o list \in Seq(ReportLine)
    BY ConcatProperties DEF Typed
  <2> QED
    BY <1>2, <2>1 DEF omptFinalize, Typed
<1>3. ASSUME NEW k \in Tasks, CreateTask(k) PROVE Typed'
  BY <1>3 DEF CreateTask, Typed
<1>4. ASSUME NEW k \in Tasks, Dependences(k) PROVE Typed'
  <2>1. Producer \in Threads /\ (Join(Producer, Region) => queue' \in [LockNames -> Seq(Threads)])
    BY QueueTypes, LockNamesDistinct, ProgramAssumption
  <2> QED
    BY <1>4, <2>1 DEF Dependences, Goto, Typed
<1>5. ASSUME NEW k \in Tasks, AddDeps(k) PROVE Typed'
  <2>1. Producer \in Threads
        /\ (Leave(Producer, Region) /\ Holds(Producer, Region) => queue' \in [LockNames -> Seq(Threads)])
    BY QueueTypes, LockNamesDistinct, ProgramAssumption
  <2> QED
    BY <1>5, <2>1 DEF AddDeps, Goto, Typed
<1>6. ASSUME NEW t \in Threads, EndTask(t) PROVE Typed'
  BY <1>6 DEF EndTask, Goto, Typed
<1>7. ASSUME NEW t \in Threads, NEW k \in Tasks, StartTask(t, k) PROVE Typed'
  BY <1>7 DEF StartTask, Goto, Typed
<1> QED
  BY <1>1, <1>2, <1>3, <1>4, <1>5, <1>6, <1>7

LEMMA TypedBytes ==
  ASSUME Typed, Placed, Queues, Loops, NEW t \in Threads,
         \/ \E first, end \in Bytes, w \in BOOLEAN : first <= end /\ checkAccess(t, first, end, w)
         \/ NextByte(t) \/ EnterSlot(t)
  PROVE  Typed'
<1> USE DEF program, locals, races, Places, AtByte
<1>1. ASSUME NEW first \in Bytes, NEW end \in Bytes, NEW w \in BOOLEAN, checkAccess(t, first, end, w)
      PROVE  Typed'
  <2>1. Join(t, first) => queue' \in [LockNames -> Seq(Threads)]
    BY QueueTypes, LockNamesDistinct
  <2>2. first \in Nat /\ end \in Nat
    BY ProgramAssumption
  <2>3. [task |-> task[t], write |-> w] \in Access
    BY <1>1 DEF checkAccess, Placed, Busy, Access
  <2>4. performed' \in [Bytes -> SUBSET Access]
    <3>1. \/ performed' = performed
          \/ performed' = [b \in Bytes |-> IF b \in first..end
                                           THEN performed[b] \cup {[task |-> task[t], write |-> w]}
                                           ELSE performed[b]]
      BY <1>1 DEF checkAccess
    <3>2. performed \in [Bytes -> SUBSET Access]
      BY DEF Typed
    <3> QED
      BY <2>3, <3>1, <3>2
  <2>5. byte' \in [Threads -> Nat] /\ last' \in [Threads -> Nat] /\ write' \in [Threads -> BOOLEAN]
    BY <1>1, <2>2 DEF checkAccess, Typed
  <2>6. queue' \in [LockNames -> Seq(Threads)]
    BY <1>1, <2>1 DEF checkAccess, Typed
  <2>7. pc' \in [Threads -> Places]
    <3>1. pc' = pc \/ pc' = [pc EXCEPT ![t] = "slot"]
      BY <1>1 DEF checkAccess, Goto
    <3> QED
      BY <3>1 DEF Typed
  <2> QED
    BY <1>1, <2>4, <2>5, <2>6, <2>7 DEF checkAccess, Typed
<1>2. CASE NextByte(t)
  <2>1. byte[t] < last[t] => byte[t] + 1 \in Bytes
    BY <1>2, ByteAfter DEF NextByte
  <2>2. queue' \in [LockNames -> Seq(Threads)]
    BY <1>2, <2>1, QueueTypes, LockNamesDistinct DEF NextByte, Typed
  <2>3. byte' \in [Threads -> Nat] /\ last' \in [Threads -> Nat] /\ write' \in [Threads -> BOOLEAN]
    <3>1. \/ byte' = [byte EXCEPT ![t] = @ + 1] /\ UNCHANGED <<last, write>>
          \/ /\ byte' = [byte EXCEPT ![t] = 0] /\ last' = [last EXCEPT ![t] = 0]
             /\ write' = [write EXCEPT ![t] = FALSE]
      BY <1>2 DEF NextByte
    <3>2. byte \in [Threads -> Nat] /\ last \in [Threads -> Nat] /\ write \in [Threads -> BOOLEAN]
      BY DEF Typed
    <3>3. byte' \in [Threads -> Nat]
      <4>1. byte[t] + 1 \in Nat
        BY <3>2
      <4> QED
        BY <3>1, <3>2, <4>1
    <3>4. last' \in [Threads -> Nat]
      BY <3>1, <3>2
    <3>5. write' \in [Threads -> BOOLEAN]
      <4>1. write' = write \/ write' = [write EXCEPT ![t] = FALSE]
        BY <3>1
      <4> QED
        BY <3>2, <4>1
    <3> QED
      BY <3>3, <3>4, <3>5
  <2>4. pc' \in [Threads -> Places]
    <3>1. pc' = [pc EXCEPT ![t] = "slot"] \/ pc' = [pc EXCEPT ![t] = "running"]
      BY <1>2 DEF NextByte, Goto
    <3> QED
      BY <3>1 DEF Typed
  <2> QED
    BY <1>2, <2>2, <2>3, <2>4 DEF NextByte, Typed
<1>3. CASE EnterSlot(t)
  <2>1. byte[t] \in Bytes /\ task[t] \in Tasks /\ Current(t) \in Access /\ write[t] \in BOOLEAN
    BY <1>3 DEF EnterSlot, Placed, Busy, Current, Access, Typed
  <2>2. Return(t) => queue' \in [LockNames -> Seq(Threads)]
    BY <1>3, <2>1, QueueTypes, LockNamesDistinct DEF EnterSlot, Return
  <2>3. <<Current(t)>> \in Seq(Access) /\ <<>> \in Seq(Access)
    BY <2>1
  <2>4. dup' \in [Threads -> SUBSET (Bytes \X BOOLEAN)]
    BY <1>3, <2>1 DEF EnterSlot, Typed
  <2>5. records' \in [Bytes -> Seq(Access)]
    BY <1>3, <2>3 DEF EnterSlot, Typed
  <2>6. pc' \in [Threads -> Places]
    BY <1>3 DEF EnterSlot, Return, Goto, Typed
  <2>7. it' \in [Threads -> Nat]
    BY <1>3 DEF EnterSlot, Typed
  <2>8. queue' \in [LockNames -> Seq(Threads)]
    BY <1>3, <2>2 DEF EnterSlot, Typed
  <2> QED
    BY <1>3, <2>4, <2>5, <2>6, <2>7, <2>8 DEF EnterSlot, Typed
<1> QED
  BY <1>1, <1>2, <1>3

LEMMA TypedLoop ==
  ASSUME Typed, Placed, Queues, Loops, NEW t \in Threads,
         \/ SameTask(t) \/ AskRegion(t) \/ SearchPath(t) \/ CountRace(t) \/ ListSize(t) \/ PushRace(t)
         \/ SetFlag(t) \/ EndLoop(t)
  PROVE  Typed'
<1> USE DEF program, locals, races, Places, AtByte, InLoop
<1>0. Region \in LockNames /\ List \in LockNames /\ Bytes \subseteq LockNames
  BY LockNamesDistinct
<1>1. CASE SameTask(t)
  <2>1. Manage(t, TRUE) /\ AtRecord(t)
    BY <1>1 DEF SameTask
  <2> QED
    BY <1>1, <2>1, TypedManage DEF SameTask, Typed
<1>2. CASE AskRegion(t)
  <2>1. AtRecord(t)
    BY <1>2 DEF AskRegion
  <2>2. \/ UNCHANGED <<records, it, skipAddCur>>
        \/ Manage(t, FALSE)
    BY <1>2 DEF AskRegion
  <2>3. records' \in [Bytes -> Seq(Access)] /\ it' \in [Threads -> Nat] /\ skipAddCur' \in [Threads -> BOOLEAN]
    BY <2>1, <2>2, TypedManage DEF Typed
  <2>4. queue' \in [LockNames -> Seq(Threads)] /\ pc' \in [Threads -> Places]
    BY <1>0, <1>2, QueueTypes DEF AskRegion, Goto, Typed
  <2> QED
    BY <1>2, <2>3, <2>4 DEF AskRegion, Typed
<1>3. CASE SearchPath(t)
  <2>1. pc[t] \in InLoop \ {"loop"}
    BY <1>3 DEF SearchPath
  <2>2. \/ UNCHANGED <<records, it, skipAddCur>>
        \/ \E before \in BOOLEAN : Manage(t, before)
    BY <1>3 DEF SearchPath, hasPath, PathIn
  <2>3. records' \in [Bytes -> Seq(Access)] /\ it' \in [Threads -> Nat] /\ skipAddCur' \in [Threads -> BOOLEAN]
    BY <2>1, <2>2, TypedManage DEF Typed
  <2>4. queue' \in [LockNames -> Seq(Threads)] /\ pc' \in [Threads -> Places]
    BY <1>0, <1>3, QueueTypes DEF SearchPath, Goto, Typed
  <2> QED
    BY <1>3, <2>3, <2>4 DEF SearchPath, Typed
<1>4. CASE CountRace(t)
  <2>1. Report(t) \in ReportLine /\ output \in Seq(ReportLine)
    BY <1>4, AtRecordIs DEF CountRace, Typed
  <2>2. Append(output, Report(t)) \in Seq(ReportLine)
    BY <2>1, AppendProperties
  <2>3. queue' \in [LockNames -> Seq(Threads)] /\ pc' \in [Threads -> Places]
    BY <1>0, <1>4, QueueTypes DEF CountRace, Goto, Typed
  <2>4. output' \in Seq(ReportLine) /\ num' \in Nat /\ found' \in BOOLEAN
    <3>1. /\ output' = output \/ output' = Append(output, Report(t))
          /\ num' = num + 1 /\ found' = TRUE
      BY <1>4 DEF CountRace
    <3>2. num \in Nat /\ output \in Seq(ReportLine)
      BY DEF Typed
    <3> QED
      BY <2>2, <3>1, <3>2
  <2> QED
    BY <1>4, <2>3, <2>4 DEF CountRace, Typed
<1>5. CASE ListSize(t)
  <2>1. Len(list) \in Nat
    BY LenProperties DEF Typed
  <2> QED
    BY <1>5, <2>1 DEF ListSize, Goto, Typed
<1>6. CASE PushRace(t)
  <2>1. Report(t) \in ReportLine
    BY <1>6, AtRecordIs DEF PushRace
  <2>2. Append(SubSeq(list, 1, size[t]), Report(t)) \in Seq(ReportLine)
    <3>1. SubSeq(list, 1, size[t]) = list /\ list \in Seq(ReportLine)
      BY <1>6, WholeList DEF PushRace
    <3> QED
      BY <2>1, <3>1, AppendProperties
  <2>3. queue' \in [LockNames -> Seq(Threads)]
    BY <1>0, <1>6, QueueTypes DEF PushRace
  <2> QED
    BY <1>6, <2>2, <2>3 DEF PushRace, Goto, Typed
<1>7. CASE SetFlag(t) \/ EndLoop(t)
  <2>1. pc[t] \in InLoop /\ AddCurrent(t)
    BY <1>7 DEF SetFlag, EndLoop
  <2>2. byte[t] \in Bytes /\ task[t] \in Tasks /\ Current(t) \in Access
    BY <2>1 DEF Placed, Busy, Current, Access, Typed
  <2>3. Append(records[byte[t]], Current(t)) \in Seq(Access)
    BY <2>2, AppendProperties DEF Typed
  <2>4. Holds(t, byte[t])
    BY <1>0, <2>1, <2>2 DEF Queues, Queued, Has
  <2>5. queue' \in [LockNames -> Seq(Threads)]
    BY <1>0, <2>1, <2>2, <2>4, QueueTypes DEF AddCurrent, Return
  <2>6. records' \in [Bytes -> Seq(Access)] /\ it' \in [Threads -> Nat] /\ skipAddCur' \in [Threads -> BOOLEAN]
        /\ pc' \in [Threads -> Places]
    BY <2>1, <2>3 DEF AddCurrent, Return, Goto, Typed
  <2> QED
    BY <1>7, <2>2, <2>5, <2>6 DEF SetFlag, EndLoop, Typed
<1> QED
  BY <1>1, <1>2, <1>3, <1>4, <1>5, <1>6, <1>7

LEMMA TypedStep ==
  ASSUME Typed, Placed, Queues, Loops, [Next]_vars
  PROVE  Typed'
<1>1. CASE UNCHANGED vars
  BY <1>1 DEF vars, program, locals, races, Typed
<1> QED
  BY <1>1, TypedProgram, TypedBytes, TypedLoop DEF Next, Proceed

-----------------------------------------------------------------------------
(* One thread at a time *)

\* The actions of a thread; those of nobody in particular are the producer's.
StepOf(t) ==
  \/ t = Producer /\ (omptInitialize \/ omptFinalize \/ UNCHANGED vars)
  \/ t = Producer /\ \E k \in Tasks : CreateTask(k) \/ Dependences(k) \/ AddDeps(k)
  \/ EndTask(t) \/ \E k \in Tasks : StartTask(t, k)
  \/ \E first, end \in Bytes, w \in BOOLEAN : first <= end /\ checkAccess(t, first, end, w)
  \/ NextByte(t) \/ EnterSlot(t) \/ SameTask(t) \/ AskRegion(t) \/ SearchPath(t)
  \/ CountRace(t) \/ ListSize(t) \/ PushRace(t) \/ SetFlag(t) \/ EndLoop(t)

LEMMA StepCases ==
  ASSUME [Next]_vars
  PROVE  \E t \in Threads : StepOf(t)
<1>1. Producer \in Threads
  BY ProgramAssumption
<1> QED
  BY <1>1 DEF Next, Proceed, StepOf

\* What is another thread's own stays as it is.
Others(t) == \A u \in Threads \ {t} :
               /\ pc'[u] = pc[u] /\ byte'[u] = byte[u] /\ last'[u] = last[u] /\ write'[u] = write[u]
               /\ task'[u] = task[u] /\ dup'[u] = dup[u]
               /\ it'[u] = it[u] /\ skipAddCur'[u] = skipAddCur[u] /\ size'[u] = size[u]

LEMMA OthersStay ==
  ASSUME Typed, NEW t \in Threads, StepOf(t)
  PROVE  Others(t)
<1> USE DEF program, locals
<1>1. ASSUME NEW u \in Threads \ {t}
      PROVE  pc'[u] = pc[u]
  BY DEF StepOf, Typed, vars, omptInitialize, omptFinalize, CreateTask, Dependences, AddDeps, EndTask, StartTask,
     checkAccess, NextByte, EnterSlot, SameTask, AskRegion, SearchPath, CountRace, ListSize, PushRace,
     SetFlag, EndLoop, AddCurrent, Return, Goto
<1>2. ASSUME NEW u \in Threads \ {t}
      PROVE  byte'[u] = byte[u] /\ last'[u] = last[u] /\ write'[u] = write[u]
  BY DEF StepOf, Typed, vars, omptInitialize, omptFinalize, CreateTask, Dependences, AddDeps, EndTask, StartTask,
     checkAccess, NextByte, EnterSlot, SameTask, AskRegion, SearchPath, CountRace, ListSize, PushRace,
     SetFlag, EndLoop
<1>3. ASSUME NEW u \in Threads \ {t}
      PROVE  task'[u] = task[u] /\ dup'[u] = dup[u] /\ size'[u] = size[u]
  BY DEF StepOf, Typed, vars, omptInitialize, omptFinalize, CreateTask, Dependences, AddDeps, EndTask, StartTask,
     checkAccess, NextByte, EnterSlot, SameTask, AskRegion, SearchPath, CountRace, ListSize, PushRace,
     SetFlag, EndLoop
<1>4. ASSUME NEW u \in Threads \ {t}
      PROVE  it'[u] = it[u] /\ skipAddCur'[u] = skipAddCur[u]
  BY DEF StepOf, Typed, vars, omptInitialize, omptFinalize, CreateTask, Dependences, AddDeps, EndTask, StartTask,
     checkAccess, NextByte, EnterSlot, SameTask, AskRegion, SearchPath, CountRace, ListSize, PushRace,
     SetFlag, EndLoop, AddCurrent, Manage
<1> QED
  BY <1>1, <1>2, <1>3, <1>4 DEF Others

\* The life of a task, and who moves it on.
LEMMA StateFrom ==
  ASSUME Typed, NEW t \in Threads, StepOf(t), NEW k \in Tasks
  PROVE  \/ state'[k] = state[k]
         \/ state[k] = "new" /\ state'[k] = "created" /\ CreateTask(k)
         \/ state[k] = "created" /\ state'[k] = "ready" /\ (Dependences(k) \/ AddDeps(k))
         \/ state[k] = "ready" /\ state'[k] = "running" /\ StartTask(t, k)
         \/ state'[k] = "done" /\ EndTask(t) /\ k = task[t]
<1> USE DEF program
<1>1. CASE \E j \in Tasks : CreateTask(j) \/ Dependences(j) \/ AddDeps(j)
  BY <1>1 DEF CreateTask, Dependences, AddDeps, Typed
<1>2. CASE EndTask(t) \/ \E j \in Tasks : StartTask(t, j)
  BY <1>2 DEF EndTask, StartTask, Typed
<1>3. CASE state' = state
  BY <1>3
<1> QED
  BY <1>1, <1>2, <1>3 DEF StepOf, vars, omptInitialize, omptFinalize, checkAccess, NextByte, EnterSlot, SameTask,
     AskRegion, SearchPath, CountRace, ListSize, PushRace, SetFlag, EndLoop

LEMMA PlacedStep ==
  ASSUME Typed, Placed, Queues, NEW t \in Threads, StepOf(t), Typed'
  PROVE  Placed'
<1> USE DEF program, locals, races
<1>1. Others(t)
  BY OthersStay
\* Of the tasks
<1>2. ASSUME NEW u \in Threads, u # t, Busy(u)
      PROVE  Busy(u)' /\ task'[u] = task[u] /\ task[u] \in Tasks /\ state'[task[u]] = "running"
  <2>1. /\ pc'[u] = pc[u] /\ task'[u] = task[u] /\ task[u] \in Tasks /\ state[task[u]] = "running"
        /\ Busy(t) => task[t] # task[u]
    BY <1>1, <1>2 DEF Others, Placed, Busy
  <2>2. EndTask(t) => Busy(t)
    BY DEF EndTask, Busy
  <2>3. state'[task[u]] = "running"
    BY <2>1, <2>2, StateFrom
  <2> QED
    BY <1>2, <2>1, <2>3 DEF Busy
<1>3. ASSUME NEW u \in Threads, u # t, Busy(u)'
      PROVE  Busy(u)
  BY <1>1, <1>3 DEF Others, Busy
<1>4. ASSUME Busy(t)'
      PROVE  /\ task'[t] \in Tasks /\ state'[task'[t]] = "running"
             /\ \A u \in Threads : Busy(u) /\ u # t => task[u] # task'[t]
  <2>1. ASSUME NEW k \in Tasks, StartTask(t, k)
        PROVE  task'[t] = k /\ state[k] = "ready" /\ state'[k] = "running"
    BY <2>1 DEF StartTask, Typed
  <2>2. CASE \E k \in Tasks : StartTask(t, k)
    BY <2>1, <2>2 DEF Placed
  <2>3. CASE ~\E k \in Tasks : StartTask(t, k)
    <3>1. Busy(t) /\ task'[t] = task[t] /\ ~EndTask(t)
      <4>1. task' = task \/ EndTask(t)
        BY <2>3 DEF StepOf, vars, omptInitialize, omptFinalize, CreateTask, Dependences, AddDeps, checkAccess,
           NextByte, EnterSlot, SameTask, AskRegion, SearchPath, CountRace, ListSize, PushRace, SetFlag, EndLoop
      <4>2. ~EndTask(t)
        BY <1>4 DEF EndTask, Goto, Busy, Typed
      <4>3. Busy(t)
        BY <1>4, <2>3, <4>2 DEF StepOf, Busy, Typed, vars, omptInitialize, omptFinalize, CreateTask, Dependences, AddDeps,
           checkAccess, NextByte, EnterSlot, SameTask, AskRegion, AtRecord, SearchPath, CountRace, ListSize, PushRace,
           SetFlag, EndLoop, Goto
      <4> QED
        BY <4>1, <4>2, <4>3
    <3>2. task[t] \in Tasks /\ state[task[t]] = "running"
          /\ \A u \in Threads : Busy(u) /\ task[u] = task[t] => u = t
      BY <3>1 DEF Placed
    <3>3. state'[task[t]] = "running"
      BY <3>1, <3>2, StateFrom
    <3> QED
      BY <3>1, <3>2, <3>3
  <2> QED
    BY <2>2, <2>3
<1>5. ASSUME NEW u \in Threads, Busy(u)'
      PROVE  /\ task'[u] \in Tasks /\ state'[task'[u]] = "running"
             /\ \A v \in Threads : Busy(v)' /\ task'[v] = task'[u] => v = u
  <2>1. CASE u = t
    BY <1>2, <1>3, <1>4, <1>5, <2>1
  <2>2. CASE u # t
    <3>1. /\ Busy(u) /\ task'[u] = task[u] /\ task[u] \in Tasks /\ state'[task[u]] = "running"
      BY <1>2, <1>3, <1>5, <2>2
    <3>2. \A v \in Threads : Busy(v) /\ task[v] = task[u] => v = u
      BY <3>1 DEF Placed
    <3> QED
      BY <1>2, <1>3, <1>4, <1>5, <2>2, <3>1, <3>2
  <2> QED
    BY <2>1, <2>2
\* Of the bytes and the list
<1>6. ASSUME pc'[t] \in AtByte \cup {"next"}
      PROVE  byte'[t] \in Bytes /\ last'[t] \in Bytes /\ byte'[t] <= last'[t]
  <2>1. ASSUME NEW first \in Bytes, NEW end \in Bytes, NEW w \in BOOLEAN, first <= end, checkAccess(t, first, end, w)
        PROVE  byte'[t] = first /\ last'[t] = end
    BY <1>6, <2>1 DEF checkAccess, Typed, AtByte
  <2>2. CASE NextByte(t)
    <3>1. byte[t] < last[t] /\ byte'[t] = byte[t] + 1 /\ last'[t] = last[t]
      BY <1>6, <2>2 DEF NextByte, Goto, Typed, AtByte
    <3> QED
      BY <2>2, <3>1, ByteAfter DEF NextByte
  <2>3. ASSUME pc[t] \in AtByte \cup {"next"}, byte' = byte, last' = last
        PROVE  byte'[t] \in Bytes /\ last'[t] \in Bytes /\ byte'[t] <= last'[t]
    BY <2>3 DEF Placed
  <2>4. \/ NextByte(t)
        \/ \E first, end \in Bytes, w \in BOOLEAN : first <= end /\ checkAccess(t, first, end, w)
        \/ pc[t] \in AtByte \cup {"next"} /\ byte' = byte /\ last' = last
    <3>1. CASE EnterSlot(t) \/ SameTask(t) \/ AskRegion(t) \/ SearchPath(t) \/ CountRace(t) \/ ListSize(t)
               \/ PushRace(t) \/ SetFlag(t) \/ EndLoop(t)
      BY <3>1 DEF AtByte, EnterSlot, SameTask, AskRegion, AtRecord, SearchPath, CountRace, ListSize, PushRace,
         SetFlag, EndLoop
    <3>2. CASE omptInitialize \/ omptFinalize \/ UNCHANGED vars \/ \E k \in Tasks : CreateTask(k)
      BY <1>6, <3>2 DEF vars, omptInitialize, omptFinalize, CreateTask
    <3>3. CASE t = Producer /\ \E k \in Tasks : Dependences(k) \/ AddDeps(k)
      <4>1. byte' = byte /\ last' = last /\ (pc' = pc \/ pc'[t] \in {"idle", "declare"})
        BY <3>3 DEF Dependences, AddDeps, Goto, Typed
      <4> QED
        BY <1>6, <4>1 DEF AtByte
    <3>4. CASE EndTask(t) \/ \E k \in Tasks : StartTask(t, k)
      <4>1. pc'[t] \in {"idle", "running"}
        BY <3>4 DEF EndTask, StartTask, Goto, Typed
      <4> QED
        BY <1>6, <4>1 DEF AtByte
    <3> QED
      BY <3>1, <3>2, <3>3, <3>4 DEF StepOf
  <2> QED
    BY <2>1, <2>2, <2>3, <2>4
<1>7. ASSUME NEW u \in Threads, pc'[u] = "push"
      PROVE  size'[u] = Len(list')
  <2>1. CASE u = t
    <3>1. ListSize(t) \/ (pc[t] = "push" /\ UNCHANGED <<size, list>>)
      BY <1>7, <2>1 DEF StepOf, Typed, vars, omptInitialize, omptFinalize, CreateTask, Dependences, AddDeps, EndTask,
         StartTask, checkAccess, NextByte, EnterSlot, SameTask, AskRegion, AtRecord, SearchPath, CountRace, PushRace,
         SetFlag, EndLoop, AddCurrent, Return, Goto
    <3>2. ListSize(t) => size'[t] = Len(list) /\ list' = list
      BY DEF ListSize, Typed
    <3> QED
      BY <2>1, <3>1, <3>2 DEF Placed
  <2>2. CASE u # t
    <3>1. pc[u] = "push" /\ size'[u] = size[u] /\ size[u] = Len(list)
      BY <1>1, <1>7, <2>2 DEF Others, Placed
    <3>2. ~PushRace(t)
      <4>1. List \in LockNames /\ List \in Has(u)
        BY <3>1, LockNamesDistinct DEF Has
      <4>2. Holds(u, List)
        BY <4>1 DEF Queues, Queued
      <4> QED
        BY <2>2, <4>2 DEF PushRace, Holds
    <3>3. list' = list
      BY <3>2 DEF StepOf, vars, omptInitialize, omptFinalize, CreateTask, Dependences, AddDeps, EndTask,
         StartTask, checkAccess, NextByte, EnterSlot, SameTask, AskRegion, SearchPath, CountRace, ListSize,
         SetFlag, EndLoop
    <3> QED
      BY <3>1, <3>3
  <2> QED
    BY <2>1, <2>2
<1>8. ASSUME NEW u \in Threads, pc'[u] = "declare"
      PROVE  u = Producer
  <2>1. CASE u = t
    BY <1>8, <2>1 DEF StepOf, Typed, vars, omptInitialize, omptFinalize, CreateTask, Dependences, AddDeps, EndTask,
       StartTask, checkAccess, NextByte, EnterSlot, SameTask, AskRegion, AtRecord, SearchPath, CountRace, ListSize,
       PushRace, SetFlag, EndLoop, AddCurrent, Return, Goto
  <2>2. CASE u # t
    BY <1>1, <1>8, <2>2 DEF Others, Placed
  <2> QED
    BY <2>1, <2>2
<1>9. ASSUME NEW u \in Threads, pc'[u] \in AtByte \cup {"next"}
      PROVE  byte'[u] \in Bytes /\ last'[u] \in Bytes /\ byte'[u] <= last'[u]
  <2>1. CASE u # t
    BY <1>1, <1>9, <2>1 DEF Others, Placed
  <2> QED
    BY <1>6, <1>9, <2>1
<1> QED
  BY <1>5, <1>7, <1>8, <1>9 DEF Placed

\* The locks of a thread that goes from one place to another.
LEMMA WantsAt ==
  ASSUME NEW t \in Threads
  PROVE  /\ pc[t] \in {"idle", "running", "next"} => Wants(t) = {} /\ Has(t) = {}
         /\ pc[t] = "declare" => Wants(t) = {Region} /\ Has(t) = {}
         /\ pc[t] = "slot" => Wants(t) = {byte[t]} /\ Has(t) = {}
         /\ pc[t] \in {"loop", "race", "flag"} => Wants(t) = {byte[t]} /\ Has(t) = {byte[t]}
         /\ pc[t] = "search" => Wants(t) = {byte[t], Region} /\ Has(t) = {byte[t]}
         /\ pc[t] = "list" => Wants(t) = {byte[t], List} /\ Has(t) = {byte[t]}
         /\ pc[t] = "push" => Wants(t) = {byte[t], List} /\ Has(t) = {byte[t], List}
BY DEF Wants, Has, AtByte, InLoop

LEMMA WantsNext ==
  ASSUME NEW t \in Threads
  PROVE  /\ pc'[t] \in {"idle", "running", "next"} => Wants(t)' = {} /\ Has(t)' = {}
         /\ pc'[t] = "declare" => Wants(t)' = {Region} /\ Has(t)' = {}
         /\ pc'[t] = "slot" => Wants(t)' = {byte'[t]} /\ Has(t)' = {}
         /\ pc'[t] \in {"loop", "race", "flag"} => Wants(t)' = {byte'[t]} /\ Has(t)' = {byte'[t]}
         /\ pc'[t] = "search" => Wants(t)' = {byte'[t], Region} /\ Has(t)' = {byte'[t]}
         /\ pc'[t] = "list" => Wants(t)' = {byte'[t], List} /\ Has(t)' = {byte'[t]}
         /\ pc'[t] = "push" => Wants(t)' = {byte'[t], List} /\ Has(t)' = {byte'[t], List}
BY DEF Wants, Has, AtByte, InLoop

LEMMA QueuesStep ==
  ASSUME Typed, Placed, Queues, NEW t \in Threads, StepOf(t), Placed'
  PROVE  Queues'
<1> USE DEF program, locals, races
<1>1. /\ OnlyAt(t) /\ Region \in LockNames /\ List \in LockNames /\ Bytes \subseteq LockNames
      /\ Region \notin Bytes /\ List \notin Bytes /\ Region # List
  BY OthersStay, LockNamesDistinct DEF Others, OnlyAt
<1>2. pc[t] \in AtByte => byte[t] \in Bytes
  BY DEF Placed
<1>3. CASE queue' = queue /\ byte' = byte /\ pc' = pc
  <2>1. Wants(t)' = Wants(t) /\ Has(t)' = Has(t)
    BY <1>3 DEF Wants, Has
  <2> QED
    BY <1>1, <1>3, <2>1, KeepQueues
<1>4. CASE t = Producer /\ \E k \in Tasks : Dependences(k)
  <2>1. CASE Join(t, Region)
    <3>1. pc[t] = "idle" /\ pc'[t] = "declare"
      <4>1. PICK k \in Tasks : Dependences(k)
        BY <1>4
      <4>2. pc[t] = "idle" /\ (Goto(t, "declare") \/ UNCHANGED <<queue, pc>>)
        BY <1>4, <4>1 DEF Dependences
      <4>3. queue' # queue
        <5>1. queue[Region] \in Seq(Threads) /\ queue'[Region] = Append(queue[Region], t)
          BY <1>1, <2>1 DEF Join, Typed
        <5>2. Len(Append(queue[Region], t)) # Len(queue[Region])
          BY <5>1, LenProperties, AppendProperties
        <5> QED
          BY <5>1, <5>2
      <4> QED
        BY <4>2, <4>3 DEF Goto, Typed
    <3>2. Wants(t) = {} /\ Has(t) = {} /\ Wants(t)' = {Region} /\ Has(t)' = {}
      BY <3>1, WantsAt, WantsNext
    <3> QED
      BY <1>1, <2>1, <3>2, JoinQueues
  <2>2. CASE ~Join(t, Region)
    BY <1>3, <1>4, <2>2 DEF Dependences
  <2> QED
    BY <2>1, <2>2
<1>5. CASE t = Producer /\ \E k \in Tasks : AddDeps(k)
  <2>1. Leave(t, Region) /\ Holds(t, Region) /\ pc[t] = "declare" /\ pc'[t] = "idle"
    BY <1>5 DEF AddDeps, Goto, Typed
  <2>2. Wants(t) = {Region} /\ Has(t) = {} /\ Wants(t)' = {} /\ Has(t)' = {}
    BY <2>1, WantsAt, WantsNext
  <2> QED
    BY <1>1, <2>1, <2>2, LeaveQueues
<1>6. CASE EndTask(t) \/ \E k \in Tasks : StartTask(t, k)
  <2>1. queue' = queue /\ pc[t] \in {"idle", "running"} /\ pc'[t] \in {"idle", "running"}
    BY <1>6 DEF EndTask, StartTask, Goto, Typed
  <2>2. Wants(t) = {} /\ Has(t) = {} /\ Wants(t)' = {} /\ Has(t)' = {}
    BY <2>1, WantsAt, WantsNext
  <2> QED
    BY <1>1, <2>1, <2>2, KeepQueues
<1>7. ASSUME NEW first \in Bytes, NEW end \in Bytes, NEW w \in BOOLEAN, checkAccess(t, first, end, w)
      PROVE  Queues'
  <2>1. \/ queue' = queue /\ byte' = byte /\ pc' = pc
        \/ Join(t, first) /\ pc[t] = "running" /\ pc'[t] = "slot" /\ byte'[t] = first
    BY <1>7 DEF checkAccess, Goto, Typed
  <2>2. CASE Join(t, first) /\ pc[t] = "running" /\ pc'[t] = "slot" /\ byte'[t] = first
    <3>1. Wants(t) = {} /\ Has(t) = {} /\ Wants(t)' = {first} /\ Has(t)' = {}
      BY <2>2, WantsAt, WantsNext
    <3> QED
      BY <1>1, <2>2, <3>1, JoinQueues
  <2> QED
    BY <1>3, <2>1, <2>2
<1>8. CASE NextByte(t)
  <2>1. CASE byte[t] < last[t]
    <3>1. /\ Join(t, byte[t] + 1) /\ pc[t] = "next" /\ pc'[t] = "slot" /\ byte'[t] = byte[t] + 1
      BY <1>8, <2>1 DEF NextByte, Goto, Typed
    <3>2. byte[t] + 1 \in LockNames
      BY <1>1, <2>1, <3>1, ByteAfter
    <3>3. Wants(t) = {} /\ Has(t) = {} /\ Wants(t)' = {byte[t] + 1} /\ Has(t)' = {}
      BY <3>1, WantsAt, WantsNext
    <3> QED
      BY <1>1, <3>1, <3>2, <3>3, JoinQueues
  <2>2. CASE ~(byte[t] < last[t])
    <3>1. queue' = queue /\ pc[t] = "next" /\ pc'[t] = "running"
      BY <1>8, <2>2 DEF NextByte, Goto, Typed
    <3>2. Wants(t) = {} /\ Has(t) = {} /\ Wants(t)' = {} /\ Has(t)' = {}
      BY <3>1, WantsAt, WantsNext
    <3> QED
      BY <1>1, <3>1, <3>2, KeepQueues
  <2> QED
    BY <2>1, <2>2
<1>9. CASE EnterSlot(t)
  <2>1. pc[t] = "slot" /\ Holds(t, byte[t]) /\ byte[t] \in LockNames /\ byte'[t] = byte[t]
    BY <1>1, <1>2, <1>9 DEF EnterSlot, AtByte
  <2>2. Wants(t) = {byte[t]} /\ Has(t) = {}
    BY <2>1, WantsAt
  <2>3. CASE Return(t)
    <3>1. Leave(t, byte[t]) /\ pc'[t] = "next"
      BY <2>3 DEF Return, Goto, Typed
    <3>2. Wants(t)' = {} /\ Has(t)' = {}
      BY <3>1, WantsNext
    <3> QED
      BY <1>1, <2>1, <2>2, <3>1, <3>2, LeaveQueues
  <2>4. CASE queue' = queue /\ Goto(t, "loop")
    <3>1. Wants(t)' = {byte[t]} /\ Has(t)' = {byte[t]}
      BY <2>1, <2>4, WantsNext DEF Goto, Typed
    <3> QED
      BY <1>1, <2>1, <2>2, <2>4, <3>1, KeepQueues
  <2> QED
    BY <1>9, <2>3, <2>4 DEF EnterSlot
<1>10. CASE AskRegion(t)
  <2>1. pc[t] = "loop" /\ byte'[t] = byte[t] /\ byte[t] \in Bytes
    BY <1>2, <1>10 DEF AskRegion, AtRecord, AtByte
  <2>2. Wants(t) = {byte[t]} /\ Has(t) = {byte[t]}
    BY <2>1, WantsAt
  <2>3. CASE Join(t, Region) /\ Goto(t, "search")
    <3>1. Wants(t)' = {byte[t], Region} /\ Has(t)' = {byte[t]}
      BY <2>1, <2>3, WantsNext DEF Goto, Typed
    <3> QED
      BY <1>1, <2>1, <2>2, <2>3, <3>1, JoinQueues
  <2>4. CASE queue' = queue /\ Goto(t, "race")
    <3>1. Wants(t)' = {byte[t]} /\ Has(t)' = {byte[t]}
      BY <2>1, <2>4, WantsNext DEF Goto, Typed
    <3> QED
      BY <1>1, <2>2, <2>4, <3>1, KeepQueues
  <2> QED
    BY <1>3, <1>10, <2>3, <2>4 DEF AskRegion
<1>11. CASE SearchPath(t)
  <2>1. pc[t] = "search" /\ Holds(t, Region) /\ Leave(t, Region) /\ byte'[t] = byte[t] /\ byte[t] \in Bytes
        /\ pc'[t] \in {"race", "loop"}
    BY <1>2, <1>11 DEF SearchPath, AtByte, Goto, Typed
  <2>2. Wants(t) = {byte[t], Region} /\ Has(t) = {byte[t]} /\ Wants(t)' = {byte[t]} /\ Has(t)' = {byte[t]}
    BY <2>1, WantsAt, WantsNext
  <2> QED
    BY <1>1, <2>1, <2>2, LeaveQueues
<1>12. CASE CountRace(t)
  <2>1. pc[t] = "race" /\ byte'[t] = byte[t] /\ byte[t] \in Bytes
    BY <1>2, <1>12 DEF CountRace, AtByte
  <2>2. Wants(t) = {byte[t]} /\ Has(t) = {byte[t]}
    BY <2>1, WantsAt
  <2>3. CASE Join(t, List) /\ Goto(t, "list")
    <3>1. Wants(t)' = {byte[t], List} /\ Has(t)' = {byte[t]}
      BY <2>1, <2>3, WantsNext DEF Goto, Typed
    <3> QED
      BY <1>1, <2>1, <2>2, <2>3, <3>1, JoinQueues
  <2>4. CASE queue' = queue /\ Goto(t, "flag")
    <3>1. Wants(t)' = {byte[t]} /\ Has(t)' = {byte[t]}
      BY <2>1, <2>4, WantsNext DEF Goto, Typed
    <3> QED
      BY <1>1, <2>2, <2>4, <3>1, KeepQueues
  <2> QED
    BY <1>12, <2>3, <2>4 DEF CountRace
<1>13. CASE ListSize(t)
  <2>1. pc[t] = "list" /\ Holds(t, List) /\ byte'[t] = byte[t] /\ pc'[t] = "push" /\ queue' = queue
    BY <1>13 DEF ListSize, Goto, Typed
  <2>2. /\ Wants(t) = {byte[t], List} /\ Has(t) = {byte[t]}
        /\ Wants(t)' = {byte[t], List} /\ Has(t)' = {byte[t], List}
    BY <2>1, WantsAt, WantsNext
  <2> QED
    BY <1>1, <2>1, <2>2, KeepQueues
<1>14. CASE PushRace(t)
  <2>1. pc[t] = "push" /\ Holds(t, List) /\ Leave(t, List) /\ byte'[t] = byte[t] /\ pc'[t] = "flag"
        /\ byte[t] \in Bytes
    BY <1>2, <1>14 DEF PushRace, Goto, Typed, AtByte
  <2>2. /\ Wants(t) = {byte[t], List} /\ Has(t) = {byte[t], List}
        /\ Wants(t)' = {byte[t]} /\ Has(t)' = {byte[t]}
    BY <2>1, WantsAt, WantsNext
  <2> QED
    BY <1>1, <2>1, <2>2, LeaveQueues
<1>15. CASE SetFlag(t) \/ EndLoop(t)
  <2>1. pc[t] \in {"flag", "loop"} /\ Leave(t, byte[t]) /\ pc'[t] = "next" /\ byte[t] \in LockNames
    BY <1>1, <1>2, <1>15 DEF SetFlag, EndLoop, AddCurrent, Return, Goto, Typed, AtByte
  <2>2. Wants(t) = {byte[t]} /\ Has(t) = {byte[t]} /\ Wants(t)' = {} /\ Has(t)' = {}
    BY <2>1, WantsAt, WantsNext
  <2>3. Holds(t, byte[t])
    BY <2>1, <2>2 DEF Queues, Queued
  <2> QED
    BY <1>1, <2>1, <2>2, <2>3, LeaveQueues
<1>16. CASE SameTask(t) \/ omptInitialize \/ omptFinalize \/ UNCHANGED vars \/ \E k \in Tasks : CreateTask(k)
  BY <1>3, <1>16 DEF SameTask, omptInitialize, omptFinalize, CreateTask, vars
<1> QED
  BY <1>4, <1>5, <1>6, <1>7, <1>8, <1>9, <1>10, <1>11, <1>12, <1>13, <1>14, <1>15, <1>16 DEF StepOf

-----------------------------------------------------------------------------
(* The order of the tasks *)

\* Only the holder of a byte's lock changes its history, and only so.
LEMMA RecordsFrom ==
  ASSUME Typed, Placed, Loops, NEW t \in Threads, StepOf(t), NEW b \in Bytes
  PROVE  \/ records'[b] = records[b]
         \/ b = byte[t] /\ pc[t] = "slot" /\ EnterSlot(t)
              /\ \/ records'[b] = <<>> /\ raceFlag[b]
                 \/ records'[b] = <<Current(t)>> /\ records[b] = <<>>
                 \/ records'[b] = records[b]
         \/ b = byte[t] /\ pc[t] \in {"loop", "search"} /\ Erases(t) /\ it[t] \in 1..Len(records[b])
              /\ records'[b] = Without(records[b], it[t])
         \/ b = byte[t] /\ (SetFlag(t) \/ EndLoop(t)) /\ records'[b] = Append(records[b], Current(t))
<1> USE DEF program, locals, races
<1>1. CASE EnterSlot(t)
  <2>1. byte[t] \in Bytes /\ pc[t] = "slot"
    BY <1>1 DEF EnterSlot, Placed, AtByte
  <2> QED
    BY <1>1, <2>1 DEF EnterSlot, Typed
<1>2. ASSUME AtRecord(t) \/ pc[t] = "search", NEW before, Manage(t, before)
      PROVE  records'[b] = records[b] \/
             (b = byte[t] /\ pc[t] \in {"loop", "search"} /\ Erases(t) /\ it[t] \in 1..Len(records[b])
              /\ records'[b] = Without(records[b], it[t]))
  <2>1. pc[t] \in {"loop", "search"} /\ byte[t] \in Bytes /\ it[t] \in 1..Len(records[byte[t]])
    BY <1>2, AtRecordIs DEF AtRecord, InLoop, AtByte
  <2>2. CASE Erases(t)
    BY <2>1, <2>2 DEF Erases, Typed
  <2>3. CASE Passes(t)
    BY <2>3 DEF Passes
  <2> QED
    BY <1>2, <2>2, <2>3, ManageCases
<1>3. CASE SameTask(t)
  BY <1>2, <1>3 DEF SameTask
<1>4. CASE AskRegion(t)
  <2>1. records' = records \/ Manage(t, FALSE)
    BY <1>4 DEF AskRegion
  <2> QED
    BY <1>2, <1>4, <2>1 DEF AskRegion
<1>5. CASE SearchPath(t)
  <2>1. records' = records \/ \E before \in BOOLEAN : Manage(t, before)
    BY <1>5 DEF SearchPath, hasPath, PathIn
  <2> QED
    BY <1>2, <1>5, <2>1 DEF SearchPath
<1>6. CASE SetFlag(t) \/ EndLoop(t)
  <2>1. byte[t] \in Bytes /\ AddCurrent(t)
    BY <1>6 DEF SetFlag, EndLoop, Placed, AtByte
  <2> QED
    BY <1>6, <2>1 DEF AddCurrent, Typed
<1>7. CASE records' = records
  BY <1>7
<1> QED
  BY <1>1, <1>3, <1>4, <1>5, <1>6, <1>7 DEF StepOf, vars, omptInitialize, omptFinalize, CreateTask, Dependences, AddDeps,
     EndTask, StartTask, checkAccess, NextByte, CountRace, ListSize, PushRace

LEMMA InOrderStep ==
  ASSUME Typed, Placed, Loops, InOrder, NEW t \in Threads, StepOf(t)
  PROVE  InOrder'
<1>1. /\ setup' = setup
      /\ edges' = edges \/ \E k \in Tasks : AddDeps(k)
      /\ edges \subseteq edges'
  BY DEF StepOf, vars, program, omptInitialize, omptFinalize, CreateTask, Dependences, AddDeps,
     EndTask, StartTask, checkAccess, NextByte, EnterSlot, SameTask, AskRegion, SearchPath, CountRace, ListSize,
     PushRace, SetFlag, EndLoop
<1>2. ASSUME NEW k \in Tasks PROVE /\ StartedTask(k) => StartedTask(k)'
                                   /\ state[k] = "done" => state'[k] = "done"
                                   /\ state[k] \notin {"new", "created"} => state'[k] \notin {"new", "created"}
  BY StateFrom DEF StartedTask, Typed
<1>3. ASSUME NEW k \in Tasks, StartedTask(k)', NEW e \in DependsOn, e[2] = k
      PROVE  state'[e[1]] = "done"
  <2>1. e[1] \in Tasks
    BY DependencesAreTasks
  <2>2. CASE StartedTask(k)
    BY <1>2, <1>3, <2>1, <2>2 DEF InOrder
  <2>3. CASE ~StartedTask(k)
    <3>1. StartTask(t, k) \/ (EndTask(t) /\ k = task[t])
      BY <1>3, <2>3, StateFrom DEF StartedTask
    <3>2. EndTask(t) => StartedTask(task[t])
      BY DEF EndTask, Placed, Busy, StartedTask
    <3>3. StartTask(t, k)
      BY <2>3, <3>1, <3>2
    <3> QED
      BY <1>2, <1>3, <2>1, <3>3 DEF StartTask
  <2> QED
    BY <2>2, <2>3
<1>4. ASSUME NEW j \in Tasks, NEW k \in Tasks, j < k, state'[k] # "new"
      PROVE  state'[j] \notin {"new", "created"}
  <2>1. CASE state[k] # "new"
    BY <1>2, <1>4, <2>1 DEF InOrder
  <2>2. CASE state[k] = "new"
    <3>1. CreateTask(k) \/ (EndTask(t) /\ k = task[t])
      BY <1>4, <2>2, StateFrom
    <3>2. EndTask(t) => state[task[t]] = "running"
      BY DEF EndTask, Placed, Busy
    <3>3. CreateTask(k)
      BY <2>2, <3>1, <3>2
    <3> QED
      BY <1>2, <1>4, <3>3 DEF CreateTask
  <2> QED
    BY <2>1, <2>2
<1>5. ASSUME NEW b \in Bytes, NEW i \in DOMAIN records'[b]
      PROVE  state'[records'[b][i].task] \in {"running", "done"}
  <2>0. records[b] \in Seq(Access) /\ \A x \in Elems(records[b]) : x.task \in Tasks /\ StartedTask(x.task)
    <3>1. records[b] \in Seq(Access)
      BY DEF Typed
    <3>2. \A j \in DOMAIN records[b] : records[b][j] \in Access
      BY <3>1, LenProperties, ElementOfSeq
    <3> QED
      BY <3>1, <3>2 DEF Access, Elems, InOrder
  <2>1. SUFFICES ASSUME records'[b][i] \notin Elems(records[b])
                 PROVE  state'[records'[b][i].task] \in {"running", "done"}
    <3>1. ASSUME records'[b][i] \in Elems(records[b])
          PROVE  state'[records'[b][i].task] \in {"running", "done"}
      <4>1. records'[b][i].task \in Tasks /\ StartedTask(records'[b][i].task)
        BY <2>0, <3>1
      <4> QED
        BY <1>2, <4>1 DEF StartedTask
    <3> QED
      BY <3>1 DEF StartedTask
  <2>2. ASSUME pc[t] \in AtByte
        PROVE  Current(t) \in Access /\ state'[Current(t).task] \in {"running", "done"}
    <3>1. task[t] \in Tasks /\ StartedTask(task[t]) /\ write[t] \in BOOLEAN
      BY <2>2 DEF Placed, Busy, AtByte, StartedTask, Typed
    <3>2. state'[task[t]] \in {"running", "done"}
      BY <1>2, <3>1 DEF StartedTask
    <3> QED
      BY <3>1, <3>2 DEF Current, Access
  <2>3. CASE records'[b] = records[b]
    BY <1>5, <2>1, <2>3 DEF Elems
  <2>4. CASE records'[b] = <<>>
    BY <1>5, <2>4
  <2>5. CASE records'[b] = <<Current(t)>> /\ pc[t] \in AtByte
    <3>1. records'[b][i] = Current(t)
      BY <1>5, <2>5
    <3> QED
      BY <2>2, <2>5, <3>1 DEF StartedTask
  <2>6. CASE it[t] \in 1..Len(records[b]) /\ records'[b] = Without(records[b], it[t])
    <3>1. Elems(records'[b]) \subseteq Elems(records[b])
      BY <2>0, <2>6, WithoutProperties
    <3> QED
      BY <1>5, <2>1, <3>1 DEF Elems
  <2>7. CASE records'[b] = Append(records[b], Current(t)) /\ pc[t] \in AtByte
    <3>1. records'[b][i] \in Elems(records[b]) \cup {Current(t)}
      BY <1>5, <2>0, <2>2, <2>7, JoinElems DEF Elems
    <3>2. records'[b][i] = Current(t)
      BY <2>1, <3>1
    <3> QED
      BY <2>2, <2>7, <3>2 DEF StartedTask
  <2> QED
    BY <2>3, <2>4, <2>5, <2>6, <2>7, RecordsFrom DEF AtByte, SetFlag, EndLoop
<1>6. ASSUME Answers = {2}, NEW e \in DependsOn, state'[e[2]] \notin {"new", "created"}
      PROVE  e \in edges'
  <2>1. e[2] \in Tasks
    BY DependencesAreTasks
  <2>2. CASE state[e[2]] \notin {"new", "created"}
    BY <1>1, <1>6, <2>2 DEF InOrder
  <2>3. CASE state[e[2]] \in {"new", "created"}
    <3>1. EndTask(t) => state[task[t]] = "running"
      BY DEF EndTask, Placed, Busy
    <3>2. Dependences(e[2]) \/ AddDeps(e[2])
      BY <1>6, <2>1, <2>3, <3>1, StateFrom
    <3>3. Dependences(e[2]) => state' = state
      BY <1>6 DEF Dependences, infoIsAvailable, Answers
    <3>4. AddDeps(e[2])
      BY <1>6, <2>3, <3>2, <3>3
    <3> QED
      BY <3>4 DEF AddDeps
  <2> QED
    BY <2>2, <2>3
<1> QED
  BY <1>1, <1>3, <1>4, <1>5, <1>6 DEF InOrder, Answers, StartedTask

-----------------------------------------------------------------------------
(* What a thread does to the history at hand *)

\* The record that is looked at is ordered before the access, or the two do not conflict.
Looks(t) == \E before \in BOOLEAN :
              /\ Manage(t, before)
              /\ before => Ordered(Record(t).task, task[t])
              /\ ~before => ~(Record(t).write \/ write[t])

\* Steps that leave accesses and histories alone
Quiet(t) == /\ UNCHANGED <<task, byte, last, write, it, skipAddCur, dup, records, raceFlag, performed>>
            /\ pc'[t] = pc[t] \/ (pc[t] \in {"idle", "declare"} /\ pc'[t] \in {"idle", "declare"})

Starts(t, first, end, w) ==
  /\ pc[t] = "running" /\ pc'[t] = "slot" /\ first <= end
  /\ byte'[t] = first /\ last'[t] = end /\ write'[t] = w
  /\ \A b \in Bytes : performed'[b] = IF b \in first..end
                                      THEN performed[b] \cup {[task |-> task[t], write |-> w]}
                                      ELSE performed[b]
  /\ UNCHANGED <<task, it, skipAddCur, dup, records, raceFlag>>

\* Steps from one place of the loop to another
Loop(t) == /\ pc[t] \in InLoop /\ pc'[t] \in InLoop
           /\ UNCHANGED <<task, byte, last, write, dup, raceFlag, performed>>
           /\ \/ /\ UNCHANGED <<records, it, skipAddCur>>
                 /\ pc[t] = "loop" => AtRecord(t)
              \/ (AtRecord(t) \/ pc[t] = "search") /\ pc'[t] = "loop" /\ Looks(t)

Kind(t) == \/ Quiet(t) \/ NextByte(t) \/ EnterSlot(t) \/ SetFlag(t) \/ EndLoop(t) \/ Loop(t)
           \/ EndTask(t) \/ \E k \in Tasks : StartTask(t, k)
           \/ \E first, end \in Bytes, w \in BOOLEAN : Starts(t, first, end, w)

LEMMA Kinds ==
  ASSUME Typed, Placed, NEW t \in Threads, StepOf(t)
  PROVE  Kind(t)
<1> USE DEF program, locals, races
<1>1. CASE t = Producer /\ (omptInitialize \/ omptFinalize \/ UNCHANGED vars \/ \E k \in Tasks : CreateTask(k))
  <2>1. Quiet(t)
    BY <1>1 DEF Quiet, omptInitialize, omptFinalize, vars, CreateTask
  <2> QED
    BY <2>1 DEF Kind
<1>2. CASE t = Producer /\ \E k \in Tasks : Dependences(k) \/ AddDeps(k)
  <2>1. UNCHANGED <<task, byte, last, write, it, skipAddCur, dup, records, raceFlag, performed>>
    BY <1>2 DEF Dependences, AddDeps
  <2>2. pc[t] \in {"idle", "declare"} /\ (pc' = pc \/ Goto(t, "idle") \/ Goto(t, "declare"))
    BY <1>2 DEF Dependences, AddDeps
  <2>3. Quiet(t)
    BY <2>1, <2>2 DEF Quiet, Goto, Typed
  <2> QED
    BY <2>3 DEF Kind
<1>3. ASSUME NEW first \in Bytes, NEW end \in Bytes, NEW w \in BOOLEAN, first <= end, checkAccess(t, first, end, w)
      PROVE  Kind(t)
  <2>1. UNCHANGED <<task, it, skipAddCur, dup, records, raceFlag>> /\ pc[t] = "running"
    BY <1>3 DEF checkAccess
  <2>2. CASE UNCHANGED <<byte, last, write, queue, pc, performed>>
    <3>1. Quiet(t)
      BY <2>1, <2>2 DEF Quiet
    <3> QED
      BY <3>1 DEF Kind
  <2>3. CASE ~UNCHANGED <<byte, last, write, queue, pc, performed>>
    <3>1. /\ performed' = [b \in Bytes |-> IF b \in first..end
                                            THEN performed[b] \cup {[task |-> task[t], write |-> w]}
                                            ELSE performed[b]]
          /\ byte' = [byte EXCEPT ![t] = first] /\ last' = [last EXCEPT ![t] = end]
          /\ write' = [write EXCEPT ![t] = w] /\ pc' = [pc EXCEPT ![t] = "slot"]
      BY <1>3, <2>3 DEF checkAccess, Goto
    <3>2. Starts(t, first, end, w)
      BY <1>3, <2>1, <3>1 DEF Starts, Typed
    <3> QED
      BY <3>2 DEF Kind
  <2> QED
    BY <2>2, <2>3
<1>4. CASE SameTask(t)
  <2>1. Manage(t, TRUE) /\ Record(t).task = task[t] /\ AtRecord(t)
    BY <1>4 DEF SameTask
  <2>2. Looks(t)
    BY <2>1, OrderedReflexive DEF Looks
  <2>3. Loop(t)
    BY <1>4, <2>1, <2>2 DEF Loop, SameTask, AtRecord, InLoop, AtByte
  <2> QED
    BY <2>3 DEF Kind
<1>5. CASE AskRegion(t)
  <2>1. /\ AtRecord(t) /\ pc[t] = "loop"
        /\ UNCHANGED <<task, byte, last, write, dup, raceFlag, performed>>
    BY <1>5 DEF AskRegion, AtRecord
  <2>2. CASE Manage(t, FALSE) /\ ~(Record(t).write \/ write[t]) /\ pc' = pc
    <3>1. Looks(t)
      BY <2>2 DEF Looks
    <3>2. Loop(t)
      BY <2>1, <2>2, <3>1 DEF Loop, InLoop, AtByte
    <3> QED
      BY <3>2 DEF Kind
  <2>3. CASE UNCHANGED <<records, it, skipAddCur>> /\ (Goto(t, "search") \/ Goto(t, "race"))
    <3>1. pc'[t] \in InLoop
      BY <2>3 DEF Goto, Typed, InLoop, AtByte
    <3>2. Loop(t)
      BY <2>1, <2>3, <3>1 DEF Loop, InLoop, AtByte
    <3> QED
      BY <3>2 DEF Kind
  <2> QED
    BY <1>5, <2>2, <2>3 DEF AskRegion
<1>6. CASE SearchPath(t)
  <2>1. /\ pc[t] = "search"
        /\ UNCHANGED <<task, byte, last, write, dup, raceFlag, performed>>
    BY <1>6 DEF SearchPath
  <2>2. CASE UNCHANGED <<records, it, skipAddCur>> /\ Goto(t, "race")
    <3>1. pc'[t] \in InLoop
      BY <2>2 DEF Goto, Typed, InLoop, AtByte
    <3>2. Loop(t)
      BY <2>1, <2>2, <3>1 DEF Loop, InLoop, AtByte
    <3> QED
      BY <3>2 DEF Kind
  <2>3. CASE /\ Goto(t, "loop") /\ Manage(t, hasPath(Record(t).task, task[t]))
             /\ hasPath(Record(t).task, task[t]) \/ ~(Record(t).write \/ write[t])
    <3>1. hasPath(Record(t).task, task[t]) \in BOOLEAN
      BY DEF hasPath, PathIn
    <3>2. hasPath(Record(t).task, task[t]) => Ordered(Record(t).task, task[t])
      BY PathOrders DEF Typed
    <3>3. Looks(t)
      BY <2>3, <3>1, <3>2 DEF Looks
    <3>4. pc'[t] = "loop"
      BY <2>3 DEF Goto, Typed
    <3>5. Loop(t)
      BY <2>1, <3>3, <3>4 DEF Loop, InLoop, AtByte
    <3> QED
      BY <3>5 DEF Kind
  <2> QED
    BY <1>6, <2>2, <2>3 DEF SearchPath
<1>7. CASE CountRace(t) \/ ListSize(t) \/ PushRace(t)
  <2>1. /\ pc[t] \in {"race", "list", "push"}
        /\ UNCHANGED <<task, byte, last, write, dup, raceFlag, performed>>
        /\ UNCHANGED <<records, it, skipAddCur>>
    BY <1>7 DEF CountRace, ListSize, PushRace
  <2>2. pc'[t] \in {"list", "push", "flag"}
    BY <1>7 DEF CountRace, ListSize, PushRace, Goto, Typed
  <2>3. Loop(t)
    BY <2>1, <2>2 DEF Loop, InLoop, AtByte
  <2> QED
    BY <2>3 DEF Kind
<1> QED
  BY <1>1, <1>2, <1>3, <1>4, <1>5, <1>6, <1>7 DEF StepOf, Kind

\* Where a thread is past the head of checkDataRace, no other one changes the history.
LEMMA HistoryOfOther ==
  ASSUME Typed, Placed, Queues, Loops, NEW t \in Threads, StepOf(t), NEW u \in Threads, u # t, pc[u] \in InLoop
  PROVE  records'[byte[u]] = records[byte[u]] /\ raceFlag'[byte[u]] = raceFlag[byte[u]]
<1>1. byte[u] \in Bytes
  BY DEF Placed, InLoop
<1>2. ~(byte[t] = byte[u] /\ (pc[t] \in InLoop \/ EnterSlot(t)))
  <2>1. Holds(u, byte[u])
    BY <1>1, LockNamesDistinct DEF Queues, Queued, Has
  <2>2. EnterSlot(t) => Holds(t, byte[t])
    BY DEF EnterSlot
  <2> QED
    BY <2>1, <2>2, OneAtByte DEF Holds
<1>3. records'[byte[u]] = records[byte[u]]
  BY <1>1, <1>2, RecordsFrom DEF InLoop, AtByte, SetFlag, EndLoop
<1>4. raceFlag'[byte[u]] = raceFlag[byte[u]]
  <2>1. CASE SetFlag(t)
    <3>1. pc[t] \in InLoop
      BY <2>1 DEF SetFlag, InLoop, AtByte
    <3> QED
      BY <1>1, <1>2, <2>1, <3>1 DEF SetFlag, Typed
  <2>2. CASE ~SetFlag(t)
    <3>1. raceFlag' = raceFlag
      BY <2>2, Kinds DEF Kind, Quiet, NextByte, EnterSlot, EndLoop, Loop, EndTask, StartTask, Starts
    <3> QED
      BY <3>1
  <2> QED
    BY <2>1, <2>2
<1> QED
  BY <1>3, <1>4

LEMMA LooksLoop ==
  ASSUME Typed, Placed, Loops, NEW t \in Threads, AtRecord(t) \/ pc[t] = "search", Looks(t),
         UNCHANGED <<task, byte, write, raceFlag>>
  PROVE  LoopOf(t)'
<1> DEFINE b == byte[t]
           s == records[b]
<1>1. /\ b \in Bytes /\ s \in Seq(Access) /\ Len(s) \in Nat /\ it[t] \in 1..Len(s)
      /\ Record(t) = s[it[t]]
  BY AtRecordIs DEF InLoop, AtByte, Record
<1>2. LoopOf(t)
  BY DEF Loops, AtRecord, InLoop, AtByte
<1>3. PICK before \in BOOLEAN : /\ Manage(t, before)
                                /\ before => Ordered(Record(t).task, task[t])
                                /\ ~before => ~(Record(t).write \/ write[t])
  BY DEF Looks
<1>4. CASE Erases(t)
  <2>1. /\ records'[b] = Without(s, it[t]) /\ it' = it /\ skipAddCur' = skipAddCur
    BY <1>1, <1>4 DEF Erases, Typed
  <2>2. /\ Len(Without(s, it[t])) = Len(s) - 1
        /\ \A j \in 1..it[t] - 1 : Without(s, it[t])[j] = s[j]
    BY <1>1, WithoutProperties
  <2> QED
    BY <1>1, <1>2, <2>1, <2>2 DEF LoopOf
<1>5. CASE Passes(t) /\ ~(before /\ (Record(t).write => write[t]))
  <2>1. /\ it'[t] = it[t] + 1 /\ records' = records
        /\ skipAddCur'[t] = (skipAddCur[t] \/ Record(t).task = task[t])
    <3>1. it'[t] = it[t] + 1 /\ records' = records
      BY <1>5 DEF Passes, Typed
    <3>2. skipAddCur \in [Threads -> BOOLEAN] /\ skipAddCur' = [skipAddCur EXCEPT ![t] = @ \/ Record(t).task = task[t]]
      BY <1>5 DEF Passes, Typed
    <3> QED
      BY <3>1, <3>2
  <2>2. it'[t] \in 1..Len(s) + 1 /\ \A i \in 1..it'[t] - 1 : i \in 1..it[t] - 1 \/ i = it[t]
    BY <1>1, <2>1
  <2>3. it[t] \in 1..it'[t] - 1 /\ 1..it[t] - 1 \subseteq 1..it'[t] - 1
    BY <1>1, <2>1
  <2>4. \A i \in 1..it'[t] - 1 : Ordered(s[i].task, task[t]) \/ ~(s[i].write \/ write[t])
    BY <1>1, <1>2, <1>3, <2>2 DEF LoopOf
  <2>5. skipAddCur'[t] => \E i \in 1..it'[t] - 1 : s[i].task = task[t] /\ (write[t] => s[i].write)
    <3>1. CASE skipAddCur[t]
      BY <1>2, <2>3, <3>1 DEF LoopOf
    <3>2. CASE Record(t).task = task[t]
      BY <1>1, <1>3, <1>5, <2>3, <3>2
    <3> QED
      BY <2>1, <3>1, <3>2
  <2> QED
    BY <1>2, <2>1, <2>2, <2>4, <2>5 DEF LoopOf
<1> QED
  BY <1>3, <1>4, <1>5, ManageCases

LEMMA LoopsStep ==
  ASSUME Typed, Placed, Queues, Loops, NEW t \in Threads, StepOf(t)
  PROVE  Loops'
<1> SUFFICES ASSUME NEW u \in Threads
             PROVE  /\ pc'[u] \in InLoop => LoopOf(u)'
                    /\ pc'[u] \in InLoop \ {"loop"} => it'[u] <= Len(records'[byte'[u]])
                    /\ pc'[u] \notin InLoop => ~skipAddCur'[u]
  BY DEF Loops, InLoop, AtByte
<1>1. CASE u # t
  <2>1. /\ pc'[u] = pc[u] /\ byte'[u] = byte[u] /\ write'[u] = write[u] /\ task'[u] = task[u]
        /\ it'[u] = it[u] /\ skipAddCur'[u] = skipAddCur[u]
    BY <1>1, OthersStay DEF Others
  <2>2. CASE pc[u] \in InLoop
    BY <1>1, <2>1, <2>2, HistoryOfOther DEF Loops, LoopOf
  <2>3. CASE pc[u] \notin InLoop
    BY <2>1, <2>3 DEF Loops
  <2> QED
    BY <2>2, <2>3
<1>2. CASE u = t /\ Quiet(t)
  <2>1. pc'[t] \in InLoop \/ pc[t] \in InLoop => pc'[t] = pc[t]
    BY <1>2 DEF Quiet, InLoop, AtByte
  <2>2. /\ LoopOf(t)' <=> LoopOf(t)
        /\ it' = it /\ records' = records /\ byte' = byte /\ skipAddCur' = skipAddCur
    BY <1>2 DEF Quiet, LoopOf
  <2> QED
    BY <1>2, <2>1, <2>2 DEF Loops
<1>3. CASE u = t /\ (NextByte(t) \/ EndTask(t) \/ \E k \in Tasks : StartTask(t, k))
  <2>1. pc[t] \notin InLoop /\ pc'[t] \notin InLoop /\ skipAddCur' = skipAddCur
    BY <1>3 DEF NextByte, EndTask, StartTask, Goto, Typed, InLoop, AtByte, locals
  <2> QED
    BY <1>3, <2>1 DEF Loops
<1>4. CASE u = t /\ \E first, end \in Bytes, w \in BOOLEAN : Starts(t, first, end, w)
  <2>1. pc[t] \notin InLoop /\ pc'[t] \notin InLoop /\ skipAddCur' = skipAddCur
    BY <1>4 DEF Starts, InLoop, AtByte
  <2> QED
    BY <1>4, <2>1 DEF Loops
<1>5. CASE u = t /\ EnterSlot(t)
  <2>1. pc[t] \notin InLoop /\ skipAddCur' = skipAddCur /\ ~skipAddCur[t] /\ byte' = byte /\ byte[t] \in Bytes
    BY <1>5 DEF EnterSlot, Loops, InLoop, AtByte, Placed
  <2>2. CASE Return(t)
    BY <1>5, <2>1, <2>2 DEF Return, Goto, Typed, InLoop, AtByte
  <2>3. CASE /\ ~raceFlag[byte[t]] /\ records[byte[t]] # <<>> /\ it' = [it EXCEPT ![t] = 1]
             /\ Goto(t, "loop") /\ records' = records /\ raceFlag' = raceFlag
    <3>1. pc'[t] = "loop" /\ it'[t] = 1
      BY <2>3 DEF Goto, Typed
    <3>2. Len(records[byte[t]]) \in Nat
      BY <2>1, LenProperties DEF Typed
    <3>3. LoopOf(t)'
      BY <2>1, <2>3, <3>1, <3>2 DEF LoopOf
    <3> QED
      BY <1>5, <3>1, <3>3 DEF InLoop, AtByte
  <2> QED
    BY <1>5, <2>2, <2>3 DEF EnterSlot
<1>6. CASE u = t /\ (SetFlag(t) \/ EndLoop(t))
  <2>1. pc'[t] = "next" /\ ~skipAddCur'[t]
    <3>1. pc' = [pc EXCEPT ![t] = "next"] /\ skipAddCur' = [skipAddCur EXCEPT ![t] = FALSE]
      BY <1>6 DEF SetFlag, EndLoop, AddCurrent, Return, Goto
    <3>2. pc'[t] = "next"
      BY <3>1 DEF Typed
    <3>3. skipAddCur \in [Threads -> BOOLEAN]
      BY DEF Typed
    <3> QED
      BY <3>1, <3>2, <3>3
  <2> QED
    BY <1>6, <2>1 DEF InLoop, AtByte
<1>7. CASE u = t /\ Loop(t)
  <2>1. pc[t] \in InLoop /\ pc'[t] \in InLoop /\ UNCHANGED <<task, byte, write, raceFlag>>
    BY <1>7 DEF Loop
  <2>2. CASE UNCHANGED <<records, it, skipAddCur>> /\ (pc[t] = "loop" => AtRecord(t))
    <3>1. LoopOf(t) /\ it[t] <= Len(records[byte[t]])
      BY <2>1, <2>2 DEF Loops, AtRecord
    <3> QED
      BY <1>7, <2>1, <2>2, <3>1 DEF LoopOf
  <2>3. CASE (AtRecord(t) \/ pc[t] = "search") /\ pc'[t] = "loop" /\ Looks(t)
    BY <1>7, <2>1, <2>3, LooksLoop
  <2> QED
    BY <1>7, <2>2, <2>3 DEF Loop
<1> QED
  BY <1>1, <1>2, <1>3, <1>4, <1>5, <1>6, <1>7, Kinds DEF Kind

LEMMA UnorderedStep ==
  ASSUME Typed, Placed, Queues, Loops, InOrder, Unordered, NEW t \in Threads, StepOf(t)
  PROVE  Unordered'
<1> SUFFICES ASSUME NEW u \in Threads, Answers = {2}, pc'[u] = "race"
             PROVE  Race(Record(u), Current(u))'
  <2>1. setup' = setup
    BY DEF StepOf, vars, program, omptInitialize, omptFinalize, CreateTask, Dependences, AddDeps,
       EndTask, StartTask, checkAccess, NextByte, EnterSlot, SameTask, AskRegion, SearchPath, CountRace, ListSize,
       PushRace, SetFlag, EndLoop
  <2> QED
    BY <2>1 DEF Unordered, Answers
<1>1. CASE u # t
  <2>1. /\ pc[u] = "race" /\ byte'[u] = byte[u] /\ write'[u] = write[u] /\ task'[u] = task[u] /\ it'[u] = it[u]
    BY <1>1, OthersStay DEF Others
  <2>2. records'[byte[u]] = records[byte[u]]
    BY <1>1, <2>1, HistoryOfOther DEF InLoop, AtByte
  <2>3. Record(u)' = Record(u) /\ Current(u)' = Current(u)
    BY <2>1, <2>2 DEF Record, Current
  <2> QED
    BY <2>1, <2>3 DEF Unordered, Race
<1>2. CASE u = t /\ pc[t] = "race"
  <2>1. Quiet(t) \/ UNCHANGED <<records, task, byte, write, it>>
    BY <1>2, Kinds DEF Kind, NextByte, EnterSlot, SetFlag, EndLoop, Loop, AtRecord, EndTask, StartTask, Starts
  <2>2. Record(u)' = Record(u) /\ Current(u)' = Current(u)
    BY <1>2, <2>1 DEF Quiet, Record, Current
  <2> QED
    BY <1>2, <2>2 DEF Unordered, Race
<1>3. CASE u = t /\ pc[t] # "race"
  <2>1. CASE SearchPath(t)
    <3> DEFINE p == Record(t).task
               q == task[t]
    <3>1. /\ UNCHANGED <<records, it, task, byte, write>> /\ ~hasPath(p, q) /\ (Record(t).write \/ write[t])
      BY <1>3, <2>1 DEF SearchPath, Goto, Typed, program, locals
    <3>2. p \in Tasks /\ q \in Tasks /\ Record(t) \in Access /\ Current(t) \in Access
      BY <2>1, AtRecordIs DEF SearchPath, InLoop, AtByte, Access
    <3>3. StartedTask(p) /\ state[q] = "running"
      <4>1. byte[t] \in Bytes /\ it[t] \in DOMAIN records[byte[t]]
        BY <2>1, AtRecordIs DEF SearchPath, InLoop, AtByte
      <4>2. StartedTask(p)
        BY <4>1 DEF InOrder, Record
      <4>3. state[q] = "running"
        BY <2>1 DEF SearchPath, Placed, Busy
      <4> QED
        BY <4>2, <4>3
    <3>4. ~Ordered(p, q)
      BY <3>1, <3>2, <3>3, OrderIsInGraph DEF StartedTask
    <3>5. p # q
      BY <3>4, OrderedReflexive
    <3>6. ~Ordered(q, p)
      BY <3>2, <3>3, <3>5, RunningIsBeforeNone
    <3>7. Race(Record(t), Current(t))
      BY <3>1, <3>4, <3>5, <3>6 DEF Race, Current, Ordered
    <3>8. Record(t)' = Record(t) /\ Current(t)' = Current(t)
      BY <3>1 DEF Record, Current
    <3> QED
      BY <1>3, <3>7, <3>8 DEF Race
  <2>2. CASE AskRegion(t)
    BY <1>3, <2>2 DEF AskRegion, infoIsAvailable, Goto, Typed, AtRecord, Answers
  <2>3. CASE ~SearchPath(t) /\ ~AskRegion(t)
    <3>1. pc' = pc \/ \E w \in Places \ {"race"} : Goto(t, w)
      BY <2>3 DEF StepOf, vars, program, omptInitialize, omptFinalize, CreateTask, Dependences, AddDeps,
       EndTask, StartTask, checkAccess, NextByte, EnterSlot, SameTask, CountRace, ListSize,
       PushRace, SetFlag, EndLoop, AddCurrent, Return, Places, AtByte
    <3> QED
      BY <1>3, <3>1 DEF Goto, Typed
  <2> QED
    BY <2>1, <2>2, <2>3
<1> QED
  BY <1>1, <1>2, <1>3

-----------------------------------------------------------------------------
(* What is to be checked yet *)

\* A byte is no longer pending when its check is over.
LEMMA PendingFrom ==
  ASSUME Typed, Placed, NEW t \in Threads, Kind(t), ~\E first, end \in Bytes, w \in BOOLEAN : Starts(t, first, end, w)
  PROVE  /\ Pending(t)' \subseteq Pending(t)
         /\ \A b \in Pending(t) : b \in Pending(t)' \/ (pc[t] \in AtByte /\ pc'[t] = "next" /\ b = byte[t])
         /\ Pending(t)' # {} => Current(t)' = Current(t)
         /\ performed' = performed
<1>0. byte[t] \in Nat /\ last[t] \in Nat
  BY DEF Typed
<1>1. CASE Quiet(t)
  BY <1>1 DEF Quiet, Pending, Current, AtByte
<1>2. CASE NextByte(t)
  <2>1. pc[t] = "next" /\ Pending(t) = byte[t] + 1..last[t] /\ performed' = performed
    BY <1>2 DEF NextByte, Pending, AtByte
  <2>2. CASE byte[t] < last[t]
    <3>1. /\ pc'[t] = "slot" /\ byte'[t] = byte[t] + 1 /\ last'[t] = last[t] /\ write'[t] = write[t] /\ task'[t] = task[t]
      BY <1>2, <2>2 DEF NextByte, Goto, Typed, program
    <3>2. Pending(t)' = Pending(t) /\ Current(t)' = Current(t)
      BY <2>1, <3>1 DEF Pending, AtByte, Current
    <3> QED
      BY <2>1, <3>2
  <2>3. CASE ~(byte[t] < last[t])
    <3>1. pc'[t] = "running"
      BY <1>2, <2>3 DEF NextByte, Goto, Typed
    <3>2. Pending(t)' = {} /\ Pending(t) = {}
      BY <1>0, <2>1, <2>3, <3>1 DEF Pending, AtByte
    <3> QED
      BY <2>1, <3>2
  <2> QED
    BY <2>2, <2>3
<1>3. CASE \/ EnterSlot(t) /\ Return(t)
           \/ SetFlag(t) \/ EndLoop(t)
  <2>1. /\ pc[t] \in AtByte /\ pc'[t] = "next" /\ performed' = performed
        /\ byte' = byte /\ last' = last /\ task' = task /\ write' = write
    BY <1>3 DEF EnterSlot, SetFlag, EndLoop, AddCurrent, Return, Goto, Typed, AtByte, program
  <2>2. Pending(t) = byte[t]..last[t] /\ Pending(t)' = byte[t] + 1..last[t] /\ Current(t)' = Current(t)
    BY <2>1 DEF Pending, Current, AtByte
  <2>3. byte[t] + 1..last[t] \subseteq byte[t]..last[t] /\ \A b \in byte[t]..last[t] : b = byte[t] \/ b \in byte[t] + 1..last[t]
    BY <1>0
  <2> QED
    BY <2>1, <2>2, <2>3
<1>4. CASE Loop(t) \/ (EnterSlot(t) /\ Goto(t, "loop"))
  <2>1. /\ pc[t] \in AtByte /\ pc'[t] \in AtByte /\ performed' = performed
        /\ byte' = byte /\ last' = last /\ task' = task /\ write' = write
    BY <1>4 DEF Loop, EnterSlot, Goto, Typed, AtByte, InLoop, program
  <2>2. Pending(t)' = Pending(t) /\ Current(t)' = Current(t)
    BY <2>1 DEF Pending, Current
  <2> QED
    BY <2>1, <2>2
<1>5. CASE EndTask(t) \/ \E k \in Tasks : StartTask(t, k)
  <2>1. pc[t] \in {"idle", "running"} /\ pc'[t] \in {"idle", "running"} /\ performed' = performed
    BY <1>5 DEF EndTask, StartTask, Goto, Typed
  <2>2. Pending(t) = {} /\ Pending(t)' = {}
    BY <2>1 DEF Pending, AtByte
  <2> QED
    BY <2>1, <2>2
<1> QED
  BY <1>1, <1>2, <1>3, <1>4, <1>5 DEF Kind, EnterSlot

LEMMA StartsPending ==
  ASSUME NEW t \in Threads, NEW first \in Bytes, NEW end \in Bytes, NEW w \in BOOLEAN, Starts(t, first, end, w)
  PROVE  /\ Pending(t) = {} /\ Pending(t)' = first..end /\ first..end \subseteq Bytes
         /\ Current(t)' = [task |-> task[t], write |-> w]
BY LockNamesDistinct DEF Starts, Pending, AtByte, Current

LEMMA PendingBytes ==
  ASSUME Placed, NEW t \in Threads
  PROVE  Pending(t) \subseteq Bytes
<1>1. CASE pc[t] \in AtByte \cup {"next"}
  <2>1. byte[t] \in Bytes /\ last[t] \in Bytes
    BY <1>1 DEF Placed
  <2>2. byte[t] \in Nat /\ last[t] \in Nat /\ byte[t]..last[t] \subseteq Bytes
    BY <2>1, LockNamesDistinct
  <2>3. byte[t] + 1..last[t] \subseteq byte[t]..last[t]
    BY <2>2
  <2> QED
    BY <2>2, <2>3 DEF Pending
<1>2. CASE pc[t] \notin AtByte \cup {"next"}
  BY <1>2 DEF Pending
<1> QED
  BY <1>1, <1>2

\* performed only grows.
LEMMA PerformedGrows ==
  ASSUME Typed, Placed, NEW t \in Threads, Kind(t), NEW b \in Bytes
  PROVE  performed[b] \subseteq performed'[b]
<1>1. CASE \E first, end \in Bytes, w \in BOOLEAN : Starts(t, first, end, w)
  BY <1>1 DEF Starts
<1> QED
  BY <1>1, PendingFrom

LEMMA OthersPend ==
  ASSUME Typed, NEW t \in Threads, StepOf(t), NEW u \in Threads, u # t
  PROVE  /\ Pending(u)' = Pending(u) /\ Current(u)' = Current(u)
         /\ \A b, a : Filtered(u, b, a)' <=> Filtered(u, b, a)
         /\ Busy(u)' <=> Busy(u)
<1>1. /\ pc'[u] = pc[u] /\ byte'[u] = byte[u] /\ last'[u] = last[u] /\ write'[u] = write[u]
      /\ task'[u] = task[u] /\ dup'[u] = dup[u]
  BY OthersStay DEF Others
<1> QED
  BY <1>1 DEF Pending, Current, Filtered, Busy

LEMMA PendingMadeStep ==
  ASSUME Typed, Placed, PendingMade, NEW t \in Threads, StepOf(t)
  PROVE  PendingMade'
<1> SUFFICES ASSUME NEW u \in Threads, NEW b \in Pending(u)'
             PROVE  Current(u)' \in performed'[b]
  BY DEF PendingMade
<1>0. Kind(t)
  BY Kinds
<1>1. CASE u # t
  <2>1. b \in Pending(u) /\ Current(u)' = Current(u) /\ b \in Bytes
    BY <1>1, OthersPend, PendingBytes
  <2> QED
    BY <1>0, <2>1, PerformedGrows DEF PendingMade
<1>2. ASSUME u = t, NEW first \in Bytes, NEW end \in Bytes, NEW w \in BOOLEAN, Starts(t, first, end, w)
      PROVE  Current(u)' \in performed'[b]
  <2>1. b \in first..end /\ b \in Bytes /\ Current(t)' = [task |-> task[t], write |-> w]
    BY <1>2, StartsPending
  <2> QED
    BY <1>2, <2>1 DEF Starts
<1>3. CASE u = t /\ ~\E first, end \in Bytes, w \in BOOLEAN : Starts(t, first, end, w)
  <2>1. b \in Pending(t) /\ Current(t)' = Current(t) /\ performed' = performed
    BY <1>0, <1>3, PendingFrom
  <2> QED
    BY <1>3, <2>1 DEF PendingMade
<1> QED
  BY <1>1, <1>2, <1>3

\* What the filter learns in a step is the access at hand.
LEMMA DupFrom ==
  ASSUME Typed, Placed, NEW t \in Threads, Kind(t)
  PROVE  \/ dup' = dup
         \/ EnterSlot(t) /\ ~raceFlag[byte[t]] /\ dup'[t] = dup[t] \cup {<<byte[t], write[t]>>}
         \/ dup'[t] = {} /\ \E k \in Tasks : StartTask(t, k)
<1>1. CASE EnterSlot(t)
  BY <1>1 DEF EnterSlot, Typed
<1>2. CASE \E k \in Tasks : StartTask(t, k)
  BY <1>2 DEF StartTask, Typed
<1> QED
  BY <1>1, <1>2 DEF Kind, Quiet, NextByte, SetFlag, EndLoop, Loop, EndTask, Starts

\* A thread becomes busy with a task that is new to its filter.
LEMMA BusyFrom ==
  ASSUME Typed, Placed, NEW t \in Threads, Kind(t), Busy(t)'
  PROVE  \/ Busy(t) /\ task'[t] = task[t]
         \/ \E k \in Tasks : StartTask(t, k)
<1>1. CASE Quiet(t)
  BY <1>1 DEF Quiet, Busy
<1>2. CASE NextByte(t) \/ EnterSlot(t) \/ SetFlag(t) \/ EndLoop(t)
  BY <1>2 DEF NextByte, EnterSlot, SetFlag, EndLoop, Busy, program
<1>3. CASE Loop(t) \/ \E first, end \in Bytes, w \in BOOLEAN : Starts(t, first, end, w)
  BY <1>3 DEF Loop, Starts, Busy, InLoop, AtByte
<1>4. ~EndTask(t)
  BY DEF EndTask, Goto, Typed, Busy
<1> QED
  BY <1>1, <1>2, <1>3, <1>4 DEF Kind

LEMMA FilteredMadeStep ==
  ASSUME Typed, Placed, PendingMade, FilteredMade, NEW t \in Threads, StepOf(t)
  PROVE  FilteredMade'
<1> SUFFICES ASSUME NEW u \in Threads, NEW d \in dup'[u], Busy(u)'
             PROVE  [task |-> task'[u], write |-> d[2]] \in performed'[d[1]]
  BY DEF FilteredMade
<1>0. Kind(t)
  BY Kinds
<1>1. ASSUME d \in dup[u], Busy(u), task'[u] = task[u]
      PROVE  [task |-> task'[u], write |-> d[2]] \in performed'[d[1]]
  <2>1. d[1] \in Bytes
    BY <1>1 DEF Typed
  <2> QED
    BY <1>0, <1>1, <2>1, PerformedGrows DEF FilteredMade
<1>2. CASE u # t
  <2>1. d \in dup[u] /\ Busy(u) /\ task'[u] = task[u]
    BY <1>2, OthersPend, OthersStay DEF Others
  <2> QED
    BY <1>1, <2>1
<1>3. CASE u = t
  <2>1. CASE \E k \in Tasks : StartTask(t, k)
    BY <1>3, <2>1 DEF StartTask, Typed
  <2>2. CASE ~\E k \in Tasks : StartTask(t, k)
    <3>1. Busy(t) /\ task'[t] = task[t]
      BY <1>0, <1>3, <2>2, BusyFrom
    <3>2. CASE d \in dup[t]
      BY <1>1, <1>3, <3>1, <3>2
    <3>3. CASE d \notin dup[t]
      <4>1. EnterSlot(t) /\ d = <<byte[t], write[t]>>
        BY <1>0, <1>3, <2>2, <3>3, DupFrom
      <4>2. pc[t] = "slot" /\ performed' = performed
        BY <4>1 DEF EnterSlot
      <4>3. byte[t] \in Pending(t)
        <5>1. byte[t] \in Bytes /\ byte[t] <= last[t] /\ last[t] \in Bytes /\ Pending(t) = byte[t]..last[t]
          BY <4>2 DEF Placed, Pending, AtByte
        <5>2. byte[t] \in Nat /\ last[t] \in Nat
          BY <5>1, LockNamesDistinct
        <5> QED
          BY <5>1, <5>2
      <4>4. Current(t) \in performed[byte[t]]
        BY <4>3 DEF PendingMade
      <4> QED
        BY <1>3, <3>1, <4>1, <4>2, <4>4 DEF Current
    <3> QED
      BY <3>2, <3>3
  <2> QED
    BY <2>1, <2>2
<1> QED
  BY <1>2, <1>3

-----------------------------------------------------------------------------
(* What the histories stand for *)

CheckedAt(b) == /\ \A a \in Settled(b) : CoveredAt(b, a)
                /\ \A a, c \in Settled(b) : ~Race(a, c)

LEMMA CoversTransitive ==
  ASSUME NEW r, NEW s, NEW a, Covers(r, s), Covers(s, a)
  PROVE  Covers(r, a)
BY OrderedTransitive DEF Covers

\* An access is settled by the step of a thread only if that thread has seen to it.
LEMMA SettledFrom ==
  ASSUME Typed, NEW t \in Threads, StepOf(t), NEW b \in Bytes, performed'[b] = performed[b], NEW X,
         b \in Pending(t) => \/ b \in Pending(t)' /\ Current(t)' = Current(t)
                             \/ Filtered(t, b, Current(t))
                             \/ Current(t) \in X,
         \A a \in performed[b] : Filtered(t, b, a)' => Filtered(t, b, a) \/ a \in X
  PROVE  Settled(b)' \subseteq Settled(b) \cup X
<1> SUFFICES ASSUME NEW a \in Settled(b)', a \notin Settled(b), a \notin X
             PROVE  FALSE
  OBVIOUS
<1>1. a \in performed[b]
  BY DEF Settled
<1>2. PICK u \in Threads : b \in Pending(u) /\ a = Current(u)
  BY <1>1 DEF Settled
<1>3. \A v \in Threads : ~Filtered(v, b, a)
  BY <1>1 DEF Settled
<1>4. \A v \in Threads : ~Filtered(v, b, a)'
  BY <1>1, <1>3, OthersPend
<1>5. ~(b \in Pending(u)' /\ a = Current(u)')
  BY <1>4 DEF Settled
<1>6. u = t
  BY <1>2, <1>5, OthersPend
<1> QED
  BY <1>2, <1>3, <1>5, <1>6

LEMMA CoveredKept ==
  ASSUME Typed, NEW t \in Threads, StepOf(t), NEW b \in Bytes, NEW a,
         \A i \in DOMAIN records[b] : Covers(records[b][i], a) =>
           \E r \in Elems(records'[b]) \cup (IF pc'[t] \in InLoop /\ byte'[t] = b THEN {Current(t)'} ELSE {}) :
              Covers(r, records[b][i]),
         pc[t] \in InLoop /\ byte[t] = b /\ Covers(Current(t), a) =>
           \E r \in Elems(records'[b]) \cup (IF pc'[t] \in InLoop /\ byte'[t] = b THEN {Current(t)'} ELSE {}) :
              Covers(r, Current(t)),
         CoveredAt(b, a)
  PROVE  CoveredAt(b, a)'
<1> DEFINE New == Elems(records'[b]) \cup (IF pc'[t] \in InLoop /\ byte'[t] = b THEN {Current(t)'} ELSE {})
<1>1. ASSUME NEW r \in New, Covers(r, a) PROVE CoveredAt(b, a)'
  <2>1. CASE r \in Elems(records'[b])
    BY <1>1, <2>1 DEF CoveredAt, Covers, Elems
  <2>2. CASE pc'[t] \in InLoop /\ byte'[t] = b /\ r = Current(t)'
    BY <1>1, <2>2 DEF CoveredAt, Covers
  <2> QED
    BY <2>1, <2>2
<1>2. CASE \E i \in DOMAIN records[b] : Covers(records[b][i], a)
  <2>1. \E i \in DOMAIN records[b] : \E r \in New : Covers(r, records[b][i]) /\ Covers(records[b][i], a)
    BY <1>2
  <2> HIDE DEF New
  <2> QED
    BY <1>1, <2>1, CoversTransitive
<1>3. CASE \E u \in Threads \ {t} : pc[u] \in InLoop /\ byte[u] = b /\ Covers(Current(u), a)
  <2>1. \E u \in Threads \ {t} : pc'[u] \in InLoop /\ byte'[u] = b /\ Covers(Current(u)', a)
    BY <1>3, OthersPend, OthersStay DEF Others
  <2> QED
    BY <2>1 DEF CoveredAt, Covers
<1>4. CASE pc[t] \in InLoop /\ byte[t] = b /\ Covers(Current(t), a)
  <2>1. \E r \in New : Covers(r, Current(t))
    BY <1>4
  <2> HIDE DEF New
  <2> QED
    BY <1>1, <1>4, <2>1, CoversTransitive
<1> QED
  BY <1>2, <1>3, <1>4 DEF CoveredAt

\* Nothing that was settled is lost where the history and the loop stay.
LEMMA CoveredStays ==
  ASSUME Typed, NEW t \in Threads, StepOf(t), NEW b \in Bytes, NEW a, records'[b] = records[b],
         pc[t] \in InLoop /\ byte[t] = b => pc'[t] \in InLoop /\ byte'[t] = b /\ Current(t)' = Current(t),
         CoveredAt(b, a)
  PROVE  CoveredAt(b, a)'
<1>1. \A r : Covers(r, r)
  BY OrderedReflexive DEF Covers
<1>2. \A i \in DOMAIN records[b] : records[b][i] \in Elems(records'[b])
  BY DEF Elems
<1> QED
  BY <1>1, <1>2, CoveredKept

LEMMA CheckedKept ==
  ASSUME NEW b \in Bytes, CheckedAt(b), Settled(b)' \subseteq Settled(b),
         \A a : CoveredAt(b, a) => CoveredAt(b, a)'
  PROVE  CheckedAt(b)'
BY DEF CheckedAt, Race

\* A step that leaves the history of this byte, and its check
LEMMA CheckedStays ==
  ASSUME Typed, Placed, Queues, Loops, NEW t \in Threads, StepOf(t), NEW b \in Bytes, CheckedAt(b),
         performed'[b] = performed[b], records'[b] = records[b],
         pc[t] \in InLoop /\ byte[t] = b => pc'[t] \in InLoop /\ byte'[t] = b /\ Current(t)' = Current(t),
         b \in Pending(t) => b \in Pending(t)' /\ Current(t)' = Current(t),
         \A a \in performed[b] : Filtered(t, b, a)' => Filtered(t, b, a)
  PROVE  CheckedAt(b)'
<1>1. Settled(b)' \subseteq Settled(b) \cup {}
  BY SettledFrom
<1>2. \A a : CoveredAt(b, a) => CoveredAt(b, a)'
  BY CoveredStays
<1> QED
  BY <1>1, <1>2, CheckedKept

\* The access at hand joins those that are settled.
LEMMA CheckedMore ==
  ASSUME NEW b \in Bytes, NEW x, CheckedAt(b), Settled(b)' \subseteq Settled(b) \cup {x},
         \A a \in Settled(b) : CoveredAt(b, a)' /\ ~Race(a, x),
         CoveredAt(b, x)'
  PROVE  CheckedAt(b)'
<1>1. \A a \in Settled(b)' : a \in Settled(b) \/ a = x
  OBVIOUS
<1>2. ~Race(x, x) /\ \A a \in Settled(b) : ~Race(x, a)
  BY DEF Race
<1>3. \A a, c \in Settled(b)' : ~Race(a, c)
  BY <1>1, <1>2 DEF CheckedAt
<1> QED
  BY <1>1, <1>3 DEF CheckedAt, Race

LEMMA CheckedStart ==
  ASSUME Typed, Placed, FilteredMade, NEW t \in Threads, StepOf(t), NEW b \in Bytes, CheckedAt(b),
         NEW first \in Bytes, NEW end \in Bytes, NEW w \in BOOLEAN, Starts(t, first, end, w)
  PROVE  CheckedAt(b)'
<1> DEFINE x == [task |-> task[t], write |-> w]
<1>1. /\ pc[t] = "running" /\ pc'[t] = "slot" /\ UNCHANGED <<task, dup, records>>
      /\ performed'[b] = IF b \in first..end THEN performed[b] \cup {x} ELSE performed[b]
  BY DEF Starts
<1>2. \A v \in Threads : \A a : Filtered(v, b, a)' => Filtered(v, b, a)
  <2>1. ASSUME NEW a, Filtered(t, b, a)' PROVE Filtered(t, b, a)
    BY <1>1, <2>1 DEF Filtered, Busy, InLoop, AtByte
  <2> QED
    BY <2>1, OthersPend
<1>3. ASSUME NEW v \in Threads, Filtered(v, b, x) PROVE x \in performed[b]
  <2>1. Busy(v) /\ Busy(t) /\ task[v] = task[t] /\ <<b, w>> \in dup[v]
    BY <1>1, <1>3 DEF Filtered, Busy
  <2>2. v = t
    BY <2>1 DEF Placed
  <2> QED
    BY <2>1, <2>2 DEF FilteredMade
<1>4. ASSUME NEW a \in Settled(b)' PROVE a \in Settled(b)
  <2>1. a \in performed'[b] /\ (\/ \A v \in Threads : ~(b \in Pending(v)' /\ a = Current(v)')
                                \/ \E v \in Threads : Filtered(v, b, a)')
    BY <1>4 DEF Settled
  <2>2. a \in performed[b]
    <3>1. CASE b \in first..end /\ a = x
      <4>1. b \in Pending(t)' /\ a = Current(t)'
        BY <3>1, StartsPending
      <4> QED
        BY <1>2, <1>3, <2>1, <3>1, <4>1
    <3> QED
      BY <1>1, <2>1, <3>1
  <2>3. CASE \E v \in Threads : Filtered(v, b, a)'
    BY <1>2, <2>2, <2>3 DEF Settled
  <2>4. CASE \A v \in Threads : ~(b \in Pending(v)' /\ a = Current(v)')
    <3>1. \A v \in Threads : ~(b \in Pending(v) /\ a = Current(v))
      BY <2>4, OthersPend, StartsPending
    <3> QED
      BY <2>2, <3>1 DEF Settled
  <2> QED
    BY <2>1, <2>3, <2>4
<1>5. \A a : CoveredAt(b, a) => CoveredAt(b, a)'
  BY <1>1, CoveredStays DEF InLoop, AtByte
<1> QED
  BY <1>4, <1>5, CheckedKept

LEMMA CheckedEnter ==
  ASSUME Typed, Placed, Queues, Loops, NEW t \in Threads, StepOf(t), EnterSlot(t), NEW b \in Bytes, CheckedAt(b),
         ~raceFlag[b]
  PROVE  CheckedAt(b)'
<1> USE DEF program, locals
<1>1. /\ pc[t] = "slot" /\ performed' = performed /\ UNCHANGED <<task, byte, last, write>>
      /\ pc'[t] \in {"loop", "next"} /\ Holds(t, byte[t]) /\ byte[t] \in Bytes
      /\ Current(t)' = Current(t) /\ Kind(t)
  BY Kinds DEF EnterSlot, Return, Goto, Typed, Current, Placed, AtByte
<1>2. \A c \in Pending(t) : c \in Pending(t)' \/ c = byte[t]
  BY <1>1, PendingFrom DEF Starts
<1>3. \A a \in performed[b] : /\ b # byte[t] /\ Filtered(t, b, a)' => Filtered(t, b, a)
                              /\ b = byte[t] /\ Filtered(t, b, a)' => Filtered(t, b, a) \/ a = Current(t)
  <2>1. dup'[t] = dup[t] \/ dup'[t] = dup[t] \cup {<<byte[t], write[t]>>}
    BY <1>1, DupFrom DEF StartTask
  <2>2. ASSUME NEW a \in performed[b], Filtered(t, b, a)', <<b, a.write>> \in dup[t] PROVE Filtered(t, b, a)
    BY <1>1, <2>2 DEF Filtered, Busy, InLoop
  <2>3. ASSUME NEW a \in performed[b], Filtered(t, b, a)', <<b, a.write>> \notin dup[t]
        PROVE  b = byte[t] /\ a = Current(t)
    <3>1. b = byte[t] /\ a.write = write[t] /\ a.task = task[t] /\ a \in Access
      BY <1>1, <2>1, <2>3 DEF Filtered, Typed
    <3> QED
      BY <3>1 DEF Access, Current
  <2> QED
    BY <2>2, <2>3
<1>4. CASE b # byte[t]
  <2>1. records'[b] = records[b]
    BY <1>1, <1>4 DEF EnterSlot, Typed
  <2> QED
    BY <1>1, <1>2, <1>3, <1>4, <2>1, CheckedStays
<1>5. CASE b = byte[t]
  \* The filter knows the access: it has been checked.
  <2>1. CASE <<b, write[t]>> \in dup[t]
    <3>1. records' = records /\ dup'[t] = dup[t] /\ pc'[t] = "next"
      <4>1. records' = records /\ Return(t) /\ (dup' = dup \/ dup' = [dup EXCEPT ![t] = @ \cup {<<b, write[t]>>}])
        BY <1>1, <1>5, <2>1 DEF EnterSlot
      <4>2. dup'[t] = dup[t]
        <5>1. dup[t] \cup {<<b, write[t]>>} = dup[t]
          BY <2>1
        <5>2. CASE dup' = dup
          BY <5>2
        <5>3. CASE dup' = [dup EXCEPT ![t] = @ \cup {<<b, write[t]>>}]
          BY <5>1, <5>3 DEF Typed
        <5> QED
          BY <4>1, <5>2, <5>3
      <4> QED
        BY <4>1, <4>2 DEF Return, Goto, Typed
    <3>2. Filtered(t, b, Current(t))
      BY <1>1, <2>1 DEF Filtered, Busy, InLoop, AtByte, Current
    <3>3. \A a : Filtered(t, b, a)' => Filtered(t, b, a)
      BY <1>1, <3>1 DEF Filtered, Busy, InLoop, AtByte
    <3>4. Settled(b)' \subseteq Settled(b) \cup {}
      BY <1>1, <3>2, <3>3, SettledFrom
    <3>5. \A a : CoveredAt(b, a) => CoveredAt(b, a)'
      BY <1>1, <3>1, CoveredStays DEF InLoop
    <3> QED
      BY <3>4, <3>5, CheckedKept
  \* It is the first one, for nobody is between the two.
  <2>2. CASE <<b, write[t]>> \notin dup[t] /\ records[b] = <<>>
    <3>1. records'[b] = <<Current(t)>>
      BY <1>1, <1>5, <2>2 DEF EnterSlot, Typed
    <3>2. Settled(b)' \subseteq Settled(b) \cup {Current(t)}
      BY <1>1, <1>3, <1>5, SettledFrom
    <3>3. ASSUME NEW a PROVE ~CoveredAt(b, a)
      <4>1. \A u \in Threads : ~(pc[u] \in InLoop /\ byte[u] = b)
        <5>1. ASSUME NEW u \in Threads, pc[u] \in InLoop, byte[u] = b PROVE FALSE
          <6>1. Holds(u, b)
            BY <5>1, LockNamesDistinct DEF Queues, Queued, Has
          <6> QED
            BY <1>1, <1>5, <5>1, <6>1 DEF Holds, InLoop
        <5> QED
          BY <5>1
      <4> QED
        BY <2>2, <4>1 DEF CoveredAt
    <3>4. CoveredAt(b, Current(t))'
      <4>1. 1 \in DOMAIN records'[b] /\ records'[b][1] = Current(t)
        BY <3>1
      <4>2. Covers(records'[b][1], Current(t)')
        BY <1>1, <4>1, OrderedReflexive DEF Covers
      <4> QED
        BY <1>1, <4>1, <4>2 DEF CoveredAt, Covers
    <3>5. Settled(b) = {}
      BY <3>3 DEF CheckedAt
    <3> QED
      BY <1>1, <3>2, <3>4, <3>5, CheckedMore
  <2>3. CASE <<b, write[t]>> \notin dup[t] /\ records[b] # <<>>
    <3>1. records' = records /\ pc'[t] = "loop"
      BY <1>1, <1>5, <2>3 DEF EnterSlot, Goto, Typed
    <3>2. Pending(t)' = Pending(t)
      BY <1>1, <3>1 DEF Pending, AtByte
    <3>3. \A a \in performed[b] : Filtered(t, b, a)' => Filtered(t, b, a)
      <4>1. ~Filtered(t, b, Current(t))'
        BY <1>1, <1>5, <3>1 DEF Filtered, InLoop, AtByte, Current
      <4>2. \A a \in performed[b] : Filtered(t, b, a)' => a # Current(t)
        BY <1>1, <1>5, <3>1 DEF Filtered, InLoop, AtByte, Current
      <4> QED
        BY <1>3, <4>2
    <3> QED
      BY <1>1, <3>1, <3>2, <3>3, CheckedStays DEF InLoop
  <2> QED
    BY <2>1, <2>2, <2>3
<1> QED
  BY <1>4, <1>5

LEMMA CheckedLoop ==
  ASSUME Typed, Placed, Queues, Loops, NEW t \in Threads, StepOf(t), Loop(t), NEW b \in Bytes, CheckedAt(b)
  PROVE  CheckedAt(b)'
<1>1. /\ pc[t] \in InLoop /\ pc'[t] \in InLoop /\ byte'[t] = byte[t] /\ performed' = performed
      /\ Pending(t)' = Pending(t) /\ Current(t)' = Current(t)
      /\ \A a : Filtered(t, b, a)' => Filtered(t, b, a)
  BY DEF Loop, InLoop, Pending, Current, Filtered, Busy, AtByte
<1>2. CASE records'[b] = records[b]
  BY <1>1, <1>2, CheckedStays
<1>3. CASE records'[b] # records[b]
  <2>1. PICK before \in BOOLEAN : /\ AtRecord(t) \/ pc[t] = "search"
                                  /\ Manage(t, before)
                                  /\ before => Ordered(Record(t).task, task[t])
    BY <1>3 DEF Loop, Looks
  <2>2. Erases(t) /\ before
    BY <1>3, <2>1, ManageCases DEF Passes
  <2>3. /\ byte[t] \in Bytes /\ records[byte[t]] \in Seq(Access) /\ it[t] \in 1..Len(records[byte[t]])
        /\ Record(t) = records[byte[t]][it[t]]
    BY <2>1, AtRecordIs DEF InLoop, AtByte, Record
  <2>4. b = byte[t] /\ records'[b] = Without(records[b], it[t])
    BY <1>3, <2>2, <2>3 DEF Erases, Typed
  <2>5. Elems(records[b]) \subseteq Elems(records'[b]) \cup {Record(t)}
    BY <2>3, <2>4, WithoutProperties
  <2>6. Covers(Current(t), Record(t))
    BY <2>1, <2>2 DEF Covers, Current, Erases
  <2>7. \A r : Covers(r, r)
    BY OrderedReflexive DEF Covers
  <2>8. ASSUME NEW a, CoveredAt(b, a) PROVE CoveredAt(b, a)'
    <3> DEFINE New == Elems(records'[b]) \cup (IF pc'[t] \in InLoop /\ byte'[t] = b THEN {Current(t)'} ELSE {})
    <3>1. Elems(records'[b]) \subseteq New /\ Current(t) \in New
      BY <1>1, <2>4
    <3> HIDE DEF New
    <3>2. \A i \in DOMAIN records[b] : \E r \in New : Covers(r, records[b][i])
      BY <2>5, <2>6, <2>7, <3>1 DEF Elems
    <3>3. \E r \in New : Covers(r, Current(t))
      BY <2>7, <3>1
    <3> QED
      BY <2>8, <3>2, <3>3, CoveredKept DEF New
  <2>9. Settled(b)' \subseteq Settled(b) \cup {}
    BY <1>1, SettledFrom
  <2> QED
    BY <2>8, <2>9, CheckedKept
<1> QED
  BY <1>2, <1>3

LEMMA CheckedEnd ==
  ASSUME Typed, Placed, Queues, Loops, NEW t \in Threads, StepOf(t), SetFlag(t) \/ EndLoop(t), NEW b \in Bytes,
         CheckedAt(b), ~raceFlag'[b]
  PROVE  CheckedAt(b)'
<1>1. /\ pc[t] \in InLoop /\ pc'[t] = "next" /\ byte[t] \in Bytes /\ AddCurrent(t) /\ task[t] \in Tasks
      /\ UNCHANGED <<task, byte, last, write, dup, performed>> /\ Kind(t) /\ Current(t)' = Current(t)
      /\ Current(t) \in Access
  BY Kinds DEF SetFlag, EndLoop, AddCurrent, Return, Goto, Typed, InLoop, AtByte, Placed, Busy, Current, Access, program
<1>2. \A c \in Pending(t) : c \in Pending(t)' \/ c = byte[t]
  BY <1>1, PendingFrom DEF Starts, InLoop, AtByte
<1>3. \A a \in performed[b] : Filtered(t, b, a)' => Filtered(t, b, a) \/ (b = byte[t] /\ a = Current(t))
  <2>1. ASSUME NEW a \in performed[b], Filtered(t, b, a)', b # byte[t] \/ write[t] # a.write PROVE Filtered(t, b, a)
    BY <1>1, <2>1 DEF Filtered, Busy, InLoop, AtByte
  <2>2. ASSUME NEW a \in performed[b], Filtered(t, b, a)', write[t] = a.write PROVE a = Current(t)
    <3>1. a.task = task[t] /\ a \in Access
      BY <1>1, <2>2 DEF Filtered, Typed
    <3> QED
      BY <2>2, <3>1 DEF Access, Current
  <2> QED
    BY <2>1, <2>2
<1>4. CASE b # byte[t]
  <2>1. records'[b] = records[b]
    BY <1>1, <1>4 DEF AddCurrent, Typed
  <2> QED
    BY <1>1, <1>2, <1>3, <1>4, <2>1, CheckedStays
<1>5. CASE b = byte[t]
  <2> DEFINE recs == records[b]
  <2>1. EndLoop(t)
    BY <1>1, <1>5 DEF SetFlag, Typed
  <2>2. /\ recs \in Seq(Access) /\ Len(recs) \in Nat /\ DOMAIN recs = 1..Len(recs)
    BY LenProperties DEF Typed
  <2>3. LoopOf(t) /\ it[t] = Len(recs) + 1
    <3>1. LoopOf(t) /\ it[t] > Len(recs)
      BY <1>1, <1>5, <2>1 DEF Loops, EndLoop
    <3> QED
      BY <1>5, <2>2, <3>1 DEF LoopOf
  <2>4. \A i \in DOMAIN recs : Ordered(recs[i].task, task[t]) \/ ~(recs[i].write \/ write[t])
    BY <1>5, <2>2, <2>3 DEF LoopOf
  <2>5. skipAddCur[t] => \E i \in DOMAIN recs : recs[i].task = task[t] /\ (write[t] => recs[i].write)
    BY <1>5, <2>2, <2>3 DEF LoopOf
  \* What stands for the access from now on
  <2>6. /\ Elems(recs) \subseteq Elems(records'[b])
        /\ \E r \in Elems(records'[b]) : Covers(r, Current(t))
    <3>1. CASE skipAddCur[t]
      <4>1. records' = records
        BY <1>1, <3>1 DEF AddCurrent
      <4>2. PICK i \in DOMAIN recs : recs[i].task = task[t] /\ (write[t] => recs[i].write)
        BY <2>5, <3>1
      <4>3. Covers(recs[i], Current(t))
        BY <4>2, OrderedReflexive DEF Covers, Current
      <4> QED
        BY <4>1, <4>2, <4>3 DEF Elems
    <3>2. CASE ~skipAddCur[t]
      <4>1. records'[b] = Append(recs, Current(t))
        BY <1>1, <1>5, <3>2 DEF AddCurrent, Typed
      <4>2. Elems(records'[b]) = Elems(recs) \cup {Current(t)}
        BY <1>1, <2>2, <4>1, JoinElems
      <4>3. Covers(Current(t), Current(t))
        BY OrderedReflexive DEF Covers
      <4> QED
        BY <4>2, <4>3
    <3> QED
      BY <3>1, <3>2
  <2>7. \A r : Covers(r, r)
    BY OrderedReflexive DEF Covers
  <2>8. ASSUME NEW a \in Settled(b) PROVE CoveredAt(b, a)'
    <3> DEFINE New == Elems(records'[b]) \cup (IF pc'[t] \in InLoop /\ byte'[t] = b THEN {Current(t)'} ELSE {})
    <3>1. Elems(records'[b]) \subseteq New
      OBVIOUS
    <3> HIDE DEF New
    <3>2. \A i \in DOMAIN recs : \E r \in New : Covers(r, recs[i])
      BY <2>6, <2>7, <3>1 DEF Elems
    <3>3. \E r \in New : Covers(r, Current(t))
      BY <2>6, <3>1
    <3> QED
      BY <3>2, <3>3, CoveredKept DEF New, CheckedAt
  <2>9. ASSUME NEW a \in Settled(b) PROVE ~Race(a, Current(t))
    <3>1. CASE \E i \in DOMAIN recs : Covers(recs[i], a)
      <4>1. PICK i \in DOMAIN recs : Covers(recs[i], a)
        BY <3>1
      <4>2. CASE Ordered(recs[i].task, task[t])
        <5>1. Ordered(a.task, task[t])
          BY <4>1, <4>2, OrderedTransitive DEF Covers
        <5> QED
          BY <5>1 DEF Race, Current, Ordered
      <4>3. CASE ~(recs[i].write \/ write[t])
        BY <4>1, <4>3 DEF Covers, Race, Current
      <4> QED
        BY <2>4, <4>2, <4>3
    <3>2. CASE \E u \in Threads : pc[u] \in InLoop /\ byte[u] = b /\ Covers(Current(u), a)
      <4>1. Covers(Current(t), a)
        BY <1>1, <1>5, <3>2, OneAtByte
      <4> QED
        BY <4>1 DEF Covers, Race, Current, Ordered
    <3> QED
      BY <3>1, <3>2 DEF CheckedAt, CoveredAt
  <2>10. CoveredAt(b, Current(t))'
    <3>1. \E i \in DOMAIN records'[b] : Covers(records'[b][i], Current(t)')
      BY <1>1, <2>6 DEF Elems
    <3> QED
      BY <3>1 DEF CoveredAt, Covers
  <2>11. Settled(b)' \subseteq Settled(b) \cup {Current(t)}
    BY <1>1, <1>3, SettledFrom
  <2> QED
    BY <1>1, <2>8, <2>9, <2>10, <2>11, CheckedMore
<1> QED
  BY <1>4, <1>5

LEMMA CheckedStep ==
  ASSUME Typed, Placed, Queues, Loops, FilteredMade, Checked, NEW t \in Threads, StepOf(t)
  PROVE  Checked'
<1> SUFFICES ASSUME NEW b \in Bytes, ~raceFlag'[b] PROVE CheckedAt(b)'
  BY DEF Checked, CheckedAt
<1>0. Kind(t)
  BY Kinds
<1>1. ~raceFlag[b]
  <2>1. raceFlag' = raceFlag \/ SetFlag(t)
    BY <1>0 DEF Kind, Quiet, NextByte, EnterSlot, EndLoop, Loop, EndTask, StartTask, Starts
  <2>2. SetFlag(t) => (raceFlag[b] => raceFlag'[b])
    BY DEF SetFlag, Typed
  <2> QED
    BY <2>1, <2>2
<1>2. CheckedAt(b)
  BY <1>1 DEF Checked, CheckedAt
<1>3. CASE Quiet(t) \/ NextByte(t)
  <2>1. /\ performed' = performed /\ records' = records /\ task' = task /\ dup' = dup
        /\ Busy(t)' <=> Busy(t)
    BY <1>3 DEF Quiet, NextByte, Busy, Goto, Typed, program
  <2>2. \/ pc'[t] = pc[t] /\ byte'[t] = byte[t] /\ write'[t] = write[t]
        \/ pc[t] \notin InLoop /\ pc'[t] \notin InLoop
    BY <1>3 DEF Quiet, NextByte, Goto, Typed, InLoop, AtByte
  <2>3. ~(pc[t] \in AtByte /\ pc'[t] = "next")
    BY <1>3 DEF Quiet, NextByte, AtByte
  <2>4. \A a : Filtered(t, b, a)' => Filtered(t, b, a)
    BY <2>1, <2>2 DEF Filtered
  <2>5. b \in Pending(t) => b \in Pending(t)' /\ Current(t)' = Current(t)
    BY <1>0, <1>3, <2>3, PendingFrom DEF Quiet, NextByte, Starts
  <2> QED
    BY <1>2, <2>1, <2>2, <2>4, <2>5, CheckedStays DEF Current
<1>4. CASE EndTask(t) \/ \E k \in Tasks : StartTask(t, k)
  <2>1. /\ performed' = performed /\ records' = records
        /\ pc[t] \in {"idle", "running"}
        /\ ~Busy(t)' \/ dup'[t] = {}
    BY <1>4 DEF EndTask, StartTask, Goto, Typed, Busy
  <2> QED
    BY <1>2, <2>1, CheckedStays DEF Filtered, Pending, AtByte, InLoop
<1>5. CASE \E first, end \in Bytes, w \in BOOLEAN : Starts(t, first, end, w)
  BY <1>2, <1>5, CheckedStart
<1> QED
  BY <1>0, <1>1, <1>2, <1>3, <1>4, <1>5, CheckedEnter, CheckedLoop, CheckedEnd DEF Kind

-----------------------------------------------------------------------------
(* The accounts of the races *)

LEMMA CountedBytes ==
  ASSUME Typed, Placed
  PROVE  /\ Flagged \subseteq Listed /\ Listed \subseteq Counted /\ Counted \subseteq Bytes
         /\ IsFiniteSet(Flagged) /\ IsFiniteSet(Listed) /\ IsFiniteSet(Counted)
<1>1. Flagged \subseteq Listed /\ Listed \subseteq Counted /\ Counted \subseteq Bytes
  BY DEF Flagged, Listed, Counted, ByteOf, Placed, AtByte
<1>2. IsFiniteSet(Bytes)
  BY ProgramAssumption
<1> QED
  BY <1>1, <1>2, FS_Subset

LEMMA EmptyLines ==
  ASSUME NEW bytes, IsFiniteSet(bytes)
  PROVE  LinesFor(<<>>, bytes) <=> bytes = {}
<1>1. Len(<<>>) = 0 /\ DOMAIN <<>> = {}
  OBVIOUS
<1>2. Cardinality(bytes) = 0 <=> bytes = {}
  BY FS_EmptySet
<1> QED
  BY <1>1, <1>2 DEF LinesFor

\* A line for one more byte
LEMMA OneMoreLine ==
  ASSUME NEW s \in Seq(ReportLine), NEW r \in ReportLine, NEW bytes, IsFiniteSet(bytes), r.byte \notin bytes,
         LinesFor(s, bytes)
  PROVE  LinesFor(Append(s, r), bytes \cup {r.byte})
<1> DEFINE a == Append(s, r)
<1>1. /\ Len(s) \in Nat /\ DOMAIN s = 1..Len(s) /\ Len(a) = Len(s) + 1
      /\ DOMAIN a = 1..Len(s) + 1 /\ a[Len(s) + 1] = r /\ \A i \in 1..Len(s) : a[i] = s[i]
  BY AppendProperties, LenProperties
<1>2. Cardinality(bytes \cup {r.byte}) = Cardinality(bytes) + 1
  BY FS_AddElement
<1> HIDE DEF a
<1>3. {a[i].byte : i \in DOMAIN a} = {s[i].byte : i \in DOMAIN s} \cup {r.byte}
  <2>1. \A i \in DOMAIN a : i \in DOMAIN s \/ i = Len(s) + 1
    BY <1>1
  <2>2. \A i \in DOMAIN s : i \in DOMAIN a /\ a[i] = s[i]
    BY <1>1
  <2>3. Len(s) + 1 \in DOMAIN a
    BY <1>1
  <2> QED
    BY <1>1, <2>1, <2>2, <2>3
<1> QED
  BY <1>1, <1>2, <1>3 DEF LinesFor, a

\* How the bytes with threads at a place change with the place of one thread
LEMMA ByteOfSame ==
  ASSUME NEW t \in Threads, OnlyAt(t), NEW W,
         pc'[t] \in W <=> pc[t] \in W, pc[t] \in W => byte'[t] = byte[t]
  PROVE  ByteOf(W)' = ByteOf(W)
<1>1. \A u \in Threads : pc'[u] \in W <=> pc[u] \in W
  BY DEF OnlyAt
<1>2. \A u \in Threads : pc[u] \in W => byte'[u] = byte[u]
  BY DEF OnlyAt
<1> QED
  BY <1>1, <1>2 DEF ByteOf

LEMMA ByteOfMore ==
  ASSUME NEW t \in Threads, OnlyAt(t), NEW W, pc[t] \notin W, pc'[t] \in W, byte'[t] = byte[t]
  PROVE  ByteOf(W)' = ByteOf(W) \cup {byte[t]}
<1>1. \A u \in Threads : pc'[u] \in W <=> pc[u] \in W \/ u = t
  BY DEF OnlyAt
<1>2. \A u \in Threads : byte'[u] = byte[u]
  BY DEF OnlyAt
<1> QED
  BY <1>1, <1>2 DEF ByteOf

LEMMA ByteOfLess ==
  ASSUME NEW t \in Threads, OnlyAt(t), NEW W, pc[t] \in W, pc'[t] \notin W, byte'[t] = byte[t]
  PROVE  ByteOf(W)' \cup {byte[t]} = ByteOf(W)
<1>1. \A u \in Threads : pc[u] \in W <=> pc'[u] \in W \/ u = t
  BY DEF OnlyAt
<1>2. \A u \in Threads : byte'[u] = byte[u]
  BY DEF OnlyAt
<1> QED
  BY <1>1, <1>2 DEF ByteOf

\* Steps that count nothing
Calm(t) == /\ UNCHANGED <<mode, raceFlag, found, num, list, output, printed>>
           /\ pc'[t] \in {"list", "push"} <=> pc[t] \in {"list", "push"}
           /\ pc'[t] = "flag" <=> pc[t] = "flag"
           /\ pc[t] \in {"list", "push", "flag"} => byte'[t] = byte[t]

LEMMA CalmSteps ==
  ASSUME Typed, Placed, NEW t \in Threads, StepOf(t),
         ~(omptInitialize \/ omptFinalize \/ CountRace(t) \/ PushRace(t) \/ SetFlag(t))
  PROVE  Calm(t)
<1> USE DEF program, locals, races
<1>1. UNCHANGED <<mode, raceFlag, found, num, list, output, printed>>
  BY DEF StepOf, vars, CreateTask, Dependences, AddDeps, EndTask, StartTask, checkAccess, NextByte, EnterSlot, SameTask,
     AskRegion, SearchPath, ListSize, EndLoop
<1>2. CASE ListSize(t)
  BY <1>1, <1>2 DEF ListSize, Goto, Typed, Calm
<1>3. CASE pc' = pc /\ byte' = byte
  BY <1>1, <1>3 DEF Calm
<1>4. CASE pc[t] \notin {"list", "push", "flag"} /\ \E w \in Places \ {"list", "push", "flag"} : Goto(t, w)
  BY <1>1, <1>4 DEF Goto, Typed, Calm
<1>5. \/ ListSize(t) \/ (pc' = pc /\ byte' = byte)
      \/ pc[t] \notin {"list", "push", "flag"} /\ \E w \in Places \ {"list", "push", "flag"} : Goto(t, w)
  <2>1. CASE UNCHANGED vars \/ \E k \in Tasks : CreateTask(k)
    BY <2>1 DEF vars, CreateTask
  <2>2. CASE t = Producer /\ \E k \in Tasks : Dependences(k) \/ AddDeps(k)
    BY <2>2 DEF Dependences, AddDeps, Places
  <2>3. CASE EndTask(t) \/ \E k \in Tasks : StartTask(t, k)
    BY <2>3 DEF EndTask, StartTask, Places
  <2>4. CASE \E first, end \in Bytes, w \in BOOLEAN : first <= end /\ checkAccess(t, first, end, w)
    BY <2>4 DEF checkAccess, Places, AtByte
  <2>5. CASE NextByte(t)
    BY <2>5 DEF NextByte, Places, AtByte
  <2>6. CASE EnterSlot(t) \/ EndLoop(t)
    BY <2>6 DEF EnterSlot, EndLoop, AddCurrent, Return, Places, AtByte
  <2>7. CASE SameTask(t) \/ AskRegion(t) \/ SearchPath(t)
    BY <2>7 DEF SameTask, AskRegion, SearchPath, AtRecord, Places, AtByte
  <2> QED
    BY <2>1, <2>2, <2>3, <2>4, <2>5, <2>6, <2>7 DEF StepOf
<1> QED
  BY <1>2, <1>3, <1>4, <1>5

\* Nothing is under way: no thread moves.
LEMMA Still ==
  ASSUME Idle, (\A k \in Tasks : state[k] = "done") \/ (mode = None /\ \A k \in Tasks : state[k] = "new"),
         NEW t \in Threads, StepOf(t)
  PROVE  omptInitialize \/ omptFinalize \/ UNCHANGED vars
<1>1. pc[t] = "idle"
  BY DEF Idle
<1> QED
  BY <1>1 DEF StepOf, CreateTask, Dependences, AddDeps, EndTask, StartTask, checkAccess, NextByte, EnterSlot, SameTask,
     AskRegion, AtRecord, SearchPath, CountRace, ListSize, PushRace, SetFlag, EndLoop

LEMMA AccountsInitialize ==
  ASSUME Typed, Placed, Accounts, omptInitialize
  PROVE  Accounts'
<1>1. /\ mode = None /\ mode' \in {"silent", "line", "runtime"} /\ mode' # None
      /\ UNCHANGED <<state, pc, byte, raceFlag, found, num, list, output, printed>>
  <2>1. setup \in Setups
    BY DEF Typed
  <2> QED
    BY <2>1, ProgramAssumption DEF omptInitialize, program, locals, races
<1>2. num = 0 /\ output = <<>> /\ list = <<>> /\ Idle
  BY <1>1 DEF Accounts, Before
<1>3. IsFiniteSet(Counted) /\ Listed \subseteq Counted /\ Flagged \subseteq Counted
  BY CountedBytes
<1>4. Counted = {} /\ Listed = {} /\ Flagged = {}
  <2>1. Cardinality(Counted) = 0
    BY <1>2 DEF Accounts, Counts
  <2> QED
    BY <1>3, <2>1, FS_EmptySet
<1>5. Counted' = Counted /\ Listed' = Listed /\ Flagged' = Flagged
  BY <1>1 DEF Counted, Listed, Flagged, ByteOf
<1>6. LinesFor(<<>>, {})
  BY FS_EmptySet, EmptyLines
<1>7. Counts'
  BY <1>1, <1>5 DEF Accounts, Counts
<1>8. Lines'
  BY <1>1, <1>2, <1>4, <1>5, <1>6 DEF Lines, Idle
<1>9. Before' /\ Idle'
  BY <1>1, <1>2 DEF Before, Idle
<1>10. ReportAccounts => ReportAccounts'
  <2>1. mode # "silent"
    BY <1>1, ProgramAssumption
  <2> QED
    BY <1>1, <1>5, <2>1 DEF ReportAccounts
<1>11. After'
  BY <1>1, <1>9, <1>10 DEF Accounts, After
<1> QED
  BY <1>7, <1>8, <1>9, <1>11 DEF Accounts

LEMMA AccountsFinalize ==
  ASSUME Typed, Placed, Accounts, omptFinalize
  PROVE  Accounts'
<1>1. /\ printed = None /\ Idle /\ \A k \in Tasks : state[k] = "done"
      /\ printed' = (IF found THEN num ELSE 0)
      /\ output' = IF found /\ mode = "line" THEN output \o list ELSE output
      /\ UNCHANGED <<mode, state, pc, byte, raceFlag, found, num, list>>
  BY DEF omptFinalize, program, locals, Idle
<1>2. Counted = Flagged /\ Listed = Flagged
  BY <1>1 DEF Idle, Counted, Listed, ByteOf
<1>3. Counted' = Counted /\ Listed' = Listed /\ Flagged' = Flagged
  BY <1>1 DEF Counted, Listed, Flagged, ByteOf
<1>4. num = Cardinality(Flagged) /\ printed' = num /\ num \in Nat /\ IsFiniteSet(Flagged)
  BY <1>1, <1>2, CountedBytes DEF Accounts, Counts, Typed
<1>5. mode = "line" => output' = list
  <2>1. ASSUME mode = "line", found PROVE output' = list
    <3>1. output = <<>> /\ list \in Seq(ReportLine)
      BY <1>1, <2>1 DEF Accounts, Lines, Typed
    <3>2. <<>> \o list = list
      BY <3>1, ConcatEmptySeq
    <3> QED
      BY <1>1, <2>1, <3>1, <3>2
  <2>2. ASSUME mode = "line", ~found PROVE output' = list
    <3>1. output = <<>> /\ LinesFor(list, Flagged) /\ Cardinality(Flagged) = 0 /\ list \in Seq(ReportLine)
      BY <1>1, <1>2, <1>4, <2>2 DEF Accounts, Lines, Counts, Typed
    <3>2. list = <<>>
      BY <3>1, EmptySeq DEF LinesFor
    <3> QED
      BY <1>1, <2>2, <3>1, <3>2
  <2> QED
    BY <2>1, <2>2
<1>6. ASSUME mode # "silent", mode # None PROVE LinesFor(output', Flagged)
  <2>1. mode \in {"silent", "line", "runtime"}
    <3>1. setup \in Setups /\ mode \in setup.modes \cup {None}
      BY DEF Typed
    <3> QED
      BY <1>6, <3>1, ProgramAssumption
  <2>2. CASE mode = "line"
    BY <1>2, <1>5, <2>2 DEF Accounts, Lines
  <2>3. CASE mode = "runtime"
    BY <1>1, <1>2, <2>3 DEF Accounts, Lines
  <2> QED
    BY <1>6, <2>1, <2>2, <2>3
<1>7. ASSUME mode = None PROVE LinesFor(output', Flagged)
  <2>1. num = 0 /\ output = <<>> /\ mode # "line"
    BY <1>7, ProgramAssumption DEF Accounts, Before
  <2>2. output' = <<>>
    BY <1>1, <2>1
  <2>3. Flagged = {}
    BY <1>4, <2>1, FS_EmptySet
  <2> QED
    BY <1>4, <2>2, <2>3, EmptyLines
<1>8. ReportAccounts'
  BY <1>1, <1>3, <1>4, <1>6, <1>7 DEF ReportAccounts, LinesFor
<1>9. Counts'
  BY <1>1, <1>3 DEF Accounts, Counts
<1>10. printed' # None
  BY <1>4, ProgramAssumption
<1>11. Lines'
  <2>1. mode = "runtime" => output' = output
    BY <1>1
  <2> QED
    BY <1>1, <1>3, <1>10, <2>1 DEF Accounts, Lines
<1>12. Before' /\ After'
  <2>1. Idle'
    BY <1>1 DEF Idle
  <2>2. mode = None => output' = <<>>
    BY <1>1, ProgramAssumption DEF Accounts, Before
  <2> QED
    BY <1>1, <1>8, <2>1, <2>2 DEF Before, After, Accounts
<1> QED
  BY <1>9, <1>11, <1>12 DEF Accounts

\* While a thread is in the loop, neither is the initialization to come nor the end past.
LEMMA Meanwhile ==
  ASSUME Accounts, NEW t \in Threads, pc[t] \in InLoop
  PROVE  mode # None /\ printed = None
BY DEF Accounts, Before, After, Idle, InLoop, AtByte

\* The byte of a thread in the loop has no mark yet, and is no other thread's.
LEMMA FreshByte ==
  ASSUME Placed, Queues, Loops, NEW t \in Threads, pc[t] \in InLoop, NEW W, W \subseteq InLoop, pc[t] \notin W
  PROVE  byte[t] \notin Flagged \cup ByteOf(W) /\ byte[t] \in Bytes
<1>1. byte[t] \in Bytes
  BY DEF Placed, InLoop
<1>2. byte[t] \notin Flagged
  BY DEF Loops, LoopOf, Flagged
<1>3. \A u \in Threads : pc[u] \in W => byte[u] # byte[t]
  BY OneAtByte
<1> QED
  BY <1>1, <1>2, <1>3 DEF ByteOf

LEMMA AccountsCount ==
  ASSUME Typed, Placed, Queues, Loops, Accounts, NEW t \in Threads, StepOf(t), CountRace(t)
  PROVE  Accounts'
<1>1. /\ pc[t] = "race" /\ byte' = byte /\ OnlyAt(t) /\ num' = num + 1 /\ found' = TRUE
      /\ UNCHANGED <<mode, raceFlag, list, printed>>
      /\ \/ mode = "line" /\ pc'[t] = "list" /\ output' = output
         \/ mode = "runtime" /\ pc'[t] = "flag" /\ output' = Append(output, Report(t))
         \/ mode = "silent" /\ pc'[t] = "flag" /\ output' = output
  BY OthersStay DEF CountRace, Goto, Typed, Others, OnlyAt, program, locals
<1>2. mode # None /\ printed = None
  BY <1>1, Meanwhile DEF InLoop, AtByte
<1>3. Counted' = Counted \cup {byte[t]} /\ byte[t] \notin Counted
  <2> DEFINE W == {"list", "push", "flag"}
  <2>1. W \subseteq InLoop /\ pc[t] \in InLoop /\ pc[t] \notin W /\ pc'[t] \in W
    BY <1>1 DEF InLoop, AtByte
  <2> HIDE DEF W
  <2>2. ByteOf(W)' = ByteOf(W) \cup {byte[t]}
    BY <1>1, <2>1, ByteOfMore
  <2>3. byte[t] \notin Flagged \cup ByteOf(W)
    BY <2>1, FreshByte
  <2>4. Flagged' = Flagged
    BY <1>1 DEF Flagged
  <2> QED
    BY <2>2, <2>3, <2>4 DEF Counted, W
<1>4. Counts'
  <2>1. Cardinality(Counted \cup {byte[t]}) = Cardinality(Counted) + 1
    BY <1>3, CountedBytes, FS_AddElement
  <2> QED
    BY <1>1, <1>3, <2>1 DEF Accounts, Counts
<1>5. CASE mode = "line"
  <2>1. pc'[t] = "list" /\ output' = output
    BY <1>1, <1>5
  <2>2. ByteOf({"flag"})' = ByteOf({"flag"}) /\ Flagged' = Flagged
    BY <1>1, <2>1, ByteOfSame DEF Flagged
  <2>3. Listed' = Listed
    BY <2>2 DEF Listed
  <2> QED
    BY <1>1, <1>2, <1>4, <1>5, <2>1, <2>3 DEF Accounts, Lines, Before, After
<1>6. CASE mode # "line"
  <2>1. \A u \in Threads : pc'[u] \notin {"list", "push"}
    BY <1>1, <1>6 DEF Accounts, Lines, OnlyAt
  <2>2. mode = "runtime" => LinesFor(output', Counted')
    <3>1. SUFFICES ASSUME mode = "runtime" PROVE LinesFor(Append(output, Report(t)), Counted \cup {byte[t]})
      BY <1>1, <1>3
    <3>2. Report(t) \in ReportLine /\ Report(t).byte = byte[t] /\ output \in Seq(ReportLine)
      BY <1>1, AtRecordIs DEF Report, InLoop, AtByte, Typed
    <3>3. LinesFor(output, Counted) /\ IsFiniteSet(Counted)
      BY <3>1, CountedBytes DEF Accounts, Lines
    <3>4. Report(t).byte \notin Counted
      BY <1>3, <3>2
    <3>5. LinesFor(Append(output, Report(t)), Counted \cup {Report(t).byte})
      BY <3>2, <3>3, <3>4, OneMoreLine
    <3> QED
      BY <3>2, <3>5
  <2> QED
    BY <1>1, <1>2, <1>4, <1>6, <2>1, <2>2 DEF Accounts, Lines, Before, After
<1> QED
  BY <1>5, <1>6

LEMMA AccountsPush ==
  ASSUME Typed, Placed, Queues, Loops, Accounts, NEW t \in Threads, StepOf(t), PushRace(t)
  PROVE  Accounts'
<1>1. /\ pc[t] = "push" /\ pc'[t] = "flag" /\ byte' = byte /\ OnlyAt(t)
      /\ UNCHANGED <<mode, raceFlag, found, num, output, printed>>
      /\ list' = Append(SubSeq(list, 1, size[t]), Report(t))
  BY OthersStay DEF PushRace, Goto, Typed, Others, OnlyAt, program
<1>2. mode = "line" /\ mode # None /\ printed = None
  BY <1>1, Meanwhile DEF InLoop, AtByte, Accounts, Lines
<1>3. Flagged' = Flagged
  BY <1>1 DEF Flagged
<1>4. Counted' = Counted
  <2>1. ByteOf({"list", "push", "flag"})' = ByteOf({"list", "push", "flag"})
    BY <1>1, ByteOfSame
  <2> QED
    BY <1>3, <2>1 DEF Counted
<1>5. Listed' = Listed \cup {byte[t]} /\ byte[t] \notin Listed
  <2> DEFINE W == {"flag"}
  <2>1. W \subseteq InLoop /\ pc[t] \in InLoop /\ pc[t] \notin W /\ pc'[t] \in W
    BY <1>1 DEF InLoop, AtByte
  <2> HIDE DEF W
  <2>2. ByteOf(W)' = ByteOf(W) \cup {byte[t]}
    BY <1>1, <2>1, ByteOfMore
  <2>3. byte[t] \notin Flagged \cup ByteOf(W)
    BY <2>1, FreshByte
  <2> QED
    BY <1>3, <2>2, <2>3 DEF Listed, W
<1>6. LinesFor(list', Listed')
  <2>1. Report(t) \in ReportLine /\ Report(t).byte = byte[t]
    BY <1>1, AtRecordIs DEF Report, InLoop, AtByte
  <2>2. list' = Append(list, Report(t)) /\ list \in Seq(ReportLine)
    BY <1>1, WholeList
  <2>3. LinesFor(list, Listed) /\ IsFiniteSet(Listed)
    BY <1>2, CountedBytes DEF Accounts, Lines
  <2>4. LinesFor(Append(list, Report(t)), Listed \cup {Report(t).byte})
    BY <1>5, <2>1, <2>2, <2>3, OneMoreLine
  <2> QED
    BY <1>5, <2>1, <2>2, <2>4
<1>7. Counts'
  BY <1>1, <1>4 DEF Accounts, Counts
<1>8. Lines'
  BY <1>1, <1>2, <1>6, ProgramAssumption DEF Accounts, Lines
<1> QED
  BY <1>1, <1>2, <1>7, <1>8 DEF Accounts, Before, After

LEMMA AccountsFlag ==
  ASSUME Typed, Placed, Queues, Loops, Accounts, NEW t \in Threads, StepOf(t), SetFlag(t)
  PROVE  Accounts'
<1>1. /\ pc[t] = "flag" /\ pc'[t] = "next" /\ byte' = byte /\ OnlyAt(t)
      /\ UNCHANGED <<mode, found, num, output, list, printed>>
      /\ raceFlag' = [raceFlag EXCEPT ![byte[t]] = TRUE]
  BY OthersStay DEF SetFlag, AddCurrent, Return, Goto, Typed, Others, OnlyAt, program, races
<1>2. mode # None /\ printed = None
  BY <1>1, Meanwhile DEF InLoop, AtByte
<1>3. Flagged' = Flagged \cup {byte[t]}
  <2>1. byte[t] \in Bytes
    BY <1>1 DEF Placed, AtByte
  <2> QED
    BY <1>1, <2>1 DEF Flagged, Typed
<1>4. ByteOf({"flag"})' \cup {byte[t]} = ByteOf({"flag"})
  BY <1>1, ByteOfLess
<1>5. ByteOf({"list", "push", "flag"})' \cup {byte[t]} = ByteOf({"list", "push", "flag"})
  BY <1>1, ByteOfLess
<1>6. Counted' = Counted /\ Listed' = Listed
  BY <1>3, <1>4, <1>5 DEF Counted, Listed
<1>7. \A u \in Threads : pc'[u] \in {"list", "push"} => pc[u] \in {"list", "push"}
  BY <1>1 DEF OnlyAt
<1> QED
  BY <1>1, <1>2, <1>6, <1>7 DEF Accounts, Counts, Lines, Before, After

LEMMA AccountsCalm ==
  ASSUME Typed, Placed, Accounts, NEW t \in Threads, StepOf(t), Calm(t), ~omptInitialize, ~omptFinalize
  PROVE  Accounts'
<1>1. OnlyAt(t) /\ UNCHANGED <<mode, raceFlag, found, num, list, output, printed>>
  BY OthersStay DEF Calm, Others, OnlyAt
<1>2. Flagged' = Flagged
  BY <1>1 DEF Flagged
<1>3. ByteOf({"flag"})' = ByteOf({"flag"})
  BY <1>1, ByteOfSame DEF Calm
<1>4. ByteOf({"list", "push", "flag"})' = ByteOf({"list", "push", "flag"})
  BY <1>1, ByteOfSame DEF Calm
<1>5. Counted' = Counted /\ Listed' = Listed
  BY <1>2, <1>3, <1>4 DEF Counted, Listed
<1>6. \A u \in Threads : pc'[u] \in {"list", "push"} => pc[u] \in {"list", "push"}
  BY <1>1 DEF OnlyAt, Calm
<1>7. Counts' /\ Lines'
  BY <1>1, <1>5, <1>6 DEF Accounts, Counts, Lines
<1>8. CASE mode = None \/ printed # None
  <2>1. UNCHANGED vars
    BY <1>8, Still DEF Accounts, Before, After
  <2>2. ReportAccounts' <=> ReportAccounts
    BY <1>1, <1>2 DEF ReportAccounts
  <2> QED
    BY <1>7, <2>1, <2>2 DEF Accounts, Before, After, Idle, vars, program, races
<1>9. CASE mode # None /\ printed = None
  BY <1>1, <1>7, <1>9 DEF Accounts, Before, After
<1> QED
  BY <1>8, <1>9

LEMMA AccountsStep ==
  ASSUME Typed, Placed, Queues, Loops, Accounts, NEW t \in Threads, StepOf(t)
  PROVE  Accounts'
BY AccountsInitialize, AccountsFinalize, AccountsCount, AccountsPush, AccountsFlag, AccountsCalm, CalmSteps

-----------------------------------------------------------------------------
(* The theorems *)

LEMMA InitHolds ==
  ASSUME Init
  PROVE  IInv
<1> USE DEF Init
<1>1. <<>> \in Seq(Threads) /\ <<>> \in Seq(Access) /\ <<>> \in Seq(ReportLine) /\ DOMAIN <<>> = {} /\ Len(<<>>) = 0
  OBVIOUS
<1>2. Typed
  BY <1>1 DEF Typed, Places
<1>3. \A t \in Threads : /\ pc[t] = "idle" /\ ~Busy(t) /\ pc[t] \notin AtByte /\ pc[t] \notin InLoop /\ ~skipAddCur[t]
                         /\ Pending(t) = {} /\ dup[t] = {} /\ Wants(t) = {} /\ Has(t) = {}
  BY DEF Busy, AtByte, InLoop, Pending, Wants, Has
<1>4. Placed
  BY <1>3 DEF Placed
<1>5. Queues
  BY <1>1, <1>3 DEF Queues, Queued, Elems
<1>6. InOrder
  <2>1. \A e \in DependsOn : e[2] \in Tasks
    BY DependencesAreTasks
  <2> QED
    BY <1>1, <2>1 DEF InOrder, StartedTask
<1>7. Loops /\ Unordered
  BY <1>3 DEF Loops, Unordered
<1>8. PendingMade /\ FilteredMade /\ Checked
  BY <1>3 DEF PendingMade, FilteredMade, Checked, Settled
<1>9. Counted = {} /\ Listed = {} /\ Flagged = {}
  BY DEF Counted, Listed, Flagged, ByteOf
<1>10. Accounts
  <2>1. Counts
    BY <1>9, FS_EmptySet DEF Counts
  <2>2. Lines
    BY <1>3, <1>9, EmptyLines, FS_EmptySet DEF Lines
  <2>3. Before /\ After
    BY <1>3 DEF Before, After, Idle
  <2> QED
    BY <2>1, <2>2, <2>3 DEF Accounts
<1> QED
  BY <1>2, <1>4, <1>5, <1>6, <1>7, <1>8, <1>10 DEF IInv

\* What holds between the steps of the threads, for any number of them: who is
\* in the queue of which lock, what the histories stand for and what the races
\* add up to.
THEOREM SpecInvariant == Spec => []IInv
<1>1. ASSUME IInv, [Next]_vars PROVE IInv'
  <2>1. PICK t \in Threads : StepOf(t)
    BY <1>1, StepCases
  <2>2. Typed'
    BY <1>1, TypedStep DEF IInv
  <2>3. Placed'
    BY <1>1, <2>1, <2>2, PlacedStep DEF IInv
  <2>4. Queues'
    BY <1>1, <2>1, <2>3, QueuesStep DEF IInv
  <2>5. InOrder'
    BY <1>1, <2>1, InOrderStep DEF IInv
  <2>6. Loops'
    BY <1>1, <2>1, LoopsStep DEF IInv
  <2>7. Unordered'
    BY <1>1, <2>1, UnorderedStep DEF IInv
  <2>8. PendingMade' /\ FilteredMade'
    BY <1>1, <2>1, PendingMadeStep, FilteredMadeStep DEF IInv
  <2>9. Checked'
    BY <1>1, <2>1, CheckedStep DEF IInv
  <2>10. Accounts'
    BY <1>1, <2>1, AccountsStep DEF IInv
  <2> QED
    BY <2>2, <2>3, <2>4, <2>5, <2>6, <2>7, <2>8, <2>9, <2>10 DEF IInv
<1> QED
  BY <1>1, InitHolds, PTL DEF Spec

\* TypeOK: nobody is twice in the queue of a lock, and who looks at a record of a
\* history holds the lock of its byte.
THEOREM TypeCorrect == Spec => []TypeOK
<1>1. ASSUME IInv PROVE TypeOK
  <2>1. \A l \in LockNames : /\ queue[l] \in Seq(Threads)
                             /\ \A i, j \in DOMAIN queue[l] : queue[l][i] = queue[l][j] => i = j
    BY <1>1 DEF IInv, Typed, Queues, Queued
  <2>2. ASSUME NEW t \in Threads, pc[t] \in {"loop", "search", "race", "list", "push", "flag"}
        PROVE  Holds(t, byte[t])
    <3>1. byte[t] \in LockNames /\ byte[t] \in Has(t)
      BY <1>1, <2>2, LockNamesDistinct DEF IInv, Placed, AtByte, Has, InLoop
    <3> QED
      BY <1>1, <3>1 DEF IInv, Queues, Queued
  <2>3. ASSUME NEW t \in Threads, pc[t] \in {"search", "race"}
        PROVE  it[t] \in 1..Len(records[byte[t]])
    BY <1>1, <2>3, AtRecordIs DEF IInv, InLoop, AtByte
  <2> QED
    BY <1>1, <2>1, <2>2, <2>3 DEF IInv, Typed, TypeOK, Access
<1> QED
  BY <1>1, SpecInvariant, PTL

\* RacesFound: two accesses of unordered tasks to a byte, one of them a write,
\* have marked it when no thread is inside checkAccess, whatever the order in
\* which the threads took the locks.
THEOREM RacesFoundHolds == Spec => []RacesFound
<1>1. ASSUME IInv PROVE RacesFound
  <2> SUFFICES ASSUME \A t \in Threads : ~Inside(t), NEW b \in Bytes,
                      NEW p \in performed[b], NEW q \in performed[b], Race(p, q), ~raceFlag[b]
               PROVE  FALSE
    BY DEF RacesFound
  <2>1. \A t \in Threads : Pending(t) = {}
    BY DEF Inside, Pending, AtByte
  <2>2. p \in Settled(b) /\ q \in Settled(b)
    BY <2>1 DEF Settled
  <2> QED
    BY <1>1, <2>2 DEF IInv, Checked
<1> QED
  BY <1>1, SpecInvariant, PTL

\* DependentTasksSilent: where the runtime answers, a thread reports a race only
\* between tasks that no dependences order.
THEOREM DependentTasksSilentHolds == Spec => []DependentTasksSilent
<1>1. ASSUME IInv PROVE DependentTasksSilent
  BY <1>1 DEF IInv, Unordered, DependentTasksSilent
<1> QED
  BY <1>1, SpecInvariant, PTL

\* ReportAccounts: what omptFinalize prints is the number of the bytes that are
\* marked, and each of them has one line, whatever the threads did at once.
THEOREM ReportAccountsHolds == Spec => []ReportAccounts
<1>1. ASSUME IInv PROVE ReportAccounts
  BY <1>1 DEF IInv, Accounts, After, ReportAccounts
<1> QED
  BY <1>1, SpecInvariant, PTL
=============================================================================
