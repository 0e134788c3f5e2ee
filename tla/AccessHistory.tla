---------------------------- MODULE AccessHistory ----------------------------
(***************************************************************************)
(* The access history of one memory location: checkDataRace of RompLib.cpp *)
(* with the analysis and the pruning of Core.cpp that it calls for every   *)
(* record, and the callbacks that change the lock set and the reduction    *)
(* state of a task.                                                        *)
(*                                                                         *)
(* The program under test is a set of stretches, a stretch being what a    *)
(* task executes under one label.  Which stretches are ordered is given;   *)
(* how labels encode that order is the subject of other modules.  An       *)
(* execution runs some of the stretches.                                   *)
(***************************************************************************)
EXTENDS LockSet, FiniteSets

CONSTANTS Stretches,   \* the stretches of the program
          Before,      \* pairs ordered by their labels (happensBefore)
          Popped,      \* the pairs of Before in which the later label is a prefix of the earlier
          Path,        \* pairs ordered by a path in the task dependence graph
          Explicit,    \* stretches of explicit tasks
          MutexTasks,  \* those of tasks with a mutexinoutset dependence
          Executions,  \* the executions there are: records with
                       \* - runs, the stretches that run,
                       \* - reducers, those of them that may enter a reduction,
                       \* - locks, the locks they may take,
                       \* - hwLock, whether instructions may carry a lock prefix: a set of booleans,
                       \* - maxRecords, a bound: no access is made on a history as long as this,
                       \* - maxAccesses, a bound: so many different accesses are made
          None         \* no access is being checked

\* A happens before B, whatever tells the detector so.
Ordered(p, q) == <<p, q>> \in Before \cup Path

ASSUME ProgramAssumption ==
  /\ Before \subseteq Stretches \X Stretches
  /\ Popped \subseteq Before
  /\ Explicit \subseteq Stretches /\ MutexTasks \subseteq Explicit
  /\ Path \subseteq Explicit \X Explicit
  /\ \A e \in Executions : /\ e.reducers \subseteq e.runs /\ e.runs \subseteq Stretches
                           /\ e.locks \subseteq Locks /\ e.hwLock \subseteq BOOLEAN
  /\ \A p \in Stretches : ~Ordered(p, p)
  /\ \A p, q, r \in Stretches : Ordered(p, q) /\ Ordered(q, r) => Ordered(p, r)

VARIABLES execution,   \* the execution this is, which no step changes
          phase,       \* whether a stretch is still to run, runs, is over, or never runs
          lockSet,     \* TaskData.lockSet of the task that runs the stretch
          inReduction, \* TaskData.inReduction of that task
          dup,         \* what dupReadTable/dupWriteTable know under the current labelId
          records,     \* AccessHistory._records
          raceFlag,    \* eDataRaceFound in AccessHistory._state
          reports,     \* the races reported, as <<history record, current record>>
          cur,         \* curRecord of the access that holds the slot's lock, or None
          it,          \* the iterator of the loop over the records
          step,        \* where in the loop that access is
          isHistBeforeCurrent, diffIndex, skipAddCur,  \* its locals
          performed    \* every access checked so far (history variable)

tasks == <<execution, phase, lockSet, inReduction, dup>>
program == <<tasks, performed>>
history == <<records, raceFlag, reports>>
loop == <<cur, it, step, isHistBeforeCurrent, diffIndex, skipAddCur>>
vars == <<program, history, loop>>

\* What compareLabels returns: one of three codes or the index of the first
\* pair of different segments, which is all the same to this module.
DiffIndex == {"eSameLabel", "eLeftIsPrefix", "eRightIsPrefix", "index"}

Record == [at : Stretches, write : BOOLEAN, locks : LockSets, hw : BOOLEAN]

ASSUME NoneAssumption == None \notin Record

Access == [at : Stretches, write : BOOLEAN, locks : LockSets, hw : BOOLEAN, reduction : BOOLEAN]

Init == /\ execution \in Executions
        /\ phase = [p \in Stretches |-> IF p \in execution.runs THEN "todo" ELSE "never"]
        /\ lockSet = [p \in Stretches |-> NullLockSet]
        /\ inReduction = [p \in Stretches |-> FALSE]
        /\ dup = [p \in Stretches |-> {}]
        /\ performed = {}
        /\ records = <<>>
        /\ raceFlag = FALSE
        /\ reports = <<>>
        /\ cur = None
        /\ it = 0
        /\ step = "free"
        /\ isHistBeforeCurrent = FALSE
        /\ diffIndex = "index"
        /\ skipAddCur = FALSE

-----------------------------------------------------------------------------
(* The program under test *)

\* A stretch runs and its thread is not inside checkDataRace.
Running(p) == phase[p] = "running" /\ (step # "free" => cur.at # p)

\* A stretch starts when all that happens before it is over; the callback
\* that gave it its label has counted labelId up.
Start(p) == /\ phase[p] = "todo"
            /\ \A q \in execution.runs : Ordered(q, p) => phase[q] = "over"
            /\ phase' = [phase EXCEPT ![p] = "running"]
            /\ UNCHANGED <<execution, lockSet, inReduction, dup, performed, history, loop>>

Finish(p) == /\ Running(p)
             /\ LocksOf(lockSet[p]) = {}
             /\ ~inReduction[p]
             /\ phase' = [phase EXCEPT ![p] = "over"]
             /\ UNCHANGED <<execution, lockSet, inReduction, dup, performed, history, loop>>

\* on_ompt_callback_mutex_acquired: labelId is counted up, so the duplicate
\* tables no longer match.  A fifth nested lock ends the program.
MutexAcquired(p, lock) ==
  /\ Running(p)
  /\ \A q \in Stretches : lock \notin LocksOf(lockSet[q])
  /\ Cardinality(LocksOf(lockSet[p])) < LockLimit
  /\ lockSet' = [lockSet EXCEPT ![p] = addLock(@, lock)]
  /\ dup' = [dup EXCEPT ![p] = {}]
  /\ UNCHANGED <<execution, phase, inReduction, performed, history, loop>>

\* on_ompt_callback_mutex_released
MutexReleased(p, lock) ==
  /\ Running(p)
  /\ lock \in LocksOf(lockSet[p])
  /\ lockSet' = [lockSet EXCEPT ![p] = removeLock(@, lock)]
  /\ dup' = [dup EXCEPT ![p] = {}]
  /\ UNCHANGED <<execution, phase, inReduction, performed, history, loop>>

\* The begin and the end of a reduction (on_ompt_callback_reduction).
Reduction(p) == /\ Running(p)
                /\ p \in execution.reducers
                /\ inReduction' = [inReduction EXCEPT ![p] = ~@]
                /\ dup' = [dup EXCEPT ![p] = {}]
                /\ UNCHANGED <<execution, phase, lockSet, performed, history, loop>>

-----------------------------------------------------------------------------
(* checkDataRace *)

Push(r) == records' = Append(records, r)

\* The lock of the slot is released and the locals are gone.
Return == /\ performed' = performed \cup {[at |-> cur.at, write |-> cur.write, locks |-> cur.locks,
                                          hw |-> cur.hw, reduction |-> inReduction[cur.at]]}
          /\ cur' = None
          /\ it' = 0
          /\ step' = "free"
          /\ isHistBeforeCurrent' = FALSE
          /\ diffIndex' = "index"
          /\ skipAddCur' = FALSE

\* The loop starts with diffIndex uninitialised.
EnterLoop(r) == /\ cur' = r
                /\ it' = 1
                /\ step' = "analyze"
                /\ isHistBeforeCurrent' = FALSE
                /\ diffIndex' \in DiffIndex
                /\ skipAddCur' = FALSE

\* An access takes the lock of the slot and goes through the checks before
\* the loop: race already found, a duplicate, the first access.
CheckAccess(p, write, hw) ==
  LET r == [at |-> p, write |-> write, locks |-> lockSet[p], hw |-> hw]
      a == [at |-> p, write |-> write, locks |-> lockSet[p], hw |-> hw,
            reduction |-> inReduction[p]]
  IN  /\ step = "free"
      /\ Running(p)
      /\ Len(records) < execution.maxRecords
      /\ Cardinality(performed \cup {a}) <= execution.maxAccesses
      /\ \/ /\ raceFlag
            /\ records' = <<>>
            /\ performed' = performed \cup {a}
            /\ UNCHANGED <<dup, raceFlag, reports, loop>>
         \/ /\ ~raceFlag
            /\ write \in dup[p]
            /\ performed' = performed \cup {a}
            /\ UNCHANGED <<dup, history, loop>>
         \/ /\ ~raceFlag
            /\ write \notin dup[p]
            /\ dup' = [dup EXCEPT ![p] = @ \cup {write}]
            /\ UNCHANGED <<raceFlag, reports>>
            /\ IF records = <<>> THEN Push(r) /\ performed' = performed \cup {a} /\ UNCHANGED loop
                                 ELSE EnterLoop(r) /\ UNCHANGED <<records, performed>>
      /\ UNCHANGED <<execution, phase, lockSet, inReduction>>

\* Mutated form of analyzeMutualExclusion: only the lock prefixes count.
analyzeHwExclusion(hist, c) ==
  /\ hist.locks # NullLockSet
  /\ c.locks # NullLockSet
  /\ hist.hw /\ c.hw

\* analyzeMutualExclusion: without a lock set nothing else is looked at.
analyzeMutualExclusion(hist, c) ==
  /\ hist.locks # NullLockSet
  /\ c.locks # NullLockSet
  /\ hasCommonLock(hist.locks, c.locks) \/ (hist.hw /\ c.hw)

\* The early returns of analyzeRaceCondition before happensBefore is called.
Excluded(hist, c) == analyzeMutualExclusion(hist, c) \/ inReduction[c.at]

compareLabels(hist, c) ==
  CASE hist.at = c.at -> {"eSameLabel"}
    [] <<hist.at, c.at>> \in Popped -> {"eRightIsPrefix"}
    [] <<hist.at, c.at>> \in Before \ Popped -> {"eLeftIsPrefix", "index"}
    [] OTHER -> {"index"}

happensBefore(hist, c, diff) ==
  diff # "eRightIsPrefix" /\ (hist.at = c.at \/ <<hist.at, c.at>> \in Before)

BothExplicit(hist, c) == hist.at \in Explicit /\ c.at \in Explicit

\* The answer of analyzeRaceCondition once the labels are compared, and what
\* it leaves in isHistBeforeCur.
MutexPair(hist, c) == BothExplicit(hist, c) /\ hist.at \in MutexTasks /\ c.at \in MutexTasks

HistBefore(hist, c, diff) ==
  \/ happensBefore(hist, c, diff)
  \/ /\ diff # "eRightIsPrefix"
     /\ BothExplicit(hist, c) /\ ~MutexPair(hist, c)
     /\ <<hist.at, c.at>> \in Path

IsRace(hist, c, diff) ==
  /\ diff # "eRightIsPrefix"
  /\ ~HistBefore(hist, c, diff)
  /\ ~MutexPair(hist, c)
  /\ hist.write \/ c.write

AtRecord(where) == step = where /\ it <= Len(records)

\* analyzeRaceCondition returns before it has set isHistBeforeCur and
\* diffIndex: they keep what the previous record left in them.
AnalyzeExcluded ==
  /\ AtRecord("analyze")
  /\ Excluded(records[it], cur)
  /\ step' = "manage"
  /\ UNCHANGED <<program, history, cur, it, isHistBeforeCurrent, diffIndex, skipAddCur>>

AnalyzeOrdered ==
  /\ AtRecord("analyze")
  /\ ~Excluded(records[it], cur)
  /\ \E diff \in compareLabels(records[it], cur) :
       /\ ~IsRace(records[it], cur, diff)
       /\ isHistBeforeCurrent' = HistBefore(records[it], cur, diff)
       /\ diffIndex' = diff
  /\ step' = "manage"
  /\ UNCHANGED <<program, history, cur, it, skipAddCur>>

\* Mutated form of ReportRace: the location is not marked.
ReportUnmarked ==
  /\ AtRecord("analyze")
  /\ ~Excluded(records[it], cur)
  /\ \E diff \in compareLabels(records[it], cur) : IsRace(records[it], cur, diff)
  /\ reports' = Append(reports, <<records[it], cur>>)
  /\ IF skipAddCur THEN UNCHANGED records ELSE Push(cur)
  /\ Return
  /\ UNCHANGED <<tasks, raceFlag>>

\* The race is reported and the loop is left; the record is still added.
ReportRace ==
  /\ AtRecord("analyze")
  /\ ~Excluded(records[it], cur)
  /\ \E diff \in compareLabels(records[it], cur) : IsRace(records[it], cur, diff)
  /\ raceFlag' = TRUE
  /\ reports' = Append(reports, <<records[it], cur>>)
  /\ IF skipAddCur THEN UNCHANGED records ELSE Push(cur)
  /\ Return
  /\ UNCHANGED tasks

\* Mutated form of manageAccessRecord: a write gives way to a later read.
manageAnyKind(hist, c, histBefore, diff) ==
  IF histBefore /\ isSubset(c.locks, hist.locks)
  THEN "eDelHist"
  ELSE IF diff = "eSameLabel" /\ (c.write => hist.write) /\ isSubset(hist.locks, c.locks)
  THEN "eSkipAddCur"
  ELSE "eNoOp"

\* Mutated form of manageAccessRecord: a record gives way to an access under locks
\* it was not made under.
manageUnderAnyLock(hist, c, histBefore, diff) ==
  IF (hist.write => c.write) /\ histBefore
  THEN "eDelHist"
  ELSE IF diff = "eSameLabel" /\ (c.write => hist.write) /\ isSubset(hist.locks, c.locks)
  THEN "eSkipAddCur"
  ELSE "eNoOp"

\* manageAccessRecord
manageAccessRecord(hist, c, histBefore, diff) ==
  IF (hist.write => c.write) /\ histBefore /\ isSubset(c.locks, hist.locks)
  THEN "eDelHist"
  ELSE IF diff = "eSameLabel" /\ (c.write => hist.write) /\ isSubset(hist.locks, c.locks)
  THEN "eSkipAddCur"
  ELSE "eNoOp"

Decision == manageAccessRecord(records[it], cur, isHistBeforeCurrent, diffIndex)

\* Mutated form of ManageRecord: the iterator advances after an erasure too.
ManageAndAdvance ==
  /\ AtRecord("manage")
  /\ records' = IF Decision = "eDelHist" THEN RemoveAt(records, it) ELSE records
  /\ it' = it + 1
  /\ skipAddCur' = (skipAddCur \/ Decision = "eSkipAddCur")
  /\ step' = "analyze"
  /\ UNCHANGED <<program, raceFlag, reports, cur, isHistBeforeCurrent, diffIndex>>

\* modifyAccessHistory: an erased record leaves the iterator on the next one.
ManageRecord ==
  /\ AtRecord("manage")
  /\ IF Decision = "eDelHist"
     THEN records' = RemoveAt(records, it) /\ it' = it
     ELSE it' = it + 1 /\ UNCHANGED records
  /\ skipAddCur' = (skipAddCur \/ Decision = "eSkipAddCur")
  /\ step' = "analyze"
  /\ UNCHANGED <<program, raceFlag, reports, cur, isHistBeforeCurrent, diffIndex>>

\* The loop has seen every record.
EndLoop ==
  /\ step = "analyze"
  /\ it > Len(records)
  /\ IF skipAddCur THEN UNCHANGED records ELSE Push(cur)
  /\ Return
  /\ UNCHANGED <<tasks, raceFlag, reports>>

-----------------------------------------------------------------------------

Next == \/ \E p \in execution.runs :
             \/ Start(p) \/ Finish(p) \/ Reduction(p)
             \/ \E lock \in execution.locks : MutexAcquired(p, lock) \/ MutexReleased(p, lock)
             \/ \E write \in BOOLEAN, hw \in execution.hwLock : CheckAccess(p, write, hw)
        \/ AnalyzeExcluded \/ AnalyzeOrdered \/ ReportRace \/ ManageRecord \/ EndLoop

Spec == Init /\ [][Next]_vars

-----------------------------------------------------------------------------
(* Properties *)

\* Every variable has its type, and the iterator stays inside the records.
TypeOK == /\ execution \in Executions
          /\ phase \in [Stretches -> {"todo", "running", "over", "never"}]
          /\ lockSet \in [Stretches -> LockSets]
          /\ inReduction \in [Stretches -> BOOLEAN]
          /\ dup \in [Stretches -> SUBSET BOOLEAN]
          /\ performed \subseteq Access
          /\ records \in Seq(Record)
          /\ raceFlag \in BOOLEAN
          /\ step \in {"free", "analyze", "manage"}
          /\ step = "free" <=> cur = None
          /\ step # "free" => cur \in Record /\ it \in 1..Len(records)+1
          /\ step = "manage" => it \in 1..Len(records)
          /\ isHistBeforeCurrent \in BOOLEAN
          /\ diffIndex \in DiffIndex
          /\ skipAddCur \in BOOLEAN

\* Two accesses nothing orders and nothing excludes, one of them a write.
\* Accesses of a reduction are the runtime's own affair.
Race(a, b) == /\ a.at # b.at
              /\ ~Ordered(a.at, b.at) /\ ~Ordered(b.at, a.at)
              /\ a.write \/ b.write
              /\ LocksOf(a.locks) \cap LocksOf(b.locks) = {}
              /\ ~(a.hw /\ b.hw)
              /\ ~MutexPair(a, b)

\* No lock and no lock prefix excludes a race.
LockFree == execution.locks = {} /\ execution.hwLock = {FALSE}

\* Nothing but the order of the stretches excludes a race.
OrderOnly == LockFree /\ execution.reducers = {} /\ MutexTasks = {}

\* Whatever the pruning throws away, a race on the location is found as soon
\* as the second of its accesses has been checked.
RacesFound ==
  step = "free" /\ (\E a, b \in performed : ~a.reduction /\ ~b.reduction /\ Race(a, b))
    => raceFlag

\* To the program the history is as good as one that keeps every access: the
\* same access that completes the first race there marks the location here, and
\* nothing else marks it ("Driver function to do data race checking and access
\* history management", RompLib.cpp, line 28).  This is said of executions in which
\* only the order excludes races; of the others nothing.
PlainAccess == [at : Stretches, write : BOOLEAN, locks : {NullLockSet}, hw : {FALSE}, reduction : {FALSE}]

Ideal == INSTANCE AllAccesses WITH Accesses <- PlainAccess, Conflict <- Race,
                                   performed <- IF OrderOnly THEN performed ELSE {},
                                   found <- OrderOnly /\ raceFlag

ImplementsAllAccesses == Ideal!Spec

\* A reported pair consists of accesses that were made and that do race.
ReportsJustified ==
  \A i \in DOMAIN reports :
    /\ Race(reports[i][1], reports[i][2])
    /\ \A k \in 1..2 : \E a \in performed : a.at = reports[i][k].at /\ a.write = reports[i][k].write

\* "romp only reports one data race on any memory location in one run"
\* (RompLib.cpp:42), and then it keeps no more than the records it had.
ReportedOnce == Len(reports) <= 1 /\ (raceFlag <=> reports # <<>>)

HoldsNoLock(r) == LocksOf(r.locks) = {}

\* An access made without locks is never forgotten, whatever locks other accesses are
\* made under: each later access that races with it is reported when it is checked at
\* the latest.  The early returns of analyzeRaceCondition leave isHistBeforeCur and
\* diffIndex to the next decision (Core.cpp, lines 33-41), which then erases records
\* that nothing orders; it must not happen to a record no lock excludes, nor to the
\* records that came in its place.  Said of programs without lock prefixes and
\* mutexinoutset tasks.
UnlockedNeverForgotten ==
  [][\A a \in performed, c \in performed' \ performed :
       ~a.reduction /\ ~c.reduction /\ HoldsNoLock(a) /\ Race(a, c) => raceFlag']_vars

\* A lock set is never compared as if it had a lock it has not.
SubsetIsSound == \A p, q \in Stretches :
  isSubset(lockSet[p], lockSet[q]) => LocksOf(lockSet[p]) \subseteq LocksOf(lockSet[q])

\* "Return true if lock set `me` is the subset of lock set `other`"
\* (LockSet.cpp, line 85).
SubsetIsExact == \A p, q \in Stretches :
  isSubset(lockSet[p], lockSet[q]) <=> LocksOf(lockSet[p]) \subseteq LocksOf(lockSet[q])
=============================================================================
