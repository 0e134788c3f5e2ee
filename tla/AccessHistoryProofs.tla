------------------------- MODULE AccessHistoryProofs -------------------------
(***************************************************************************)
(* The history of one memory location for any program: any stretches in    *)
(* any order, any number of accesses.                                      *)
(***************************************************************************)
EXTENDS AccessHistory, SequenceTheorems, FiniteSetTheorems, WellFoundedInduction, TLAPS

(* Sequences and lock sets *)

\* A set of numbers that is not empty has a least element.
LEMMA LeastOf ==
  ASSUME NEW T \in SUBSET Nat, T # {}
  PROVE  \E x \in T : \A y \in T : x <= y
<1>1. IsWellFoundedOn({ss \in Nat \X Nat : ss[1] < ss[2]}, Nat)
  BY NatLessThanWellFounded DEF OpToRel
<1>2. \E x \in T : \A y \in T : ~(<<y, x>> \in {ss \in Nat \X Nat : ss[1] < ss[2]})
  <2>1. T \subseteq Nat
    OBVIOUS
  <2> QED
    BY <1>1, <2>1, WFMin, Zenon
<1>3. PICK x \in T : \A y \in T : ~(<<y, x>> \in {ss \in Nat \X Nat : ss[1] < ss[2]})
  BY <1>2
<1>4. ASSUME NEW y \in T PROVE x <= y
  <2>1. x \in Nat /\ y \in Nat /\ <<y, x>> \in Nat \X Nat
    OBVIOUS
  <2> QED
    BY <1>3, <2>1
<1> QED
  BY <1>4

\* The elements behind the one that is removed move up by one.
LEMMA RemoveAtProperties ==
  ASSUME NEW S, NEW s \in Seq(S), NEW i \in 1..Len(s)
  PROVE  /\ RemoveAt(s, i) \in Seq(S)
         /\ Len(RemoveAt(s, i)) = Len(s) - 1
         /\ \A j \in 1..Len(s) - 1 : RemoveAt(s, i)[j] = IF j < i THEN s[j] ELSE s[j + 1]
<1> DEFINE front == SubSeq(s, 1, i - 1)
           back == SubSeq(s, i + 1, Len(s))
<1>1. Len(s) \in Nat /\ i \in Int /\ \A j \in 1..Len(s) : s[j] \in S
  BY LenProperties, ElementOfSeq
<1>2. /\ front \in Seq(S) /\ Len(front) = i - 1
      /\ \A j \in 1..i - 1 : front[j] = s[j]
  <2>1. \A j \in 1..i - 1 : s[j] \in S
    BY <1>1
  <2>2. /\ front \in Seq(S) /\ Len(front) = IF 1 <= i - 1 THEN i - 1 - 1 + 1 ELSE 0
        /\ \A j \in 1..i - 1 - 1 + 1 : front[j] = s[1 + j - 1]
    BY <1>1, <2>1, SubSeqProperties
  <2> HIDE DEF front
  <2> QED
    BY <1>1, <2>2
<1>3. /\ back \in Seq(S) /\ Len(back) = Len(s) - i
      /\ \A j \in 1..Len(s) - i : back[j] = s[i + j]
  <2>1. \A j \in i + 1..Len(s) : s[j] \in S
    BY <1>1
  <2>2. /\ back \in Seq(S) /\ Len(back) = IF i + 1 <= Len(s) THEN Len(s) - (i + 1) + 1 ELSE 0
        /\ \A j \in 1..Len(s) - (i + 1) + 1 : back[j] = s[(i + 1) + j - 1]
    BY <1>1, <2>1, SubSeqProperties
  <2> HIDE DEF back
  <2>3. \A j \in 1..Len(s) - i : j \in 1..Len(s) - (i + 1) + 1 /\ (i + 1) + j - 1 = i + j
    BY <1>1
  <2> QED
    BY <1>1, <2>2, <2>3
<1>4. RemoveAt(s, i) = front \o back
  BY DEF RemoveAt
<1> HIDE DEF front, back
<1>5. /\ front \o back \in Seq(S) /\ Len(front \o back) = Len(front) + Len(back)
      /\ \A j \in 1..Len(front) + Len(back) :
           (front \o back)[j] = IF j <= Len(front) THEN front[j] ELSE back[j - Len(front)]
  BY <1>2, <1>3, ConcatProperties
<1>6. ASSUME NEW j \in 1..Len(s) - 1
      PROVE  RemoveAt(s, i)[j] = IF j < i THEN s[j] ELSE s[j + 1]
  <2>1. j \in 1..Len(front) + Len(back)
    BY <1>1, <1>2, <1>3
  <2>2. CASE j < i
    BY <1>1, <1>2, <1>4, <1>5, <2>1, <2>2
  <2>3. CASE ~(j < i)
    <3>1. j - (i - 1) \in 1..Len(s) - i /\ i + (j - (i - 1)) = j + 1 /\ ~(j <= i - 1)
      BY <1>1, <2>3
    <3>2. RemoveAt(s, i)[j] = back[j - (i - 1)]
      BY <1>2, <1>4, <1>5, <2>1, <3>1
    <3>3. back[j - (i - 1)] = s[i + (j - (i - 1))]
      BY <1>3, <3>1
    <3> QED
      BY <2>3, <3>1, <3>2, <3>3
  <2> QED
    BY <2>2, <2>3
<1> QED
  BY <1>1, <1>2, <1>3, <1>4, <1>5, <1>6

\* A lock set is a null pointer or a sequence of at most four locks.
LEMMA LockSetIsSeq ==
  ASSUME NEW ls \in LockSets, ls # NullLockSet
  PROVE  ls \in Seq(Locks) /\ Len(ls) \in 0..LockLimit /\ DOMAIN ls = 1..Len(ls)
<1>1. PICK n \in 0..LockLimit : ls \in [1..n -> Locks]
  BY DEF LockSets
<1>2. n \in Nat
  BY DEF LockLimit
<1> QED
  BY <1>1, <1>2

LEMMA SeqIsLockSet ==
  ASSUME NEW s \in Seq(Locks), Len(s) <= LockLimit
  PROVE  s \in LockSets /\ s # NullLockSet
<1>1. Len(s) \in Nat /\ s \in [1..Len(s) -> Locks]
  BY LenProperties
<1>2. Len(s) \in 0..LockLimit
  BY <1>1 DEF LockLimit
<1>3. s # NullLockSet
  BY NullLockSetAssumption
<1> QED
  BY <1>1, <1>2, <1>3 DEF LockSets

\* No lock is in a lock set twice: it would have to be acquired while held.
Distinct(ls) == ls # NullLockSet => \A i, j \in DOMAIN ls : ls[i] = ls[j] => i = j

\* Where no lock is twice, the guard of mutex_acquired bounds the sequence.
LEMMA LocksCounted ==
  ASSUME NEW ls \in LockSets, ls # NullLockSet, Distinct(ls)
  PROVE  Cardinality(LocksOf(ls)) = Len(ls)
<1>1. ls \in Seq(Locks) /\ Len(ls) \in Nat /\ DOMAIN ls = 1..Len(ls)
  BY LockSetIsSeq DEF LockLimit
<1>2. IsFiniteSet(1..Len(ls)) /\ Cardinality(1..Len(ls)) = Len(ls)
  BY <1>1, FS_Interval
<1>3. ls \in [1..Len(ls) -> LocksOf(ls)]
  BY <1>1 DEF LocksOf, Range
<1>4. ls \in Surjection(1..Len(ls), LocksOf(ls)) /\ ls \in Injection(1..Len(ls), LocksOf(ls))
  BY <1>1, <1>3 DEF Surjection, Injection, IsInjective, LocksOf, Range, Distinct
<1> QED
  BY <1>2, <1>4, FS_Surjection

\* addLock and removeLock make lock sets of lock sets.
LEMMA AddLockType ==
  ASSUME NEW ls \in LockSets, Distinct(ls), NEW lock \in Locks, lock \notin LocksOf(ls),
         Cardinality(LocksOf(ls)) < LockLimit
  PROVE  addLock(ls, lock) \in LockSets /\ Distinct(addLock(ls, lock))
<1>1. CASE ls = NullLockSet
  <2>1. <<lock>> \in Seq(Locks) /\ Len(<<lock>>) = 1 /\ \A i \in DOMAIN <<lock>> : i = 1
    OBVIOUS
  <2>2. addLock(ls, lock) = <<lock>>
    BY <1>1 DEF addLock
  <2>3. Len(<<lock>>) <= LockLimit
    BY <2>1 DEF LockLimit
  <2>4. <<lock>> \in LockSets
    BY <2>1, <2>3, SeqIsLockSet
  <2> QED
    BY <2>1, <2>2, <2>4 DEF Distinct
<1>2. CASE ls # NullLockSet
  <2> DEFINE s == Append(ls, lock)
  <2>1. ls \in Seq(Locks) /\ Len(ls) \in Nat /\ DOMAIN ls = 1..Len(ls)
    BY <1>2, LockSetIsSeq DEF LockLimit
  <2>2. /\ s \in Seq(Locks) /\ Len(s) = Len(ls) + 1 /\ s[Len(ls) + 1] = lock
        /\ \A i \in 1..Len(ls) : s[i] = ls[i]
    BY <2>1, AppendProperties
  <2>3. addLock(ls, lock) = s
    BY <1>2 DEF addLock
  <2> HIDE DEF s
  <2>4. Len(s) <= LockLimit
    BY <1>2, <2>1, <2>2, LocksCounted DEF LockLimit
  <2>5. \A i \in 1..Len(ls) : ls[i] # lock
    BY <1>2, <2>1 DEF LocksOf, Range
  <2>6. \A i \in DOMAIN s : i \in 1..Len(ls) \/ i = Len(ls) + 1
    BY <2>1, <2>2
  <2>7. Distinct(s)
    BY <1>2, <2>1, <2>2, <2>5, <2>6 DEF Distinct
  <2>8. s \in LockSets
    BY <2>2, <2>4, SeqIsLockSet
  <2> QED
    BY <2>3, <2>7, <2>8
<1> QED
  BY <1>1, <1>2

LEMMA RemoveLockType ==
  ASSUME NEW ls \in LockSets, Distinct(ls), NEW lock \in LocksOf(ls)
  PROVE  removeLock(ls, lock) \in LockSets /\ Distinct(removeLock(ls, lock))
<1>1. ls # NullLockSet
  BY DEF LocksOf
<1>2. ls \in Seq(Locks) /\ Len(ls) \in 0..LockLimit /\ DOMAIN ls = 1..Len(ls)
  BY <1>1, LockSetIsSeq
<1> DEFINE I == {i \in 1..Len(ls) : ls[i] = lock}
           s == RemoveAt(ls, Min(I))
<1>3. I # {} /\ I \in SUBSET Nat
  BY <1>1, <1>2 DEF LocksOf, Range
<1>4. PICK i \in I : \A j \in I : i <= j
  <2> HIDE DEF I
  <2> QED
    BY <1>3, LeastOf
<1>5. removeLock(ls, lock) = s
  BY <1>3 DEF removeLock, RemoveFirst, SelectInSeq
<1>6. Min(I) \in 1..Len(ls)
  BY <1>4 DEF Min
<1>7. /\ s \in Seq(Locks) /\ Len(s) = Len(ls) - 1
      /\ \A j \in 1..Len(ls) - 1 : s[j] = IF j < Min(I) THEN ls[j] ELSE ls[j + 1]
  <2> HIDE DEF I
  <2> QED
    BY <1>2, <1>6, RemoveAtProperties
<1> HIDE DEF I, s
<1>8. s \in LockSets
  BY <1>2, <1>7, SeqIsLockSet DEF LockLimit
<1>9. Distinct(s)
  <2> SUFFICES ASSUME NEW j \in 1..Len(ls) - 1, NEW k \in 1..Len(ls) - 1, s[j] = s[k]
               PROVE  j = k
    BY <1>2, <1>7 DEF Distinct, LockLimit
  <2>1. \A m, n \in 1..Len(ls) : ls[m] = ls[n] => m = n
    BY <1>1, <1>2 DEF Distinct
  <2>2. Len(ls) \in Nat /\ j \in 1..Len(ls) /\ k \in 1..Len(ls) /\ j + 1 \in 1..Len(ls) /\ k + 1 \in 1..Len(ls)
    BY <1>2 DEF LockLimit
  <2> QED
    BY <1>6, <1>7, <2>1, <2>2
<1> QED
  BY <1>5, <1>8, <1>9

\* SubsetIsSound, of two lock sets.
LEMMA SubsetOfLocks ==
  ASSUME NEW me \in LockSets, NEW other \in LockSets, isSubset(me, other)
  PROVE  LocksOf(me) \subseteq LocksOf(other)
<1>1. CASE me = NullLockSet
  BY <1>1 DEF LocksOf
<1>2. CASE me # NullLockSet
  <2>1. /\ other # NullLockSet /\ Len(me) <= Len(other)
        /\ \A i \in DOMAIN me, j \in DOMAIN other : me[i] = other[j]
    BY <1>2 DEF isSubset
  <2>2. /\ Len(me) \in Nat /\ DOMAIN me = 1..Len(me)
        /\ Len(other) \in Nat /\ DOMAIN other = 1..Len(other)
    BY <1>2, <2>1, LockSetIsSeq DEF LockLimit
  <2>3. ASSUME NEW i \in DOMAIN me PROVE 1 \in DOMAIN other /\ me[i] = other[1]
    BY <2>1, <2>2
  <2> QED
    BY <1>2, <2>1, <2>3 DEF LocksOf, Range
<1> QED
  BY <1>1, <1>2

-----------------------------------------------------------------------------
(* The invariant *)

Started(p) == phase[p] \in {"running", "over"}

Inside(p) == step # "free" /\ cur.at = p

\* TypeOK, and what it leaves out: no lock is twice in a lock set.
Typed == /\ TypeOK
         /\ \A p \in Stretches : Distinct(lockSet[p])

\* What is in the history has run, and what happens before it is over; the
\* thread that holds the slot's lock runs its stretch until it returns.
InOrder == /\ \A p \in Stretches :
                Started(p) => /\ p \in execution.runs
                              /\ \A q \in execution.runs : Ordered(q, p) => phase[q] = "over"
           /\ step # "free" => phase[cur.at] = "running"
           /\ \A i \in DOMAIN records : Started(records[i].at)
           /\ \A a \in performed : Started(a.at)

Same(a, r) == a.at = r.at /\ a.write = r.write /\ a.locks = r.locks /\ a.hw = r.hw

\* A record is one of the accesses that were made.
RecordsMade == \A i \in DOMAIN records : \E a \in performed : Same(a, records[i])

\* The loop is left as soon as a race is found.
FoundOnce == /\ step # "free" => ~raceFlag
             /\ reports \in Seq(Record \X Record)
             /\ ReportedOnce

\* Without locks in the program no access has a lock set.
Plain(r) == r.locks = NullLockSet /\ r.hw = FALSE

NoLocks == LockFree => /\ \A p \in Stretches : lockSet[p] = NullLockSet
                       /\ \A i \in DOMAIN records : Plain(records[i])
                       /\ step # "free" => Plain(cur)
                       /\ \A a \in performed : Plain(a)

\* No instruction has a lock prefix.
NoPrefixes == TRUE \notin execution.hwLock

\* The locals of the loop.  In a reduction analyzeRaceCondition returns early for every
\* record; otherwise it has set them for the record at hand if one side holds no lock.
\* Where both hold locks they may be those of an earlier record.
Analyzed ==
  step # "free" =>
    /\ inReduction[cur.at] => ~isHistBeforeCurrent
    /\ /\ NoPrefixes /\ step = "manage" /\ ~inReduction[cur.at]
       /\ HoldsNoLock(records[it]) \/ HoldsNoLock(cur)
       =>
         /\ diffIndex \in compareLabels(records[it], cur)
         /\ ~IsRace(records[it], cur, diffIndex)
         /\ isHistBeforeCurrent = HistBefore(records[it], cur, diffIndex)

\* A lock prefix is one the program has.
PrefixKnown == step # "free" => cur.hw \in execution.hwLock

\* The lock set and the reduction state of a task do not change while it is inside
\* checkDataRace.
LocksKept == step # "free" => cur.locks = lockSet[cur.at]

SafeIInv == /\ Typed /\ InOrder /\ RecordsMade /\ FoundOnce
            /\ NoLocks /\ Analyzed /\ PrefixKnown /\ LocksKept

-----------------------------------------------------------------------------
(* The invariant that says what the pruning may throw away *)

\* A record without locks stands for an earlier access: what races with the access
\* later races with the record.  A record with locks stands for no access without.
NotAfter(p, q) == p = q \/ Ordered(p, q)
Covers(r, a) == HoldsNoLock(r) /\ NotAfter(a.at, r.at) /\ (a.write => r.write)

\* The access that is being checked will have a record or is covered by one.
Checked == step # "free" /\ ~inReduction[cur.at]

Covered == ~raceFlag => \A a \in performed : ~a.reduction /\ HoldsNoLock(a) =>
             \/ \E i \in DOMAIN records : Covers(records[i], a)
             \/ Checked /\ Covers(cur, a)

\* The records the loop has passed do not race with the access, if a side has no lock.
Passed == Checked => \A i \in 1..it - 1 : HoldsNoLock(records[i]) \/ HoldsNoLock(cur) =>
            NotAfter(records[i].at, cur.at) \/ ~(records[i].write \/ cur.write)

\* If an access without locks is not to be added, a record that stays covers it.
SkipCovered == Checked /\ HoldsNoLock(cur) /\ skipAddCur =>
                 \E i \in 1..it - 1 : /\ HoldsNoLock(records[i])
                                     /\ records[i].at = cur.at /\ (cur.write => records[i].write)

\* What the duplicate tables know has been performed under the locks and in the
\* reduction state of now, or is being checked.
Known(p, w) == [at |-> p, write |-> w, locks |-> lockSet[p], hw |-> FALSE, reduction |-> inReduction[p]]

DupsPerformed == ~raceFlag => \A p \in Stretches : \A w \in dup[p] :
                   ~(Inside(p) /\ cur.write = w) => Known(p, w) \in performed

NoRaceYet == ~raceFlag => \A a, b \in performed :
               ~a.reduction /\ ~b.reduction /\ HoldsNoLock(a) /\ HoldsNoLock(b) => ~Race(a, b)

\* Where only locks and the order exclude races.
LocksOnly == NoPrefixes /\ MutexTasks = {}

PruneInv == LocksOnly => Covered /\ Passed /\ SkipCovered /\ DupsPerformed /\ NoRaceYet

IInv == SafeIInv /\ PruneInv

-----------------------------------------------------------------------------
(* The ways a check begins and ends *)

RecordOf(p, write, hw) == [at |-> p, write |-> write, locks |-> lockSet[p], hw |-> hw]

AccessOf(p, write, hw) ==
  [at |-> p, write |-> write, locks |-> lockSet[p], hw |-> hw, reduction |-> inReduction[p]]

\* The access of the loop, as performed has it.
CurAccess == [at |-> cur.at, write |-> cur.write, locks |-> cur.locks, hw |-> cur.hw,
              reduction |-> inReduction[cur.at]]

Perform(a) == performed' = performed \cup {a}

\* The three early returns of checkDataRace, and the start of the loop.
CheckFlagged(p, write, hw) == /\ raceFlag
                              /\ records' = <<>>
                              /\ Perform(AccessOf(p, write, hw))
                              /\ UNCHANGED <<tasks, raceFlag, reports, loop>>

CheckDup(p, write, hw) == /\ ~raceFlag
                          /\ write \in dup[p]
                          /\ Perform(AccessOf(p, write, hw))
                          /\ UNCHANGED <<tasks, history, loop>>

CheckFirst(p, write, hw) == /\ ~raceFlag
                            /\ dup' = [dup EXCEPT ![p] = @ \cup {write}]
                            /\ records = <<>>
                            /\ records' = Append(records, RecordOf(p, write, hw))
                            /\ Perform(AccessOf(p, write, hw))
                            /\ UNCHANGED <<execution, phase, lockSet, inReduction, raceFlag, reports, loop>>

CheckLoop(p, write, hw) == /\ ~raceFlag
                           /\ dup' = [dup EXCEPT ![p] = @ \cup {write}]
                           /\ records # <<>>
                           /\ EnterLoop(RecordOf(p, write, hw))
                           /\ UNCHANGED <<execution, phase, lockSet, inReduction, history, performed>>

CheckBegins(p, write, hw) == /\ step = "free" /\ phase[p] = "running"
                             /\ \/ CheckFlagged(p, write, hw) \/ CheckDup(p, write, hw)
                                \/ CheckFirst(p, write, hw) \/ CheckLoop(p, write, hw)

LEMMA CheckCases ==
  ASSUME NEW p \in execution.runs, NEW write \in BOOLEAN, NEW hw \in execution.hwLock,
         CheckAccess(p, write, hw)
  PROVE  CheckBegins(p, write, hw)
BY DEF CheckAccess, CheckBegins, CheckFlagged, CheckDup, CheckFirst, CheckLoop, RecordOf, AccessOf,
       Perform, Push, Running, tasks, history

\* The loop ends, with a race or without; the record is added unless skipped.
LoopEnds == /\ step = "analyze"
            /\ IF skipAddCur THEN records' = records ELSE records' = Append(records, cur)
            /\ Perform(CurAccess)
            /\ step' = "free" /\ cur' = None /\ it' = 0 /\ isHistBeforeCurrent' = FALSE
            /\ diffIndex' = "index" /\ skipAddCur' = FALSE
            /\ UNCHANGED tasks

LEMMA LoopEndsIs ==
  ASSUME ReportRace \/ EndLoop
  PROVE  LoopEnds
BY DEF ReportRace, EndLoop, LoopEnds, Return, Push, Perform, CurAccess, AtRecord

\* The steps of the program between two accesses.
ProgramStep(p) == \/ Start(p) \/ Finish(p) \/ Reduction(p)
                  \/ \E lock \in execution.locks : MutexAcquired(p, lock) \/ MutexReleased(p, lock)

LEMMA ProgramStepFrame ==
  ASSUME NEW p, ProgramStep(p)
  PROVE  UNCHANGED <<execution, performed, history, loop>>
BY DEF ProgramStep, Start, Finish, Reduction, MutexAcquired, MutexReleased

\* Every step, in this classification.
LEMMA StepCases ==
  ASSUME [Next]_vars
  PROVE  \/ \E p \in execution.runs : ProgramStep(p)
         \/ \E p \in execution.runs, write \in BOOLEAN, hw \in execution.hwLock : CheckBegins(p, write, hw)
         \/ AnalyzeExcluded \/ AnalyzeOrdered \/ ReportRace \/ ManageRecord \/ EndLoop
         \/ UNCHANGED vars
BY CheckCases DEF Next, ProgramStep

-----------------------------------------------------------------------------
(* Types *)

LEMMA RunsAreStretches ==
  ASSUME TypeOK
  PROVE  /\ execution.runs \subseteq Stretches
         /\ execution.locks \subseteq Locks
         /\ execution.hwLock \subseteq BOOLEAN
BY ProgramAssumption DEF TypeOK

\* The records, one by one.
LEMMA RecordType ==
  ASSUME Typed
  PROVE  /\ Len(records) \in Nat /\ DOMAIN records = 1..Len(records)
         /\ \A i \in DOMAIN records : records[i] \in Record /\ records[i].at \in Stretches
<1>1. \A i \in 1..Len(records) : records[i] \in Record
  BY ElementOfSeq DEF Typed, TypeOK
<1>2. Len(records) \in Nat /\ DOMAIN records = 1..Len(records)
  BY LenProperties DEF Typed, TypeOK
<1> QED
  BY <1>1, <1>2 DEF Record

LEMMA InitTyped == Init => Typed
<1> SUFFICES ASSUME Init PROVE Typed
  OBVIOUS
<1>1. NullLockSet \in LockSets
  BY DEF LockSets
<1>2. <<>> \in Seq(Record)
  OBVIOUS
<1> QED
  BY <1>1, <1>2 DEF Init, Typed, TypeOK, DiffIndex, Distinct

LEMMA TypedProgram ==
  ASSUME Typed, NEW p \in execution.runs, ProgramStep(p)
  PROVE  Typed'
<1> USE DEF Typed
<1>1. p \in Stretches /\ UNCHANGED <<execution, performed, history, loop>>
  BY RunsAreStretches, ProgramStepFrame
<1>2. CASE Start(p) \/ Finish(p) \/ Reduction(p)
  BY <1>1, <1>2 DEF Start, Finish, Reduction, TypeOK, history, loop
<1>3. ASSUME NEW lock \in execution.locks, MutexAcquired(p, lock)
      PROVE  Typed'
  <2>1. addLock(lockSet[p], lock) \in LockSets /\ Distinct(addLock(lockSet[p], lock))
    BY <1>1, <1>3, AddLockType, RunsAreStretches DEF MutexAcquired, TypeOK
  <2> QED
    BY <1>1, <1>3, <2>1 DEF MutexAcquired, TypeOK, history, loop
<1>4. ASSUME NEW lock \in execution.locks, MutexReleased(p, lock)
      PROVE  Typed'
  <2>1. removeLock(lockSet[p], lock) \in LockSets /\ Distinct(removeLock(lockSet[p], lock))
    BY <1>1, <1>4, RemoveLockType, RunsAreStretches DEF MutexReleased, TypeOK
  <2> QED
    BY <1>1, <1>4, <2>1 DEF MutexReleased, TypeOK, history, loop
<1> QED
  BY <1>2, <1>3, <1>4 DEF ProgramStep

LEMMA TypedBegins ==
  ASSUME Typed, NEW p \in execution.runs, NEW write \in BOOLEAN, NEW hw \in execution.hwLock,
         CheckBegins(p, write, hw)
  PROVE  Typed'
<1> USE DEF Typed
<1>1. p \in Stretches /\ hw \in BOOLEAN
  BY RunsAreStretches
<1>2. RecordOf(p, write, hw) \in Record /\ AccessOf(p, write, hw) \in Access
  BY <1>1 DEF RecordOf, AccessOf, Record, Access, TypeOK
<1>3. CASE CheckFlagged(p, write, hw)
  BY <1>2, <1>3 DEF CheckFlagged, CheckBegins, Perform, TypeOK, tasks, loop
<1>4. CASE CheckDup(p, write, hw)
  BY <1>2, <1>4 DEF CheckDup, CheckBegins, Perform, TypeOK, tasks, history, loop
<1>5. CASE CheckFirst(p, write, hw)
  BY <1>1, <1>2, <1>5 DEF CheckFirst, CheckBegins, Perform, TypeOK, loop
<1>6. CASE CheckLoop(p, write, hw)
  <2>1. 1 \in 1..Len(records) + 1 /\ RecordOf(p, write, hw) # None
    BY <1>2, NoneAssumption DEF TypeOK
  <2> QED
    BY <1>1, <1>2, <1>6, <2>1 DEF CheckLoop, CheckBegins, EnterLoop, TypeOK, history
<1> QED
  BY <1>3, <1>4, <1>5, <1>6 DEF CheckBegins

LEMMA TypedEnds ==
  ASSUME Typed, ReportRace \/ EndLoop
  PROVE  Typed'
<1> USE DEF Typed
<1>1. LoopEnds
  BY LoopEndsIs
<1>2. cur \in Record /\ cur.at \in Stretches /\ CurAccess \in Access
  BY <1>1 DEF LoopEnds, TypeOK, Record, Access, CurAccess
<1>3. records' \in Seq(Record)
  <2>1. records \in Seq(Record) /\ Append(records, cur) \in Seq(Record)
    BY <1>2, AppendProperties DEF TypeOK
  <2> QED
    BY <1>1, <2>1 DEF LoopEnds
<1>4. raceFlag' \in BOOLEAN
  BY DEF TypeOK, ReportRace, EndLoop
<1> QED
  BY <1>1, <1>2, <1>3, <1>4 DEF LoopEnds, TypeOK, Perform, tasks, DiffIndex

LEMMA TypedLoop ==
  ASSUME Typed, AnalyzeExcluded \/ AnalyzeOrdered \/ ManageRecord
  PROVE  Typed'
<1> USE DEF Typed
<1>1. CASE AnalyzeExcluded
  BY <1>1 DEF AnalyzeExcluded, AtRecord, TypeOK, program, tasks, history
<1>2. CASE AnalyzeOrdered
  <2>1. PICK diff \in compareLabels(records[it], cur) :
          isHistBeforeCurrent' = HistBefore(records[it], cur, diff) /\ diffIndex' = diff
    BY <1>2 DEF AnalyzeOrdered
  <2>2. diff \in DiffIndex
    BY DEF compareLabels, DiffIndex
  <2>3. HistBefore(records[it], cur, diff) \in BOOLEAN
    BY DEF HistBefore, happensBefore
  <2> QED
    BY <1>2, <2>1, <2>2, <2>3 DEF AnalyzeOrdered, AtRecord, TypeOK, program, tasks, history
<1>3. CASE ManageRecord
  <2>1. step = "manage" /\ it \in 1..Len(records) /\ records \in Seq(Record) /\ Len(records) \in Nat
    BY <1>3, LenProperties DEF ManageRecord, AtRecord, TypeOK
  <2>2. CASE Decision = "eDelHist"
    <3>1. RemoveAt(records, it) \in Seq(Record) /\ Len(RemoveAt(records, it)) = Len(records) - 1
      BY <2>1, RemoveAtProperties
    <3> QED
      BY <1>3, <2>1, <2>2, <3>1 DEF ManageRecord, TypeOK, program, tasks
  <2>3. CASE Decision # "eDelHist"
    BY <1>3, <2>1, <2>3 DEF ManageRecord, TypeOK, program, tasks
  <2> QED
    BY <2>2, <2>3
<1> QED
  BY <1>1, <1>2, <1>3

LEMMA TypedStep ==
  ASSUME Typed, [Next]_vars
  PROVE  Typed'
<1>1. CASE UNCHANGED vars
  BY <1>1 DEF vars, program, tasks, history, loop, Typed, TypeOK
<1> QED
  BY <1>1, StepCases, TypedProgram, TypedBegins, TypedEnds, TypedLoop

-----------------------------------------------------------------------------
(* The history and its program *)

\* Where the records after a step come from.
LEMMA RecordsFrom ==
  ASSUME Typed, [Next]_vars
  PROVE  \A i \in DOMAIN records' :
           \/ \E j \in DOMAIN records : records'[i] = records[j]
           \/ LoopEnds /\ records'[i] = cur
           \/ \E p \in execution.runs, write \in BOOLEAN, hw \in execution.hwLock :
                CheckBegins(p, write, hw) /\ CheckFirst(p, write, hw) /\ records'[i] = RecordOf(p, write, hw)
<1> USE DEF Typed
<1>1. /\ records \in Seq(Record) /\ Len(records) \in Nat /\ DOMAIN records = 1..Len(records)
      /\ records' \in Seq(Record) /\ DOMAIN records' = 1..Len(records')
  BY TypedStep, LenProperties DEF TypeOK
<1>2. CASE records' = records
  BY <1>2
<1>3. CASE ReportRace \/ EndLoop
  <2>1. LoopEnds
    BY <1>3, LoopEndsIs
  <2>2. cur \in Record
    BY <2>1 DEF LoopEnds, TypeOK
  <2>3. CASE records' = Append(records, cur)
    <3>1. /\ Len(records') = Len(records) + 1 /\ records'[Len(records) + 1] = cur
          /\ \A i \in 1..Len(records) : records'[i] = records[i]
      BY <1>1, <2>2, <2>3, AppendProperties
    <3>2. \A i \in DOMAIN records' : i \in DOMAIN records \/ i = Len(records) + 1
      BY <1>1, <3>1
    <3> QED
      BY <1>1, <2>1, <3>1, <3>2
  <2> QED
    BY <1>2, <2>1, <2>3 DEF LoopEnds
<1>4. ASSUME NEW p \in execution.runs, NEW write \in BOOLEAN, NEW hw \in execution.hwLock,
             CheckBegins(p, write, hw)
      PROVE  \/ records' = records \/ records' = <<>>
             \/ CheckFirst(p, write, hw) /\ \A i \in DOMAIN records' : records'[i] = RecordOf(p, write, hw)
  <2>1. CASE CheckFirst(p, write, hw)
    <3>1. records' = <<RecordOf(p, write, hw)>>
      BY <2>1 DEF CheckFirst
    <3> QED
      BY <2>1, <3>1
  <2> QED
    BY <1>4, <2>1 DEF CheckBegins, CheckFlagged, CheckDup, CheckLoop, history
<1>5. CASE ManageRecord
  <2>1. it \in 1..Len(records)
    BY <1>5 DEF ManageRecord, AtRecord, TypeOK
  <2>2. CASE records' = RemoveAt(records, it)
    <3>1. /\ Len(records') = Len(records) - 1
          /\ \A j \in 1..Len(records) - 1 : records'[j] = IF j < it THEN records[j] ELSE records[j + 1]
      BY <1>1, <2>1, <2>2, RemoveAtProperties
    <3>2. \A i \in DOMAIN records' : i \in DOMAIN records /\ i + 1 \in DOMAIN records
      BY <1>1, <3>1
    <3> QED
      BY <1>1, <3>1, <3>2
  <2> QED
    BY <1>2, <1>5, <2>2 DEF ManageRecord
<1>6. ASSUME NEW p \in execution.runs, ProgramStep(p) PROVE records' = records
  BY <1>6, ProgramStepFrame DEF history
<1>7. CASE AnalyzeExcluded \/ AnalyzeOrdered \/ UNCHANGED vars
  BY <1>2, <1>7 DEF AnalyzeExcluded, AnalyzeOrdered, vars, history
<1>8. ASSUME NEW p \in execution.runs, NEW write \in BOOLEAN, NEW hw \in execution.hwLock,
             CheckBegins(p, write, hw), NEW i \in DOMAIN records'
      PROVE  \/ \E j \in DOMAIN records : records'[i] = records[j]
             \/ CheckFirst(p, write, hw) /\ records'[i] = RecordOf(p, write, hw)
  <2>1. CASE records' = <<>>
    BY <1>8, <2>1
  <2> QED
    BY <1>4, <1>8, <2>1
<1> QED
  BY <1>2, <1>3, <1>5, <1>6, <1>7, <1>8, StepCases

\* What a step performs: the access of the loop, or one that returns early.
LEMMA PerformedFrom ==
  ASSUME [Next]_vars
  PROVE  \/ performed' = performed
         \/ LoopEnds /\ (ReportRace \/ EndLoop) /\ Perform(CurAccess)
         \/ \E p \in execution.runs, write \in BOOLEAN, hw \in execution.hwLock :
              CheckBegins(p, write, hw) /\ Perform(AccessOf(p, write, hw))
<1>1. ASSUME NEW p \in execution.runs, NEW write \in BOOLEAN, NEW hw \in execution.hwLock,
             CheckBegins(p, write, hw)
      PROVE  performed' = performed \/ Perform(AccessOf(p, write, hw))
  BY <1>1 DEF CheckBegins, CheckFlagged, CheckDup, CheckFirst, CheckLoop
<1>2. CASE ReportRace \/ EndLoop
  BY <1>2, LoopEndsIs DEF LoopEnds
<1>3. CASE AnalyzeExcluded \/ AnalyzeOrdered \/ ManageRecord \/ UNCHANGED vars
  BY <1>3 DEF AnalyzeExcluded, AnalyzeOrdered, ManageRecord, vars, program
<1> QED
  BY <1>1, <1>2, <1>3, StepCases, ProgramStepFrame

\* How the holder of the slot's lock changes.
LEMMA CurFrom ==
  ASSUME [Next]_vars
  PROVE  \/ step' = "free"
         \/ step # "free" /\ cur' = cur
         \/ \E p \in execution.runs, write \in BOOLEAN, hw \in execution.hwLock :
              CheckBegins(p, write, hw) /\ CheckLoop(p, write, hw)
              /\ cur' = RecordOf(p, write, hw) /\ step' = "analyze" /\ it' = 1
<1>1. ASSUME NEW p \in execution.runs, NEW write \in BOOLEAN, NEW hw \in execution.hwLock,
             CheckBegins(p, write, hw)
      PROVE  step' = "free" \/ (CheckLoop(p, write, hw) /\ cur' = RecordOf(p, write, hw)
                                /\ step' = "analyze" /\ it' = 1)
  BY <1>1 DEF CheckBegins, CheckFlagged, CheckDup, CheckFirst, CheckLoop, EnterLoop, loop
<1>2. CASE ReportRace \/ EndLoop
  BY <1>2, LoopEndsIs DEF LoopEnds
<1>3. CASE AnalyzeExcluded \/ AnalyzeOrdered \/ ManageRecord
  BY <1>3 DEF AnalyzeExcluded, AnalyzeOrdered, ManageRecord, AtRecord
<1>4. CASE UNCHANGED <<execution, performed, history, loop>> \/ UNCHANGED vars
  BY <1>4 DEF vars, loop
<1> QED
  BY <1>1, <1>2, <1>3, <1>4, StepCases, ProgramStepFrame

\* Only steps of the program change the tasks, except for the duplicate tables.
LEMMA TasksFrom ==
  ASSUME [Next]_vars
  PROVE  \/ \E p \in execution.runs : ProgramStep(p)
         \/ UNCHANGED <<execution, phase, lockSet, inReduction>>
<1>1. ASSUME NEW p \in execution.runs, NEW write \in BOOLEAN, NEW hw \in execution.hwLock,
             CheckBegins(p, write, hw)
      PROVE  UNCHANGED <<execution, phase, lockSet, inReduction>>
  BY <1>1 DEF CheckBegins, CheckFlagged, CheckDup, CheckFirst, CheckLoop, tasks
<1>2. CASE ReportRace \/ EndLoop \/ AnalyzeExcluded \/ AnalyzeOrdered \/ ManageRecord \/ UNCHANGED vars
  BY <1>2 DEF ReportRace, EndLoop, AnalyzeExcluded, AnalyzeOrdered, ManageRecord, vars, program, tasks
<1> QED
  BY <1>1, <1>2, StepCases

\* What has started stays so, and an execution is chosen once.
LEMMA StartedStays ==
  ASSUME Typed, [Next]_vars
  PROVE  /\ execution' = execution
         /\ \A p \in Stretches : /\ Started(p) => Started(p)'
                                 /\ phase[p] = "over" => phase'[p] = "over"
<1>1. ASSUME NEW p \in execution.runs, ProgramStep(p)
      PROVE  /\ execution' = execution
             /\ \A q \in Stretches : /\ Started(q) => Started(q)'
                                     /\ phase[q] = "over" => phase'[q] = "over"
  <2>1. phase \in [Stretches -> {"todo", "running", "over", "never"}] /\ execution' = execution
    BY <1>1, ProgramStepFrame DEF Typed, TypeOK
  <2>2. \/ UNCHANGED phase
        \/ phase[p] = "todo" /\ phase' = [phase EXCEPT ![p] = "running"]
        \/ phase[p] = "running" /\ phase' = [phase EXCEPT ![p] = "over"]
    BY <1>1 DEF ProgramStep, Start, Finish, Reduction, MutexAcquired, MutexReleased, Running
  <2> QED
    BY <2>1, <2>2 DEF Started
<1> QED
  BY <1>1, TasksFrom DEF Started

LEMMA InOrderStep ==
  ASSUME Typed, InOrder, [Next]_vars
  PROVE  InOrder'
<1>1. /\ execution' = execution
      /\ \A p \in Stretches : /\ Started(p) => Started(p)'
                              /\ phase[p] = "over" => phase'[p] = "over"
  BY StartedStays
<1>2. /\ execution.runs \subseteq Stretches /\ Typed'
      /\ \A i \in DOMAIN records : records[i].at \in Stretches
      /\ \A a \in performed : a.at \in Stretches
      /\ step # "free" => cur.at \in Stretches
  <2>1. \A i \in DOMAIN records : records[i] \in Record
    BY LenProperties, ElementOfSeq DEF Typed, TypeOK
  <2> QED
    BY <2>1, RunsAreStretches, TypedStep DEF Typed, TypeOK, Record, Access
<1>3. ASSUME NEW p \in Stretches, Started(p)'
      PROVE  /\ p \in execution.runs
             /\ \A q \in execution.runs : Ordered(q, p) => phase'[q] = "over"
  <2>1. CASE Started(p)
    BY <1>1, <1>2, <2>1 DEF InOrder
  <2>2. CASE ~Started(p)
    <3>1. PICK r \in execution.runs : ProgramStep(r)
      BY <1>3, <2>2, TasksFrom DEF Started
    <3>2. Start(r) /\ r = p
      BY <1>2, <1>3, <2>2, <3>1 DEF ProgramStep, Start, Finish, Reduction, MutexAcquired, MutexReleased,
           Running, Started, Typed, TypeOK
    <3> QED
      BY <1>1, <1>2, <3>2 DEF Start
  <2> QED
    BY <2>1, <2>2
<1>4. step' # "free" => phase'[cur'.at] = "running"
  <2>1. CASE step # "free" /\ cur' = cur
    <3>1. ASSUME NEW p \in execution.runs, ProgramStep(p)
          PROVE  phase'[cur.at] = phase[cur.at]
      <4>1. p # cur.at \/ phase[p] = "todo" \/ UNCHANGED phase
        BY <2>1, <3>1 DEF ProgramStep, Start, Finish, Reduction, MutexAcquired, MutexReleased, Running
      <4>2. p # cur.at \/ UNCHANGED phase
        BY <2>1, <4>1 DEF InOrder
      <4> QED
        BY <1>2, <2>1, <3>1, <4>2 DEF ProgramStep, Start, Finish, Reduction, MutexAcquired, MutexReleased,
             Typed, TypeOK
    <3> QED
      BY <2>1, <3>1, TasksFrom DEF InOrder
  <2>2. ASSUME NEW p \in execution.runs, NEW write \in BOOLEAN, NEW hw \in execution.hwLock,
               CheckBegins(p, write, hw), CheckLoop(p, write, hw), cur' = RecordOf(p, write, hw)
        PROVE  phase'[cur'.at] = "running"
    BY <2>2 DEF CheckBegins, CheckLoop, RecordOf
  <2> QED
    BY <2>1, <2>2, CurFrom
<1>5. ASSUME NEW p \in execution.runs, NEW write \in BOOLEAN, NEW hw \in execution.hwLock,
             CheckBegins(p, write, hw)
      PROVE  Started(RecordOf(p, write, hw).at)' /\ Started(AccessOf(p, write, hw).at)'
             /\ RecordOf(p, write, hw).at = p /\ AccessOf(p, write, hw).at = p
  BY <1>1, <1>2, <1>5 DEF CheckBegins, RecordOf, AccessOf, Started
<1>6. LoopEnds => phase'[cur.at] \in {"running", "over"} /\ CurAccess.at = cur.at
  BY <1>1, <1>2 DEF LoopEnds, InOrder, Started, CurAccess
<1>7. ASSUME NEW i \in DOMAIN records' PROVE Started(records[i].at)'
  <2>1. CASE \E j \in DOMAIN records : records'[i] = records[j]
    BY <1>1, <1>2, <2>1 DEF InOrder, Started
  <2>2. CASE LoopEnds /\ records'[i] = cur
    BY <1>6, <2>2 DEF Started
  <2>3. ASSUME NEW p \in execution.runs, NEW write \in BOOLEAN, NEW hw \in execution.hwLock,
               CheckBegins(p, write, hw), records'[i] = RecordOf(p, write, hw)
        PROVE  Started(records[i].at)'
    BY <1>1, <1>2, <2>3 DEF CheckBegins, RecordOf, Started
  <2> QED
    BY <1>7, <2>1, <2>2, <2>3, RecordsFrom
<1>8. ASSUME NEW a \in performed' PROVE Started(a.at)'
  <2>1. CASE a \in performed
    BY <1>1, <1>2, <2>1 DEF InOrder
  <2>2. CASE LoopEnds /\ a = CurAccess
    BY <1>6, <2>2 DEF Started
  <2>3. ASSUME NEW p \in execution.runs, NEW write \in BOOLEAN, NEW hw \in execution.hwLock,
               CheckBegins(p, write, hw), a = AccessOf(p, write, hw)
        PROVE  Started(a.at)'
    BY <1>1, <1>2, <2>3 DEF CheckBegins, AccessOf, Started
  <2> QED
    BY <1>8, <2>1, <2>2, <2>3, PerformedFrom DEF Perform
<1> QED
  BY <1>1, <1>3, <1>4, <1>7, <1>8 DEF InOrder

LEMMA RecordsMadeStep ==
  ASSUME Typed, RecordsMade, [Next]_vars
  PROVE  RecordsMade'
<1> SUFFICES ASSUME NEW i \in DOMAIN records' PROVE \E a \in performed' : Same(a, records'[i])
  BY DEF RecordsMade, Same
<1>1. performed \subseteq performed'
  BY PerformedFrom DEF Perform
<1>2. CASE \E j \in DOMAIN records : records'[i] = records[j]
  BY <1>1, <1>2 DEF RecordsMade
<1>3. CASE LoopEnds /\ records'[i] = cur
  <2>1. CurAccess \in performed' /\ Same(CurAccess, cur)
    BY <1>3 DEF LoopEnds, Perform, CurAccess, Same
  <2> QED
    BY <1>3, <2>1
<1>4. ASSUME NEW p \in execution.runs, NEW write \in BOOLEAN, NEW hw \in execution.hwLock,
             CheckFirst(p, write, hw), records'[i] = RecordOf(p, write, hw)
      PROVE  \E a \in performed' : Same(a, records'[i])
  <2>1. /\ AccessOf(p, write, hw) \in performed'
        /\ Same(AccessOf(p, write, hw), RecordOf(p, write, hw))
    BY <1>4 DEF CheckFirst, Perform, AccessOf, RecordOf, Same
  <2> QED
    BY <1>4, <2>1
<1> QED
  BY <1>2, <1>3, <1>4, RecordsFrom

LEMMA FoundOnceStep ==
  ASSUME Typed, FoundOnce, [Next]_vars
  PROVE  FoundOnce'
<1> USE DEF Typed, FoundOnce
<1>1. CASE UNCHANGED <<raceFlag, reports>>
  <2>1. step' # "free" => ~raceFlag'
    <3>1. ASSUME NEW p \in execution.runs, NEW write \in BOOLEAN, NEW hw \in execution.hwLock,
                 CheckLoop(p, write, hw)
          PROVE  ~raceFlag'
      BY <1>1, <3>1 DEF CheckLoop
    <3> QED
      BY <1>1, <3>1, CurFrom
  <2> QED
    BY <1>1, <2>1 DEF ReportedOnce
<1>2. CASE ReportRace
  <2>1. /\ raceFlag' = TRUE /\ step' = "free" /\ step # "free"
        /\ reports' = Append(reports, <<records[it], cur>>)
    BY <1>2 DEF ReportRace, Return, AtRecord
  <2>2. reports = <<>>
    BY <2>1 DEF ReportedOnce
  <2>3. <<records[it], cur>> \in Record \X Record
    BY <1>2, LenProperties, ElementOfSeq DEF ReportRace, AtRecord, TypeOK
  <2>4. reports' = << <<records[it], cur>> >>
    BY <2>1, <2>2
  <2> QED
    BY <2>1, <2>3, <2>4 DEF ReportedOnce
<1>3. ASSUME NEW p \in execution.runs, NEW write \in BOOLEAN, NEW hw \in execution.hwLock,
             CheckBegins(p, write, hw)
      PROVE  UNCHANGED <<raceFlag, reports>>
  BY <1>3 DEF CheckBegins, CheckFlagged, CheckDup, CheckFirst, CheckLoop, history
<1>4. CASE AnalyzeExcluded \/ AnalyzeOrdered \/ ManageRecord \/ EndLoop \/ UNCHANGED vars
  BY <1>1, <1>4 DEF AnalyzeExcluded, AnalyzeOrdered, ManageRecord, EndLoop, vars, history
<1>5. ASSUME NEW p \in execution.runs, ProgramStep(p)
      PROVE  UNCHANGED <<raceFlag, reports>>
  BY <1>5, ProgramStepFrame DEF history
<1> QED
  BY <1>1, <1>2, <1>3, <1>4, <1>5, StepCases

LEMMA NoLocksStep ==
  ASSUME Typed, NoLocks, [Next]_vars
  PROVE  NoLocks'
<1> SUFFICES ASSUME LockFree PROVE NoLocks'
  BY StartedStays DEF NoLocks, LockFree
<1>1. /\ execution' = execution /\ execution.locks = {} /\ execution.hwLock = {FALSE}
      /\ execution.runs \subseteq Stretches
  BY StartedStays, RunsAreStretches DEF LockFree, Typed
<1>2. lockSet' = lockSet
  BY <1>1, TasksFrom DEF ProgramStep, Start, Finish, Reduction
<1>3. \A p \in Stretches : lockSet[p] = NullLockSet
  BY DEF NoLocks
<1>4. ASSUME NEW p \in execution.runs, NEW write \in BOOLEAN, NEW hw \in execution.hwLock
      PROVE  Plain(RecordOf(p, write, hw)) /\ Plain(AccessOf(p, write, hw))
  BY <1>1, <1>3 DEF Plain, RecordOf, AccessOf
<1>5. step' # "free" => Plain(cur')
  BY <1>4, CurFrom DEF NoLocks
<1>6. LoopEnds => Plain(cur) /\ Plain(CurAccess)
  BY DEF LoopEnds, NoLocks, Plain, CurAccess
<1>7. \A i \in DOMAIN records' : Plain(records'[i])
  BY <1>4, <1>6, RecordsFrom DEF NoLocks
<1>8. \A a \in performed' : Plain(a)
  BY <1>4, <1>6, PerformedFrom DEF NoLocks, Perform
<1> QED
  BY <1>2, <1>3, <1>5, <1>7, <1>8 DEF NoLocks, Plain

LEMMA PrefixKnownStep ==
  ASSUME Typed, PrefixKnown, [Next]_vars
  PROVE  PrefixKnown'
<1>1. execution' = execution
  BY StartedStays
<1> QED
  BY <1>1, CurFrom DEF PrefixKnown, RecordOf

-----------------------------------------------------------------------------
(* The loop over the records *)

\* The task of an access changes nothing while the access is checked.
LEMMA TaskStays ==
  ASSUME Typed, [Next]_vars, step # "free"
  PROVE  inReduction'[cur.at] = inReduction[cur.at] /\ lockSet'[cur.at] = lockSet[cur.at]
<1>1. cur.at \in Stretches
  BY DEF Typed, TypeOK, Record
<1>2. ASSUME NEW p \in execution.runs, ProgramStep(p)
      PROVE  inReduction'[cur.at] = inReduction[cur.at] /\ lockSet'[cur.at] = lockSet[cur.at]
  BY <1>1, <1>2 DEF ProgramStep, Start, Finish, Reduction, MutexAcquired, MutexReleased, Running,
       Typed, TypeOK
<1> QED
  BY <1>2, TasksFrom

LEMMA LocksKeptStep ==
  ASSUME Typed, LocksKept, [Next]_vars
  PROVE  LocksKept'
<1>1. CASE step' # "free" /\ step # "free" /\ cur' = cur
  BY <1>1, TaskStays DEF LocksKept
<1>2. ASSUME NEW p \in execution.runs, NEW write \in BOOLEAN, NEW hw \in execution.hwLock,
             CheckLoop(p, write, hw), cur' = RecordOf(p, write, hw)
      PROVE  LocksKept'
  BY <1>2 DEF CheckLoop, RecordOf, LocksKept
<1> QED
  BY <1>1, <1>2, CurFrom DEF LocksKept

\* Where no instruction has a lock prefix and a side holds no lock, only a reduction
\* makes analyzeRaceCondition return early.
LEMMA ExcludedIsReduction ==
  ASSUME NEW hist, ~cur.hw, HoldsNoLock(hist) \/ HoldsNoLock(cur)
  PROVE  Excluded(hist, cur) <=> inReduction[cur.at]
<1>1. hist.locks # NullLockSet /\ cur.locks # NullLockSet => ~hasCommonLock(hist.locks, cur.locks)
  BY DEF HoldsNoLock, LocksOf, Range, hasCommonLock
<1> QED
  BY <1>1 DEF Excluded, analyzeMutualExclusion

\* Without lock prefixes in the program, the access has none.
LEMMA CurHasNoPrefix ==
  ASSUME Typed, PrefixKnown, NoPrefixes, step # "free"
  PROVE  cur.hw = FALSE
<1>1. cur.hw \in BOOLEAN /\ cur.hw \in execution.hwLock
  BY DEF Typed, TypeOK, Record, PrefixKnown
<1> QED
  BY <1>1 DEF NoPrefixes

LEMMA AnalyzedStep ==
  ASSUME Typed, PrefixKnown, Analyzed, [Next]_vars
  PROVE  Analyzed'
<1> SUFFICES ASSUME step' # "free" PROVE Analyzed'
  BY DEF Analyzed
<1>0. execution' = execution
  BY StartedStays
<1> USE DEF Typed
<1>1. CASE UNCHANGED <<cur, it, step, isHistBeforeCurrent, diffIndex, records>>
  <2>1. inReduction'[cur.at] = inReduction[cur.at]
    BY <1>1, TaskStays
  <2> QED
    BY <1>0, <1>1, <2>1 DEF Analyzed, NoPrefixes, HoldsNoLock, compareLabels, IsRace, HistBefore,
         happensBefore, MutexPair, BothExplicit
<1>2. CASE AnalyzeExcluded
  <2>1. /\ step = "analyze" /\ Excluded(records[it], cur)
        /\ UNCHANGED <<inReduction, cur, it, records, isHistBeforeCurrent>>
    BY <1>2 DEF AnalyzeExcluded, AtRecord, program, tasks, history
  <2>2. NoPrefixes /\ (HoldsNoLock(records[it]) \/ HoldsNoLock(cur)) => inReduction[cur.at]
    BY <2>1, ExcludedIsReduction, CurHasNoPrefix
  <2>3. inReduction[cur.at] => ~isHistBeforeCurrent
    BY <2>1 DEF Analyzed
  <2> QED
    BY <1>0, <2>1, <2>2, <2>3 DEF Analyzed, NoPrefixes, HoldsNoLock
<1>3. CASE AnalyzeOrdered
  <2>1. /\ step = "analyze" /\ it \in DOMAIN records /\ ~Excluded(records[it], cur)
        /\ UNCHANGED <<inReduction, cur, it, records>>
    BY <1>3, LenProperties DEF AnalyzeOrdered, AtRecord, TypeOK, program, tasks, history
  <2>2. ~inReduction[cur.at]
    BY <2>1 DEF Excluded
  <2>3. PICK diff \in compareLabels(records[it], cur) :
          /\ ~IsRace(records[it], cur, diff)
          /\ isHistBeforeCurrent' = HistBefore(records[it], cur, diff) /\ diffIndex' = diff
    BY <1>3 DEF AnalyzeOrdered
  <2> QED
    BY <2>1, <2>2, <2>3 DEF Analyzed, compareLabels, IsRace, HistBefore, happensBefore, MutexPair, BothExplicit
<1>4. CASE ManageRecord
  <2>1. /\ step = "manage" /\ step' = "analyze"
        /\ UNCHANGED <<inReduction, cur, isHistBeforeCurrent>>
    BY <1>4 DEF ManageRecord, AtRecord, program, tasks
  <2> QED
    BY <2>1 DEF Analyzed
<1>5. ASSUME NEW p \in execution.runs, NEW write \in BOOLEAN, NEW hw \in execution.hwLock,
             CheckBegins(p, write, hw)
      PROVE  Analyzed'
  BY <1>5 DEF Analyzed, CheckBegins, CheckFlagged, CheckDup, CheckFirst, CheckLoop, EnterLoop, loop
<1>6. CASE ReportRace \/ EndLoop
  BY <1>6, LoopEndsIs DEF LoopEnds
<1>7. ASSUME NEW p \in execution.runs, ProgramStep(p)
      PROVE  UNCHANGED <<cur, it, step, isHistBeforeCurrent, diffIndex, records>>
  BY <1>7, ProgramStepFrame DEF history, loop
<1>8. CASE UNCHANGED vars
  BY <1>1, <1>8 DEF vars, history, loop
<1> QED
  BY <1>1, <1>2, <1>3, <1>4, <1>5, <1>6, <1>7, <1>8, StepCases

-----------------------------------------------------------------------------
(* Safety of every program *)

LEMMA InitSafe == Init => SafeIInv
<1> SUFFICES ASSUME Init PROVE SafeIInv
  OBVIOUS
<1>1. <<>> \in Seq(Record \X Record) /\ DOMAIN <<>> = {}
  OBVIOUS
<1>2. InOrder
  BY DEF Init, InOrder, Started
<1>3. RecordsMade /\ FoundOnce
  BY <1>1 DEF Init, RecordsMade, FoundOnce, ReportedOnce
<1>4. NoLocks /\ Analyzed /\ PrefixKnown /\ LocksKept
  BY DEF Init, NoLocks, Analyzed, PrefixKnown, LocksKept
<1> QED
  BY InitTyped, <1>2, <1>3, <1>4 DEF SafeIInv

LEMMA SafeStep ==
  ASSUME SafeIInv, [Next]_vars
  PROVE  SafeIInv'
BY TypedStep, InOrderStep, RecordsMadeStep, FoundOnceStep, NoLocksStep, AnalyzedStep, PrefixKnownStep,
   LocksKeptStep DEF SafeIInv

THEOREM SpecSafe == Spec => []SafeIInv
BY InitSafe, SafeStep, PTL DEF Spec

\* No variable leaves its type, and the iterator stays inside the records.
THEOREM TypeCorrect == Spec => []TypeOK
<1>1. SafeIInv => TypeOK
  BY DEF SafeIInv, Typed
<1> QED
  BY SpecSafe, <1>1, PTL

\* A lock set that the code takes for a subset is one.
THEOREM SubsetIsSoundHolds == Spec => []SubsetIsSound
<1>1. SafeIInv => SubsetIsSound
  BY SubsetOfLocks DEF SafeIInv, Typed, TypeOK, SubsetIsSound
<1> QED
  BY SpecSafe, <1>1, PTL

\* A location is reported once at most, and is marked when it is reported.
THEOREM ReportedOnceHolds == Spec => []ReportedOnce
<1>1. SafeIInv => ReportedOnce
  BY DEF SafeIInv, FoundOnce
<1> QED
  BY SpecSafe, <1>1, PTL

-----------------------------------------------------------------------------
(* Reports *)

\* What the analysis takes for a race is not ordered, if the record is older.
LEMMA RaceIsUnordered ==
  ASSUME SafeIInv, step # "free", NEW i \in DOMAIN records,
         NEW diff \in compareLabels(records[i], cur), IsRace(records[i], cur, diff)
  PROVE  /\ records[i].at # cur.at
         /\ ~Ordered(records[i].at, cur.at) /\ ~Ordered(cur.at, records[i].at)
         /\ ~MutexPair(records[i], cur)
         /\ records[i].write \/ cur.write
<1>1. ~Ordered(cur.at, records[i].at)
  <2>1. Started(records[i].at) /\ phase[cur.at] = "running" /\ Started(cur.at)
    BY DEF SafeIInv, InOrder, Started
  <2>2. records[i].at \in Stretches /\ cur.at \in Stretches
    BY RecordType DEF SafeIInv, Typed, TypeOK, Record
  <2> QED
    BY <2>1, <2>2 DEF SafeIInv, InOrder
<1>2. /\ diff # "eRightIsPrefix" /\ ~HistBefore(records[i], cur, diff)
      /\ ~MutexPair(records[i], cur) /\ (records[i].write \/ cur.write)
  BY DEF IsRace
<1>3. records[i].at # cur.at /\ <<records[i].at, cur.at>> \notin Before
  BY <1>2 DEF HistBefore, happensBefore
<1>4. <<records[i].at, cur.at>> \notin Path
  <2>1. <<records[i].at, cur.at>> \in Path => BothExplicit(records[i], cur)
    BY ProgramAssumption DEF BothExplicit
  <2> QED
    BY <1>2, <2>1 DEF HistBefore
<1> QED
  BY <1>1, <1>2, <1>3, <1>4 DEF Ordered

\* Where no instruction has a lock prefix, lock sets exclude what they should.
LEMMA NotExcluded ==
  ASSUME Typed, NEW hist \in Record, cur \in Record, ~cur.hw, ~Excluded(hist, cur)
  PROVE  LocksOf(hist.locks) \cap LocksOf(cur.locks) = {}
<1>1. CASE hist.locks = NullLockSet \/ cur.locks = NullLockSet
  BY <1>1 DEF LocksOf
<1>2. CASE hist.locks # NullLockSet /\ cur.locks # NullLockSet
  <2>1. ~hasCommonLock(hist.locks, cur.locks)
    BY <1>2 DEF Excluded, analyzeMutualExclusion
  <2> QED
    BY <1>2, <2>1 DEF hasCommonLock, LocksOf, Range
<1> QED
  BY <1>1, <1>2

LEMMA ReportRaces ==
  ASSUME SafeIInv, ReportRace, TRUE \notin execution.hwLock
  PROVE  Race(records[it], cur)
<1>1. step # "free" /\ it \in DOMAIN records /\ ~Excluded(records[it], cur)
  BY RecordType DEF ReportRace, AtRecord, SafeIInv, Typed, TypeOK
<1>2. records[it] \in Record /\ cur \in Record /\ ~cur.hw
  <2>1. records[it] \in Record /\ cur \in Record /\ cur.hw \in execution.hwLock /\ cur.hw \in BOOLEAN
    BY <1>1, RecordType DEF SafeIInv, Typed, TypeOK, PrefixKnown, Record
  <2> QED
    BY <2>1
<1>3. LocksOf(records[it].locks) \cap LocksOf(cur.locks) = {}
  BY <1>1, <1>2, NotExcluded DEF SafeIInv
<1>4. PICK diff \in compareLabels(records[it], cur) : IsRace(records[it], cur, diff)
  BY DEF ReportRace
<1> QED
  BY <1>1, <1>2, <1>3, <1>4, RaceIsUnordered DEF Race

\* What is reported has happened and is a race, whatever locks the program uses,
\* as long as its instructions have no lock prefix (with it, see Core.cpp, line 83).
THEOREM ReportsJustifiedHolds ==
  ASSUME \A e \in Executions : TRUE \notin e.hwLock
  PROVE  Spec => []ReportsJustified
<1>1. Init => ReportsJustified
  BY DEF Init, ReportsJustified
<1>2. ASSUME SafeIInv, ReportsJustified, [Next]_vars PROVE ReportsJustified'
  <2>1. performed \subseteq performed'
    BY <1>2, PerformedFrom DEF Perform
  <2>2. reports \in Seq(Record \X Record) /\ DOMAIN reports = 1..Len(reports) /\ Len(reports) \in Nat
    BY <1>2, LenProperties DEF SafeIInv, FoundOnce
  <2>3. CASE reports' = reports
    <3> SUFFICES ASSUME NEW i \in DOMAIN reports
                 PROVE  /\ Race(reports[i][1], reports[i][2])
                        /\ \A k \in 1..2 : \E a \in performed' :
                             a.at = reports[i][k].at /\ a.write = reports[i][k].write
      BY <2>3 DEF ReportsJustified, Race, MutexPair, BothExplicit
    <3> QED
      BY <1>2, <2>1 DEF ReportsJustified
  <2>4. CASE ReportRace
    <3>1. /\ reports' = Append(reports, <<records[it], cur>>) /\ CurAccess \in performed'
          /\ step = "analyze" /\ it \in DOMAIN records
      <4>1. reports' = Append(reports, <<records[it], cur>>) /\ AtRecord("analyze")
        BY <2>4 DEF ReportRace
      <4>2. CurAccess \in performed'
        BY <2>4, LoopEndsIs DEF LoopEnds, Perform
      <4>3. step = "analyze" /\ it \in DOMAIN records
        BY <1>2, <4>1, RecordType DEF AtRecord, SafeIInv, Typed, TypeOK
      <4> QED
        BY <4>1, <4>2, <4>3
    <3>2. reports = <<>>
      BY <1>2, <3>1 DEF SafeIInv, FoundOnce, ReportedOnce
    <3>3. reports' = << <<records[it], cur>> >>
      BY <3>1, <3>2
    <3>4. Race(records[it], cur)
      BY <1>2, <2>4, ReportRaces DEF SafeIInv, Typed, TypeOK
    <3>5. \E a \in performed' : a.at = records[it].at /\ a.write = records[it].write
      BY <1>2, <2>1, <3>1 DEF SafeIInv, RecordsMade, Same
    <3>6. \E a \in performed' : a.at = cur.at /\ a.write = cur.write
      BY <3>1 DEF CurAccess
    <3> QED
      BY <3>3, <3>4, <3>5, <3>6 DEF ReportsJustified, Race, MutexPair, BothExplicit
  <2>5. ASSUME NEW p \in execution.runs, NEW write \in BOOLEAN, NEW hw \in execution.hwLock,
               CheckBegins(p, write, hw)
        PROVE  reports' = reports
    BY <2>5 DEF CheckBegins, CheckFlagged, CheckDup, CheckFirst, CheckLoop, history
  <2>6. CASE AnalyzeExcluded \/ AnalyzeOrdered \/ ManageRecord \/ EndLoop \/ UNCHANGED vars
    BY <2>3, <2>6 DEF AnalyzeExcluded, AnalyzeOrdered, ManageRecord, EndLoop, vars, history
  <2>7. ASSUME NEW p \in execution.runs, ProgramStep(p) PROVE reports' = reports
    BY <2>7, ProgramStepFrame DEF history
  <2> QED
    BY <1>2, <2>3, <2>4, <2>5, <2>6, <2>7, StepCases
<1> QED
  BY SpecSafe, <1>1, <1>2, PTL DEF Spec
-----------------------------------------------------------------------------
(* What the pruning throws away *)

\* The order, with every stretch beside itself, is transitive.
LEMMA NotAfterTransitive ==
  ASSUME NEW p \in Stretches, NEW q \in Stretches, NEW r \in Stretches, NotAfter(p, q), NotAfter(q, r)
  PROVE  NotAfter(p, r)
BY ProgramAssumption DEF NotAfter

\* What is known of a record once it is analysed, and of the decision on it, if it or
\* the access holds no lock.
LEMMA RecordAnalysed ==
  ASSUME SafeIInv, LocksOnly, step = "manage"
  PROVE  /\ Checked /\ (HoldsNoLock(records[it]) \/ HoldsNoLock(cur)) =>
              NotAfter(records[it].at, cur.at) \/ ~(records[it].write \/ cur.write)
         /\ Decision = "eDelHist" /\ HoldsNoLock(records[it]) =>
              /\ Checked /\ HoldsNoLock(cur) /\ NotAfter(records[it].at, cur.at)
              /\ records[it].write => cur.write
         /\ Decision = "eSkipAddCur" /\ Checked /\ HoldsNoLock(cur) =>
              /\ HoldsNoLock(records[it])
              /\ records[it].at = cur.at /\ (cur.write => records[it].write)
<1> DEFINE hist == records[it]
           unlocked == HoldsNoLock(hist) \/ HoldsNoLock(cur)
<1>1. /\ Checked <=> ~inReduction[cur.at]
      /\ ~Checked => ~isHistBeforeCurrent
      /\ Checked /\ unlocked =>
           /\ diffIndex \in compareLabels(hist, cur)
           /\ ~IsRace(hist, cur, diffIndex)
           /\ isHistBeforeCurrent = HistBefore(hist, cur, diffIndex)
  BY DEF SafeIInv, Analyzed, LocksOnly, Checked
<1>2. ~MutexPair(hist, cur)
  BY DEF LocksOnly, MutexPair
<1>3. hist \in Record /\ cur \in Record /\ hist.locks \in LockSets /\ cur.locks \in LockSets
  <2>1. it \in DOMAIN records /\ cur \in Record
    BY RecordType DEF SafeIInv, Typed, TypeOK
  <2> QED
    BY <2>1, RecordType DEF SafeIInv, Record
<1> HIDE DEF hist
<1>4. HistBefore(hist, cur, diffIndex) => NotAfter(hist.at, cur.at)
  BY DEF HistBefore, happensBefore, NotAfter, Ordered
<1>5. diffIndex \in compareLabels(hist, cur) =>
        /\ diffIndex = "eRightIsPrefix" => <<hist.at, cur.at>> \in Popped
        /\ diffIndex = "eSameLabel" => hist.at = cur.at
  BY DEF compareLabels
<1>6. diffIndex \in compareLabels(hist, cur) /\ ~IsRace(hist, cur, diffIndex) =>
        NotAfter(hist.at, cur.at) \/ ~(hist.write \/ cur.write)
  BY <1>2, <1>4, <1>5, ProgramAssumption DEF IsRace, NotAfter, Ordered
<1>7. /\ Decision = "eDelHist" =>
           isHistBeforeCurrent /\ (hist.write => cur.write) /\ isSubset(cur.locks, hist.locks)
      /\ Decision = "eSkipAddCur" =>
           diffIndex = "eSameLabel" /\ (cur.write => hist.write) /\ isSubset(hist.locks, cur.locks)
  BY DEF Decision, manageAccessRecord, hist
<1>8. /\ Decision = "eDelHist" /\ HoldsNoLock(hist) => HoldsNoLock(cur)
      /\ Decision = "eSkipAddCur" /\ HoldsNoLock(cur) => HoldsNoLock(hist)
  BY <1>3, <1>7, SubsetOfLocks DEF HoldsNoLock
<1>9. /\ Checked /\ unlocked => NotAfter(hist.at, cur.at) \/ ~(hist.write \/ cur.write)
      /\ Decision = "eDelHist" /\ HoldsNoLock(hist) =>
           Checked /\ HoldsNoLock(cur) /\ NotAfter(hist.at, cur.at) /\ (hist.write => cur.write)
      /\ Decision = "eSkipAddCur" /\ Checked /\ HoldsNoLock(cur) =>
           HoldsNoLock(hist) /\ hist.at = cur.at /\ (cur.write => hist.write)
  BY <1>1, <1>4, <1>5, <1>6, <1>7, <1>8
<1> QED
  BY <1>9 DEF hist

\* The stretches of what the invariant speaks of.
LEMMA StretchesOf ==
  ASSUME Typed
  PROVE  /\ \A i \in DOMAIN records : records[i].at \in Stretches
         /\ \A a \in performed : a.at \in Stretches
         /\ step # "free" => cur.at \in Stretches
<1>1. performed \subseteq Access /\ (step # "free" => cur \in Record)
  BY DEF Typed, TypeOK
<1> QED
  BY <1>1, RecordType DEF Access, Record

\* One step of the loop over the records.
LEMMA PruneManage ==
  ASSUME SafeIInv, LocksOnly, PruneInv, ManageRecord
  PROVE  Covered' /\ Passed' /\ SkipCovered'
<1>1. /\ step = "manage" /\ step' = "analyze" /\ it \in 1..Len(records) /\ Len(records) \in Nat
      /\ DOMAIN records = 1..Len(records) /\ records \in Seq(Record)
      /\ UNCHANGED <<performed, raceFlag, cur, inReduction>>
      /\ skipAddCur' = (skipAddCur \/ Decision = "eSkipAddCur")
  <2>1. step = "manage" /\ step' = "analyze" /\ skipAddCur' = (skipAddCur \/ Decision = "eSkipAddCur")
        /\ UNCHANGED <<performed, raceFlag, cur, inReduction>>
    BY DEF ManageRecord, AtRecord, program, tasks
  <2> QED
    BY <2>1, RecordType DEF SafeIInv, Typed, TypeOK
<1>2. Covered /\ Passed /\ SkipCovered
  BY DEF PruneInv
<1>3. Checked' <=> Checked
  BY <1>1 DEF Checked
<1>4. CASE Decision = "eDelHist"
  <2>1. /\ records' = RemoveAt(records, it) /\ it' = it /\ skipAddCur' = skipAddCur
    <3>1. skipAddCur \in BOOLEAN
      BY DEF SafeIInv, Typed, TypeOK
    <3>2. skipAddCur' = (skipAddCur \/ FALSE)
      BY <1>1, <1>4
    <3>3. records' = RemoveAt(records, it) /\ it' = it
      BY <1>4 DEF ManageRecord
    <3> QED
      BY <3>1, <3>2, <3>3
  <2>2. HoldsNoLock(records[it]) => /\ Checked /\ HoldsNoLock(cur)
                                    /\ NotAfter(records[it].at, cur.at) /\ (records[it].write => cur.write)
    BY <1>1, <1>4, RecordAnalysed
  <2>3. /\ Len(records') = Len(records) - 1 /\ DOMAIN records' = 1..Len(records) - 1
        /\ \A j \in 1..Len(records) - 1 : records'[j] = IF j < it THEN records[j] ELSE records[j + 1]
    BY <1>1, <2>1, RemoveAtProperties, LenProperties
  <2>4. \A i \in 1..it - 1 : i \in DOMAIN records' /\ i \in DOMAIN records /\ records'[i] = records[i]
    BY <1>1, <2>3
  <2>5. Passed'
    BY <1>1, <1>2, <1>3, <2>1, <2>4 DEF Passed, HoldsNoLock
  <2>6. SkipCovered'
    BY <1>1, <1>2, <1>3, <2>1, <2>4 DEF SkipCovered, HoldsNoLock
  <2>7. \A i \in DOMAIN records : i # it => \E j \in DOMAIN records' : records'[j] = records[i]
    <3> SUFFICES ASSUME NEW i \in DOMAIN records, i # it
                 PROVE  \E j \in DOMAIN records' : records'[j] = records[i]
      OBVIOUS
    <3>1. CASE i < it
      BY <1>1, <2>4, <3>1
    <3>2. CASE i > it
      <4>1. i - 1 \in DOMAIN records' /\ ~(i - 1 < it) /\ (i - 1) + 1 = i
        BY <1>1, <2>3, <3>2
      <4>2. records'[i - 1] = records[i]
        BY <2>3, <4>1
      <4> QED
        BY <4>1, <4>2
    <3> QED
      BY <1>1, <3>1, <3>2
  <2>8. ASSUME NEW a \in performed, Covers(records[it], a) PROVE Checked /\ Covers(cur, a)
    <3>1. a.at \in Stretches /\ records[it].at \in Stretches /\ cur.at \in Stretches
      BY <1>1, StretchesOf DEF SafeIInv
    <3> QED
      BY <2>2, <2>8, <3>1, NotAfterTransitive DEF Covers
  <2>9. Covered'
    <3> SUFFICES ASSUME ~raceFlag, NEW a \in performed, ~a.reduction, HoldsNoLock(a)
                 PROVE  (\E i \in DOMAIN records' : Covers(records'[i], a)) \/ (Checked /\ Covers(cur, a))
      BY <1>1, <1>3 DEF Covered, Covers, NotAfter, HoldsNoLock
    <3> QED
      BY <1>2, <2>7, <2>8 DEF Covered
  <2> QED
    BY <2>5, <2>6, <2>9
<1>5. CASE Decision # "eDelHist"
  <2>1. records' = records /\ it' = it + 1
    BY <1>5 DEF ManageRecord
  <2>2. Covered'
    BY <1>1, <1>2, <1>3, <2>1 DEF Covered, Covers, NotAfter, HoldsNoLock
  <2>3. \A i \in 1..it' - 1 : i \in 1..it - 1 \/ i = it
    BY <1>1, <2>1
  <2>4. Passed'
    <3> SUFFICES ASSUME Checked, NEW i \in 1..it' - 1, HoldsNoLock(records[i]) \/ HoldsNoLock(cur)
                 PROVE  NotAfter(records[i].at, cur.at) \/ ~(records[i].write \/ cur.write)
      BY <1>1, <1>3, <2>1 DEF Passed, NotAfter, HoldsNoLock
    <3> QED
      BY <1>1, <1>2, <2>3, RecordAnalysed DEF Passed
  <2>5. SkipCovered'
    <3> SUFFICES ASSUME Checked, HoldsNoLock(cur), skipAddCur \/ Decision = "eSkipAddCur"
                 PROVE  \E i \in 1..it' - 1 : /\ HoldsNoLock(records[i])
                                             /\ records[i].at = cur.at /\ (cur.write => records[i].write)
      BY <1>1, <1>3, <2>1 DEF SkipCovered, HoldsNoLock
    <3>1. it \in 1..it' - 1 /\ 1..it - 1 \subseteq 1..it' - 1
      BY <1>1, <2>1
    <3> QED
      BY <1>1, <1>2, <3>1, RecordAnalysed DEF SkipCovered
  <2> QED
    BY <2>2, <2>4, <2>5
<1> QED
  BY <1>4, <1>5

\* When the loop ends without a race, no access without locks made before races with
\* the one that was checked, whatever locks that one is made under.
LEMMA NothingForgotten ==
  ASSUME SafeIInv, LocksOnly, PruneInv, EndLoop, Checked,
         NEW a \in performed, ~a.reduction, HoldsNoLock(a)
  PROVE  NotAfter(a.at, cur.at) \/ ~(a.write \/ cur.write)
<1>1. Covered /\ Passed /\ ~raceFlag
  BY DEF PruneInv, SafeIInv, FoundOnce, Checked
<1>2. CASE Covers(cur, a)
  BY <1>2 DEF Covers
<1>3. ASSUME NEW i \in DOMAIN records, Covers(records[i], a)
      PROVE  NotAfter(a.at, cur.at) \/ ~(a.write \/ cur.write)
  <2>1. i \in 1..it - 1
    BY RecordType DEF EndLoop, SafeIInv, Typed, TypeOK
  <2>2. NotAfter(records[i].at, cur.at) \/ ~(records[i].write \/ cur.write)
    BY <1>1, <1>3, <2>1 DEF Passed, Covers
  <2>3. a.at \in Stretches /\ records[i].at \in Stretches /\ cur.at \in Stretches
    BY StretchesOf DEF SafeIInv, Checked
  <2> QED
    BY <1>3, <2>2, <2>3, NotAfterTransitive DEF Covers
<1> QED
  BY <1>1, <1>2, <1>3 DEF Covered

\* The access of the loop, in terms of the duplicate tables.
LEMMA CurIsKnown ==
  ASSUME SafeIInv, NoPrefixes, step # "free"
  PROVE  /\ CurAccess = Known(cur.at, cur.write)
         /\ CurAccess.at = cur.at /\ CurAccess.write = cur.write
         /\ CurAccess.reduction = inReduction[cur.at]
         /\ HoldsNoLock(CurAccess) <=> HoldsNoLock(cur)
BY CurHasNoPrefix DEF SafeIInv, LocksKept, CurAccess, Known, HoldsNoLock

\* The loop over the records ends without a race.
LEMMA PruneEnd ==
  ASSUME SafeIInv, LocksOnly, PruneInv, EndLoop
  PROVE  Covered' /\ DupsPerformed' /\ NoRaceYet'
<1>1. /\ step = "analyze" /\ ~raceFlag /\ raceFlag' = raceFlag /\ step' = "free"
      /\ performed' = performed \cup {CurAccess} /\ UNCHANGED <<lockSet, inReduction, dup>>
      /\ IF skipAddCur THEN records' = records ELSE records' = Append(records, cur)
  BY LoopEndsIs DEF EndLoop, LoopEnds, Perform, tasks, SafeIInv, FoundOnce
<1>2. /\ it = Len(records) + 1 /\ Len(records) \in Nat /\ DOMAIN records = 1..Len(records)
      /\ records \in Seq(Record) /\ cur \in Record
  BY RecordType, <1>1 DEF EndLoop, SafeIInv, Typed, TypeOK
<1>3. Covered /\ SkipCovered /\ DupsPerformed /\ NoRaceYet
  BY DEF PruneInv
<1>4. /\ CurAccess = Known(cur.at, cur.write)
      /\ CurAccess.at = cur.at /\ CurAccess.write = cur.write
      /\ Checked <=> ~CurAccess.reduction
      /\ HoldsNoLock(CurAccess) <=> HoldsNoLock(cur)
  BY <1>1, CurIsKnown DEF LocksOnly, Checked
<1>5. /\ \A i \in DOMAIN records : records[i].at \in Stretches
      /\ \A a \in performed : a.at \in Stretches
      /\ cur.at \in Stretches
  BY <1>1, StretchesOf DEF SafeIInv
<1>6. \A i \in DOMAIN records : i \in DOMAIN records' /\ records'[i] = records[i]
  <2>1. CASE records' = Append(records, cur)
    BY <1>2, <2>1, AppendProperties
  <2>2. CASE records' = records
    BY <2>2
  <2> QED
    BY <1>1, <2>1, <2>2
\* What the access covers is covered by a record afterwards.
<1>7. ASSUME Checked, NEW a, a.at \in Stretches, Covers(cur, a)
      PROVE  \E i \in DOMAIN records' : Covers(records'[i], a)
  <2>1. CASE skipAddCur
    <3>1. PICK i \in 1..it - 1 : /\ HoldsNoLock(records[i])
                                 /\ records[i].at = cur.at /\ (cur.write => records[i].write)
      BY <1>3, <1>7, <2>1 DEF SkipCovered, Covers
    <3>2. i \in DOMAIN records
      BY <1>2, <3>1
    <3>3. Covers(records[i], a)
      BY <1>7, <3>1 DEF Covers
    <3> QED
      BY <1>6, <3>2, <3>3
  <2>2. CASE ~skipAddCur
    <3>1. Len(records) + 1 \in DOMAIN records' /\ records'[Len(records) + 1] = cur
      BY <1>1, <1>2, <2>2, AppendProperties
    <3> QED
      BY <1>7, <3>1
  <2> QED
    BY <2>1, <2>2
<1>8. Covered'
  <2> SUFFICES ASSUME NEW a \in performed', ~a.reduction, HoldsNoLock(a)
               PROVE  \E i \in DOMAIN records' : Covers(records'[i], a)
    BY DEF Covered, Covers, NotAfter, HoldsNoLock
  <2>1. CASE a = CurAccess
    <3>1. Checked /\ Covers(cur, a) /\ a.at \in Stretches
      BY <1>4, <1>5, <2>1 DEF Covers, NotAfter
    <3> QED
      BY <1>7, <3>1
  <2>2. CASE a \in performed
    BY <1>1, <1>3, <1>5, <1>6, <1>7, <2>2 DEF Covered
  <2> QED
    BY <1>1, <2>1, <2>2
<1>9. NoRaceYet'
  <2> SUFFICES ASSUME NEW a \in performed', NEW b \in performed', ~a.reduction, ~b.reduction,
                      HoldsNoLock(a), HoldsNoLock(b)
               PROVE  ~Race(a, b)
    BY DEF NoRaceYet, Race, MutexPair, BothExplicit, HoldsNoLock
  <2>1. CASE a \in performed /\ b \in performed
    BY <1>1, <1>3, <2>1 DEF NoRaceYet
  <2>2. CASE a = CurAccess /\ b = CurAccess
    BY <2>2 DEF Race
  <2>3. CASE a \in performed /\ b = CurAccess
    BY <1>4, <2>3, NothingForgotten DEF Race, NotAfter
  <2>4. CASE a = CurAccess /\ b \in performed
    BY <1>4, <2>4, NothingForgotten DEF Race, NotAfter
  <2> QED
    BY <1>1, <2>1, <2>2, <2>3, <2>4
<1>10. DupsPerformed'
  <2> SUFFICES ASSUME NEW p \in Stretches, NEW w \in dup[p]
               PROVE  Known(p, w) \in performed'
    BY <1>1 DEF DupsPerformed, Known
  <2>1. CASE Inside(p) /\ cur.write = w
    BY <1>1, <1>4, <2>1 DEF Inside
  <2>2. CASE ~(Inside(p) /\ cur.write = w)
    BY <1>1, <1>3, <2>2 DEF DupsPerformed
  <2> QED
    BY <2>1, <2>2
<1> QED
  BY <1>8, <1>9, <1>10

\* A duplicate has been performed before, under the same locks.
LEMMA DupIsPerformed ==
  ASSUME SafeIInv, LocksOnly, PruneInv, step = "free",
         NEW p \in execution.runs, NEW write \in BOOLEAN, NEW hw \in execution.hwLock,
         CheckDup(p, write, hw)
  PROVE  performed' = performed
<1>1. p \in Stretches /\ hw = FALSE
  BY RunsAreStretches DEF SafeIInv, Typed, LocksOnly, NoPrefixes
<1>2. AccessOf(p, write, hw) = Known(p, write)
  BY <1>1 DEF AccessOf, Known
<1>3. Known(p, write) \in performed
  BY <1>1 DEF CheckDup, PruneInv, DupsPerformed, Inside
<1> QED
  BY <1>2, <1>3 DEF CheckDup, Perform

\* The first access to a location that has no record: no access without locks, but
\* for those of reductions, has been made before.
LEMMA FirstIsFirst ==
  ASSUME PruneInv, LocksOnly, step = "free", ~raceFlag, records = <<>>
  PROVE  \A a \in performed : a.reduction \/ ~HoldsNoLock(a)
BY DEF PruneInv, Covered, Checked

\* A check begins, and ends at once or goes into the loop.
LEMMA PruneBegins ==
  ASSUME SafeIInv, LocksOnly, PruneInv,
         NEW p \in execution.runs, NEW write \in BOOLEAN, NEW hw \in execution.hwLock,
         CheckBegins(p, write, hw)
  PROVE  Covered' /\ Passed' /\ SkipCovered' /\ DupsPerformed' /\ NoRaceYet'
<1>1. Covered /\ Passed /\ SkipCovered /\ DupsPerformed /\ NoRaceYet
  BY DEF PruneInv
<1> DEFINE a == AccessOf(p, write, hw)
           r == RecordOf(p, write, hw)
<1>2. p \in Stretches /\ hw = FALSE
  BY RunsAreStretches DEF SafeIInv, Typed, LocksOnly, NoPrefixes
<1>3. /\ a.at = p /\ a.write = write /\ a = Known(p, write)
      /\ r.at = p /\ r.write = write
      /\ HoldsNoLock(a) <=> HoldsNoLock(r)
  BY <1>2 DEF AccessOf, RecordOf, Known, HoldsNoLock
<1> HIDE DEF a, r
<1>4. step = "free" /\ ~Checked
  BY DEF CheckBegins, Checked
<1>5. CASE CheckFlagged(p, write, hw)
  BY <1>4, <1>5 DEF CheckFlagged, loop, Covered, Passed, SkipCovered, DupsPerformed, NoRaceYet, Checked
<1>6. CASE CheckDup(p, write, hw)
  <2>1. /\ performed' = performed
        /\ UNCHANGED <<lockSet, inReduction, dup, records, raceFlag, cur, it, step, skipAddCur>>
    BY <1>4, <1>6, DupIsPerformed DEF CheckDup, tasks, history, loop
  <2>2. Covered'
    BY <1>1, <2>1 DEF Covered, Covers, NotAfter, Checked, HoldsNoLock
  <2>3. Passed' /\ SkipCovered'
    BY <1>4, <2>1 DEF Passed, SkipCovered, Checked
  <2>4. DupsPerformed'
    BY <1>1, <2>1 DEF DupsPerformed, Inside, Known
  <2>5. NoRaceYet'
    BY <1>1, <2>1 DEF NoRaceYet, Race, MutexPair, BothExplicit, HoldsNoLock
  <2> QED
    BY <2>2, <2>3, <2>4, <2>5
<1>7. CASE CheckFirst(p, write, hw)
  <2>1. /\ ~raceFlag /\ records = <<>> /\ records' = Append(records, r)
        /\ performed' = performed \cup {a} /\ dup' = [dup EXCEPT ![p] = @ \cup {write}]
        /\ UNCHANGED <<lockSet, inReduction, raceFlag, cur, it, step, skipAddCur>>
    BY <1>7 DEF CheckFirst, Perform, loop, a, r
  <2>2. \A b \in performed' : ~b.reduction /\ HoldsNoLock(b) => b = a
    BY <1>4, <2>1, FirstIsFirst
  <2>3. records' = <<r>>
    BY <2>1
  <2>4. Covered'
    <3> SUFFICES ASSUME NEW b \in performed', ~b.reduction, HoldsNoLock(b)
                 PROVE  \E i \in DOMAIN records' : Covers(records'[i], b)
      BY DEF Covered, Covers, NotAfter, HoldsNoLock
    <3>1. 1 \in DOMAIN records' /\ records'[1] = r
      BY <2>3
    <3>2. b = a /\ Covers(r, a)
      BY <1>3, <2>2 DEF Covers, NotAfter
    <3> QED
      BY <3>1, <3>2
  <2>5. Passed' /\ SkipCovered'
    BY <1>4, <2>1 DEF Passed, SkipCovered, Checked
  <2>6. DupsPerformed'
    <3> SUFFICES ASSUME NEW q \in Stretches, NEW w \in dup'[q]
                 PROVE  Known(q, w) \in performed'
      BY <2>1 DEF DupsPerformed, Known
    <3>1. w \in dup[q] \/ (q = p /\ w = write)
      BY <1>2, <2>1 DEF SafeIInv, Typed, TypeOK
    <3>2. w \in dup[q] => Known(q, w) \in performed
      BY <1>1, <1>4, <2>1 DEF DupsPerformed, Inside
    <3> QED
      BY <1>3, <2>1, <3>1, <3>2
  <2>7. NoRaceYet'
    BY <2>2 DEF NoRaceYet, Race, HoldsNoLock
  <2> QED
    BY <2>4, <2>5, <2>6, <2>7
<1>8. CASE CheckLoop(p, write, hw)
  <2>1. /\ ~raceFlag /\ dup' = [dup EXCEPT ![p] = @ \cup {write}]
        /\ cur' = r /\ it' = 1 /\ step' = "analyze" /\ skipAddCur' = FALSE
        /\ UNCHANGED <<lockSet, inReduction, records, raceFlag, performed>>
    BY <1>8 DEF CheckLoop, EnterLoop, history, r
  <2>2. Covered'
    BY <1>1, <1>4, <2>1 DEF Covered, Covers, NotAfter, HoldsNoLock
  <2>3. Passed' /\ SkipCovered'
    BY <2>1 DEF Passed, SkipCovered
  <2>4. DupsPerformed'
    <3> SUFFICES ASSUME NEW q \in Stretches, NEW w \in dup'[q], ~(cur'.at = q /\ cur'.write = w)
                 PROVE  Known(q, w) \in performed
      BY <2>1 DEF DupsPerformed, Known, Inside
    <3>1. w \in dup[q] \/ (q = p /\ w = write)
      BY <1>2, <2>1 DEF SafeIInv, Typed, TypeOK
    <3> QED
      BY <1>1, <1>3, <1>4, <2>1, <3>1 DEF DupsPerformed, Inside
  <2>5. NoRaceYet'
    BY <1>1, <2>1 DEF NoRaceYet, Race, MutexPair, BothExplicit, HoldsNoLock
  <2> QED
    BY <2>2, <2>3, <2>4, <2>5
<1> QED
  BY <1>5, <1>6, <1>7, <1>8 DEF CheckBegins

\* The program between two accesses.
LEMMA PruneProgram ==
  ASSUME SafeIInv, LocksOnly, PruneInv, [Next]_vars, NEW p \in execution.runs, ProgramStep(p)
  PROVE  Covered' /\ Passed' /\ SkipCovered' /\ DupsPerformed' /\ NoRaceYet'
<1>1. Covered /\ Passed /\ SkipCovered /\ DupsPerformed /\ NoRaceYet
  BY DEF PruneInv
<1>2. UNCHANGED <<records, raceFlag, performed, cur, it, step, skipAddCur>>
  BY ProgramStepFrame DEF history, loop
<1>3. Checked' <=> Checked
  BY <1>2, TaskStays DEF Checked, SafeIInv
\* A task that gets a lock, gives one up or begins or ends a reduction has a new
\* labelId: its duplicate tables know nothing.
<1>4. \A q \in Stretches :
        dup'[q] = {} \/ (dup'[q] = dup[q] /\ inReduction'[q] = inReduction[q] /\ lockSet'[q] = lockSet[q])
  BY DEF ProgramStep, Start, Finish, Reduction, MutexAcquired, MutexReleased, SafeIInv, Typed, TypeOK
<1>5. Covered' /\ Passed' /\ SkipCovered'
  BY <1>1, <1>2, <1>3 DEF Covered, Passed, SkipCovered, Covers, NotAfter, HoldsNoLock
<1>6. DupsPerformed'
  BY <1>1, <1>2, <1>4 DEF DupsPerformed, Inside, Known
<1>7. NoRaceYet'
  BY <1>1, <1>2 DEF NoRaceYet, Race, MutexPair, BothExplicit, HoldsNoLock
<1> QED
  BY <1>5, <1>6, <1>7

LEMMA PruneStep ==
  ASSUME SafeIInv, PruneInv, [Next]_vars
  PROVE  PruneInv'
<1> SUFFICES ASSUME LocksOnly PROVE Covered' /\ Passed' /\ SkipCovered' /\ DupsPerformed' /\ NoRaceYet'
  BY StartedStays DEF PruneInv, LocksOnly, NoPrefixes, SafeIInv
<1>1. Covered /\ Passed /\ SkipCovered /\ DupsPerformed /\ NoRaceYet
  BY DEF PruneInv
<1>2. CASE AnalyzeExcluded \/ AnalyzeOrdered \/ UNCHANGED vars
  <2>1. UNCHANGED <<records, raceFlag, performed, cur, it, skipAddCur, lockSet, inReduction, dup>>
        /\ (step' = "free" <=> step = "free")
    BY <1>2 DEF AnalyzeExcluded, AnalyzeOrdered, AtRecord, vars, program, tasks, history, loop
  <2>2. Covered' /\ Passed' /\ SkipCovered'
    BY <1>1, <2>1 DEF Covered, Passed, SkipCovered, Covers, NotAfter, Checked, HoldsNoLock
  <2>3. DupsPerformed'
    BY <1>1, <2>1 DEF DupsPerformed, Inside, Known
  <2>4. NoRaceYet'
    BY <1>1, <2>1 DEF NoRaceYet, Race, MutexPair, BothExplicit, HoldsNoLock
  <2> QED
    BY <2>2, <2>3, <2>4
<1>3. CASE ReportRace
  <2>1. raceFlag' /\ step' = "free"
    BY <1>3 DEF ReportRace, Return
  <2> QED
    BY <2>1 DEF Covered, Passed, SkipCovered, DupsPerformed, NoRaceYet, Checked
<1>4. CASE ManageRecord
  <2>1. UNCHANGED <<raceFlag, performed, cur, lockSet, inReduction, dup>> /\ step # "free" /\ step' # "free"
    BY <1>4 DEF ManageRecord, AtRecord, program, tasks
  <2>2. DupsPerformed'
    BY <1>1, <2>1 DEF DupsPerformed, Inside, Known
  <2>3. NoRaceYet'
    BY <1>1, <2>1 DEF NoRaceYet, Race, MutexPair, BothExplicit, HoldsNoLock
  <2> QED
    BY <1>4, <2>2, <2>3, PruneManage
<1>5. CASE EndLoop
  <2>1. step' = "free"
    BY <1>5 DEF EndLoop, Return
  <2>2. Passed' /\ SkipCovered'
    BY <2>1 DEF Passed, SkipCovered, Checked
  <2> QED
    BY <1>5, <2>2, PruneEnd
<1> QED
  BY <1>2, <1>3, <1>4, <1>5, PruneBegins, PruneProgram, StepCases

LEMMA InitPrune == Init => PruneInv
<1> SUFFICES ASSUME Init PROVE PruneInv
  OBVIOUS
<1>1. Covered /\ Passed /\ SkipCovered /\ NoRaceYet
  BY DEF Init, Covered, Passed, SkipCovered, NoRaceYet, Checked
<1>2. DupsPerformed
  BY DEF Init, DupsPerformed
<1> QED
  BY <1>1, <1>2 DEF PruneInv

THEOREM SpecPrunes == Spec => []IInv
<1>1. Init => IInv
  BY InitSafe, InitPrune DEF IInv
<1>2. IInv /\ [Next]_vars => IInv'
  BY SafeStep, PruneStep DEF IInv
<1> QED
  BY <1>1, <1>2, PTL DEF Spec

\* Where no lock and no mutexinoutset dependence excludes an access, a location on
\* which two accesses race is marked when the second one has been checked, whatever
\* has been pruned, skipped or filtered as a duplicate.
THEOREM RacesFoundHolds == Spec => [](LockFree /\ MutexTasks = {} => RacesFound)
<1>1. ASSUME IInv, LockFree, MutexTasks = {} PROVE RacesFound
  <2>1. LocksOnly /\ NoRaceYet
    BY <1>1 DEF IInv, PruneInv, LocksOnly, NoPrefixes, LockFree
  <2>2. \A a \in performed : HoldsNoLock(a)
    BY <1>1 DEF IInv, SafeIInv, NoLocks, Plain, HoldsNoLock, LocksOf
  <2> QED
    BY <2>1, <2>2 DEF NoRaceYet, RacesFound
<1>2. IInv => (LockFree /\ MutexTasks = {} => RacesFound)
  BY <1>1
<1> QED
  BY SpecPrunes, <1>2, PTL

\* An access without locks is remembered, by its record or by one that took its place,
\* until its races are found; whatever locks are taken, and whatever the values left
\* by an early return do to the records of accesses with locks.
THEOREM UnlockedNeverForgottenHolds ==
  ASSUME MutexTasks = {}, \A e \in Executions : TRUE \notin e.hwLock
  PROVE  Spec => UnlockedNeverForgotten
<1>1. ASSUME IInv, [Next]_vars, NEW a \in performed, NEW c \in performed' \ performed,
             ~a.reduction, ~c.reduction, HoldsNoLock(a), Race(a, c)
      PROVE  raceFlag'
  <2>1. LocksOnly /\ PruneInv /\ SafeIInv
    BY <1>1 DEF IInv, SafeIInv, Typed, TypeOK, LocksOnly, NoPrefixes
  <2>2. CASE ReportRace
    BY <2>2 DEF ReportRace
  <2>3. CASE EndLoop
    <3>1. c = CurAccess /\ step # "free"
      BY <1>1, <2>3, LoopEndsIs DEF LoopEnds, Perform
    <3>2. Checked /\ c.at = cur.at /\ c.write = cur.write
      BY <1>1, <2>1, <3>1, CurIsKnown DEF Checked, LocksOnly
    <3> QED
      BY <1>1, <2>1, <2>3, <3>2, NothingForgotten DEF Race, NotAfter
  <2>4. ASSUME NEW p \in execution.runs, NEW write \in BOOLEAN, NEW hw \in execution.hwLock,
               CheckBegins(p, write, hw)
        PROVE  raceFlag'
    <3>1. step = "free"
      BY <2>4 DEF CheckBegins
    <3>2. CASE CheckFlagged(p, write, hw)
      BY <3>2 DEF CheckFlagged
    <3>3. CASE CheckDup(p, write, hw)
      BY <1>1, <2>1, <3>1, <3>3, DupIsPerformed
    <3>4. CASE CheckFirst(p, write, hw)
      BY <1>1, <2>1, <3>1, <3>4, FirstIsFirst DEF CheckFirst
    <3>5. CASE CheckLoop(p, write, hw)
      BY <1>1, <3>5 DEF CheckLoop
    <3> QED
      BY <2>4, <3>2, <3>3, <3>4, <3>5 DEF CheckBegins
  <2> QED
    BY <1>1, <2>2, <2>3, <2>4, PerformedFrom
<1>2. IInv /\ [Next]_vars =>
        [\A a \in performed, c \in performed' \ performed :
           ~a.reduction /\ ~c.reduction /\ HoldsNoLock(a) /\ Race(a, c) => raceFlag']_vars
  BY <1>1
<1> QED
  BY SpecPrunes, <1>2, PTL DEF Spec, UnlockedNeverForgotten

-----------------------------------------------------------------------------
(* The history as one that forgets nothing *)

\* Where only the order excludes races, all accesses are plain.
NoReductions == OrderOnly => /\ \A p \in Stretches : inReduction[p] = FALSE
                             /\ performed \subseteq PlainAccess

LEMMA NoReductionsStep ==
  ASSUME SafeIInv, NoReductions, [Next]_vars
  PROVE  NoReductions'
<1> SUFFICES ASSUME OrderOnly PROVE NoReductions'
  BY StartedStays DEF NoReductions, OrderOnly, LockFree, SafeIInv
<1>1. /\ execution' = execution /\ execution.reducers = {} /\ execution.locks = {} /\ execution.hwLock = {FALSE}
      /\ execution.runs \subseteq Stretches
      /\ \A p \in Stretches : inReduction[p] = FALSE /\ lockSet[p] = NullLockSet
      /\ performed \subseteq PlainAccess
  BY StartedStays, RunsAreStretches DEF OrderOnly, LockFree, NoReductions, NoLocks, SafeIInv, Typed
<1>2. inReduction' = inReduction
  BY <1>1, TasksFrom DEF ProgramStep, Start, Finish, Reduction, MutexAcquired, MutexReleased
<1>3. LoopEnds => CurAccess \in PlainAccess
  <2> SUFFICES ASSUME LoopEnds PROVE CurAccess \in PlainAccess
    OBVIOUS
  <2>1. step # "free" /\ cur \in Record /\ Plain(cur)
    BY <1>1 DEF LoopEnds, SafeIInv, Typed, TypeOK, NoLocks, LockFree
  <2> QED
    BY <1>1, <2>1 DEF CurAccess, PlainAccess, Plain, Record
<1>4. ASSUME NEW p \in execution.runs, NEW write \in BOOLEAN, NEW hw \in execution.hwLock
      PROVE  AccessOf(p, write, hw) \in PlainAccess
  BY <1>1 DEF AccessOf, PlainAccess
<1>5. performed' = performed \/ \E a \in PlainAccess : Perform(a)
  BY <1>3, <1>4, PerformedFrom
<1>6. performed' \subseteq PlainAccess
  BY <1>1, <1>5 DEF Perform
<1> QED
  BY <1>1, <1>2, <1>6 DEF NoReductions

\* The location is marked by nothing but a report.
LEMMA FlagFrom ==
  ASSUME [Next]_vars
  PROVE  ReportRace \/ raceFlag' = raceFlag
<1>1. ASSUME NEW p \in execution.runs, NEW write \in BOOLEAN, NEW hw \in execution.hwLock,
             CheckBegins(p, write, hw)
      PROVE  raceFlag' = raceFlag
  BY <1>1 DEF CheckBegins, CheckFlagged, CheckDup, CheckFirst, CheckLoop, history
<1>2. CASE AnalyzeExcluded \/ AnalyzeOrdered \/ ManageRecord \/ EndLoop \/ UNCHANGED vars
  BY <1>2 DEF AnalyzeExcluded, AnalyzeOrdered, ManageRecord, EndLoop, vars, history
<1>3. ASSUME NEW p \in execution.runs, ProgramStep(p) PROVE raceFlag' = raceFlag
  BY <1>3, ProgramStepFrame DEF history
<1> QED
  BY <1>1, <1>2, <1>3, StepCases

\* A report is the access that completes a race with one made before.
LEMMA ReportPerforms ==
  ASSUME IInv, NoReductions, NoReductions', OrderOnly, ReportRace
  PROVE  /\ CurAccess \in PlainAccess /\ performed' = performed \cup {CurAccess}
         /\ raceFlag' = TRUE
         /\ \E b \in performed : Race(CurAccess, b)
<1>1. /\ raceFlag' = TRUE /\ AtRecord("analyze") /\ LoopEnds
  BY LoopEndsIs DEF ReportRace
<1>2. performed' = performed \cup {CurAccess} /\ UNCHANGED execution
  BY <1>1 DEF LoopEnds, Perform, tasks
<1>3. CurAccess \in PlainAccess
  BY <1>2 DEF NoReductions, OrderOnly, LockFree
<1>4. it \in DOMAIN records /\ step # "free"
  BY <1>1, RecordType DEF AtRecord, IInv, SafeIInv, Typed, TypeOK
<1>5. Race(records[it], cur)
  BY ReportRaces DEF IInv, OrderOnly, LockFree
<1>6. PICK b \in performed : Same(b, records[it])
  BY <1>4 DEF IInv, SafeIInv, RecordsMade
<1>7. Race(CurAccess, b)
  BY <1>5, <1>6 DEF Race, Same, CurAccess, MutexPair, BothExplicit, OrderOnly
<1> QED
  BY <1>1, <1>2, <1>3, <1>6, <1>7

\* Every step is an access on the location that forgets nothing, or none.
LEMMA StepImplements ==
  ASSUME IInv, IInv', NoReductions, NoReductions', [Next]_vars
  PROVE  [Ideal!Next]_<<IF OrderOnly THEN performed ELSE {}, OrderOnly /\ raceFlag>>
<1>1. execution' = execution
  BY StartedStays DEF IInv, SafeIInv
<1>2. OrderOnly' <=> OrderOnly
  BY <1>1 DEF OrderOnly, LockFree
<1>3. CASE ~OrderOnly
  BY <1>2, <1>3
<1>4. CASE OrderOnly
  <2> SUFFICES ASSUME performed' # performed \/ raceFlag' # raceFlag
               PROVE  \E a \in PlainAccess :
                        /\ performed' = performed \cup {a}
                        /\ raceFlag' = (raceFlag \/ \E b \in performed : Race(a, b))
    <3>1. raceFlag \in BOOLEAN /\ raceFlag' \in BOOLEAN
      BY DEF IInv, SafeIInv, Typed, TypeOK
    <3> QED
      BY <1>2, <1>4, <3>1 DEF Ideal!Next, Ideal!Perform
  <2>1. CASE ReportRace
    BY <1>4, <2>1, ReportPerforms
  <2>2. CASE ~ReportRace
    <3>1. raceFlag' = raceFlag /\ raceFlag \in BOOLEAN
      BY <2>2, FlagFrom DEF IInv, SafeIInv, Typed, TypeOK
    <3>2. PICK a : performed' = performed \cup {a}
      BY <3>1, PerformedFrom DEF Perform
    <3>3. a \in PlainAccess /\ performed \subseteq PlainAccess
      BY <1>2, <1>4, <3>2 DEF NoReductions
    <3>4. ASSUME ~raceFlag, NEW b \in performed PROVE ~Race(a, b)
      <4>1. ~a.reduction /\ ~b.reduction /\ a \in performed' /\ b \in performed'
        BY <3>2, <3>3 DEF PlainAccess
      <4>2. NoRaceYet' /\ ~raceFlag'
        BY <1>1, <1>2, <1>4, <3>1, <3>4 DEF IInv, PruneInv, LocksOnly, NoPrefixes, OrderOnly, LockFree
      <4>3. HoldsNoLock(a) /\ HoldsNoLock(b)
        BY <3>3 DEF PlainAccess, HoldsNoLock, LocksOf
      <4> QED
        BY <4>1, <4>2, <4>3 DEF NoRaceYet, Race, MutexPair, BothExplicit, HoldsNoLock
    <3> QED
      BY <3>1, <3>2, <3>3, <3>4
  <2> QED
    BY <2>1, <2>2
<1> QED
  BY <1>3, <1>4

\* The detector marks the location exactly when a detector that kept every access
\* would: pruning, skipping and the duplicate tables lose no race and make none.
THEOREM ImplementsAllAccessesHolds == Spec => ImplementsAllAccesses
<1>1. Init => Ideal!Init
  BY DEF Init, Ideal!Init
<1>2. Init => NoReductions
  BY DEF Init, NoReductions
<1>3. IInv /\ NoReductions /\ [Next]_vars => NoReductions'
  BY NoReductionsStep DEF IInv
<1>4. IInv /\ IInv' /\ NoReductions /\ NoReductions' /\ [Next]_vars =>
        [Ideal!Next]_<<IF OrderOnly THEN performed ELSE {}, OrderOnly /\ raceFlag>>
  BY StepImplements
<1> QED
  BY SpecPrunes, <1>1, <1>2, <1>3, <1>4, PTL DEF Spec, ImplementsAllAccesses, Ideal!Spec
=============================================================================
