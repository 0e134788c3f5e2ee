------------------------------- MODULE LockSet -------------------------------
(***************************************************************************)
(* The lock sets of RompLib/src/LockSet.cpp.  A SmallLockSet keeps at most *)
(* four locks in the order of their acquisition; a task that has not       *)
(* acquired any lock yet has the null pointer in place of a lock set.      *)
(***************************************************************************)
EXTENDS Naturals, SequencesExt

CONSTANTS Locks,      \* wait ids of the program's locks
          NullLockSet \* the null LockSet pointer

ASSUME NullLockSetAssumption == NullLockSet \notin Seq(Locks)

\* SmallLockSet::_locks has room for four.
LockLimit == 4

LockSets == {NullLockSet} \cup UNION {[1..n -> Locks] : n \in 0..LockLimit}

\* What a lock set stands for.
LocksOf(ls) == IF ls = NullLockSet THEN {} ELSE Range(ls)

\* A lock is added to a copy: records keep the lock set of their own time.
addLock(ls, lock) == IF ls = NullLockSet THEN <<lock>> ELSE Append(ls, lock)

removeLock(ls, lock) == RemoveFirst(ls, lock)

hasCommonLock(me, other) == \E i \in DOMAIN me, j \in DOMAIN other : me[i] = other[j]

\* Mutated form of isSubset: the numbers of locks are not compared.
isSubsetOfAny(me, other) ==
  \/ me = NullLockSet
  \/ /\ other # NullLockSet
     /\ \A i \in DOMAIN me, j \in DOMAIN other : me[i] = other[j]

\* Every lock of the one is compared with every lock of the other, and the
\* first pair that differs decides.
isSubset(me, other) ==
  \/ me = NullLockSet
  \/ /\ other # NullLockSet
     /\ Len(me) <= Len(other)
     /\ \A i \in DOMAIN me, j \in DOMAIN other : me[i] = other[j]
=============================================================================
