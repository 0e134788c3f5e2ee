--------------------------- MODULE McsLockProofs ---------------------------
(***************************************************************************)
(* The safety of the MCS lock for any set of threads.  The invariant that  *)
(* makes it inductive is that the linked nodes form a queue (IsQueue): with *)
(* the queue at hand, the arguments about an arbitrary chain of            *)
(* predecessors become arguments about neighbouring positions.             *)
(***************************************************************************)
EXTENDS McsLock, SequenceTheorems, FiniteSetTheorems, WellFoundedInduction, TLAPS

\* What the local variables say between two steps of one thread.
Locals == \A t \in Threads : /\ pc[t] \in {"exchange", "try"} => next[t] = Nil
                             /\ pc[t] = "link" => blocked[t]
                             /\ pc[t] = "handoff" => succ[t] = next[t]
                             /\ pc[t] = "await" => tail # t

HasQueue == \E n \in Nat : \E q \in [1..n -> Threads] : IsQueue(n, q)

IInv == TypeOK /\ Locals /\ HasQueue

-----------------------------------------------------------------------------

\* A lock nobody has used yet has an empty queue.
LEMMA InitIInv == Init => IInv
<1> SUFFICES ASSUME Init PROVE IInv
  OBVIOUS
<1>1. TypeOK
  BY DEF Init, TypeOK, Pointer, PCs
<1>2. Locals
  BY DEF Init, Locals
<1>3. HasQueue
  <2>1. \A t \in Threads : ~Member(t)
    BY DEF Init, Member, Waiting, Owner
  <2>2. [i \in 1..0 |-> Nil] \in [1..0 -> Threads]
    OBVIOUS
  <2>3. IsQueue(0, [i \in 1..0 |-> Nil])
    BY <2>1 DEF IsQueue, Init
  <2> QED
    BY <2>2, <2>3 DEF HasQueue
<1> QED
  BY <1>1, <1>2, <1>3 DEF IInv

\* A step that concerns only a thread outside the queue, or a program counter
\* of a member that stays what it was to the others, keeps the queue.
LEMMA SameQueue ==
  ASSUME TypeOK, NEW n \in Nat, NEW q \in [1..n -> Threads], IsQueue(n, q),
         tail' = tail,
         \A t \in Threads : Member(t)' <=> Member(t),
         \A t \in Threads : Owner(t)' <=> Owner(t),
         \A t \in Threads : Member(t) => /\ next'[t] = next[t]
                                         /\ pred'[t] = pred[t]
                                         /\ (pc'[t] = "spin" /\ Waiting(t)) <=> (pc[t] = "spin" /\ Waiting(t))
  PROVE  IsQueue(n, q)'
<1>1. \A i \in 1..n : q[i] \in Threads /\ Member(q[i])
  BY DEF IsQueue
<1>2. \A i \in 2..n : Waiting(q[i])
  BY <1>1 DEF IsQueue, Member
<1>3. \A i \in 2..n : pc'[q[i]] = "spin" <=> pc[q[i]] = "spin"
  BY <1>1, <1>2
<1>4. ASSUME NEW i \in 1..n PROVE
        next'[q[i]] = IF i < n /\ pc'[q[i+1]] = "spin" THEN q[i+1] ELSE Nil
  <2>1. i < n => i + 1 \in 2..n
    OBVIOUS
  <2>2. next[q[i]] = IF i < n /\ pc[q[i+1]] = "spin" THEN q[i+1] ELSE Nil
    BY DEF IsQueue
  <2> QED
    BY <1>1, <1>3, <2>1, <2>2
<1>5. \A i \in 2..n : pred'[q[i]] = q[i-1]
  BY <1>1 DEF IsQueue
<1> QED
  BY <1>1, <1>4, <1>5 DEF IsQueue

-----------------------------------------------------------------------------

\* The steps that leave the queue as it is: a thread takes a fresh node,
\* prepares to block, notices the hand-over, or looks at its next.
LEMMA QuietSteps ==
  ASSUME IInv, NEW n \in Nat, NEW q \in [1..n -> Threads], IsQueue(n, q),
         NEW t \in Threads,
         Lock(t) \/ TryLock(t) \/ Block(t) \/ Spin(t) \/ Unlock(t) \/ AwaitSuccessor(t)
  PROVE  IsQueue(n, q)'
<1> USE DEF IInv
<1>1. \A u \in Threads : u # t => /\ pc'[u] = pc[u]
                                  /\ pred'[u] = pred[u]
                                  /\ next'[u] = next[u]
                                  /\ blocked'[u] = blocked[u]
  BY DEF TypeOK, Lock, TryLock, Block, Spin, Unlock, AwaitSuccessor, Goto, FreshNode
<1>2. tail' = tail
  BY DEF Lock, TryLock, Block, Spin, Unlock, AwaitSuccessor
<1>3. \A u \in Threads : u # t => /\ Member(u)' <=> Member(u)
                                  /\ Owner(u)' <=> Owner(u)
                                  /\ Waiting(u)' <=> Waiting(u)
  BY <1>1 DEF Member, Waiting, Owner
<1>4. /\ Member(t)' <=> Member(t)
      /\ Owner(t)' <=> Owner(t)
      /\ Member(t) => /\ next'[t] = next[t]
                      /\ pred'[t] = pred[t]
                      /\ (pc'[t] = "spin" /\ Waiting(t)) <=> (pc[t] = "spin" /\ Waiting(t))
  BY DEF TypeOK, Member, Waiting, Owner, PCs,
         Lock, TryLock, Block, Spin, Unlock, AwaitSuccessor, Goto, FreshNode
<1> QED
  BY <1>1, <1>2, <1>3, <1>4, SameQueue

\* A thread joins the queue.
Arrives(t) == /\ pc[t] \in {"exchange", "try"}
              /\ tail' = t
              /\ pred' = [pred EXCEPT ![t] = tail]
              /\ Goto(t, IF tail = Nil THEN "critical" ELSE "block")
              /\ UNCHANGED <<next, blocked, succ>>

\* Exchange of the tail, by mcsLock or by a successful mcsTryLock, adds the
\* thread at the end.
LEMMA AppendStep ==
  ASSUME IInv, NEW n \in Nat, NEW q \in [1..n -> Threads], IsQueue(n, q),
         NEW r \in [1..n+1 -> Threads], NEW t \in Threads,
         r[n+1] = t, \A i \in 1..n : r[i] = q[i],
         Arrives(t)
  PROVE  IsQueue(n+1, r)'
<1> USE DEF IInv, Arrives
<1>1. n + 1 \in Nat /\ r[n+1] = t /\ \A i \in 1..n : r[i] = q[i]
  OBVIOUS
<1>2. \A u \in Threads : u # t => /\ pc'[u] = pc[u]
                                  /\ pred'[u] = pred[u]
                                  /\ Member(u)' <=> Member(u)
                                  /\ Owner(u)' <=> Owner(u)
  BY DEF TypeOK, Goto, Member, Waiting, Owner
<1>3. ~Member(t) /\ Member(t)' /\ next[t] = Nil /\ pc'[t] # "spin"
  BY DEF TypeOK, Goto, Member, Waiting, Owner, Locals
<1>4. Owner(t)' <=> n = 0
  BY NilAssumption DEF TypeOK, Goto, Owner, IsQueue
<1>5. n > 0 => pred'[t] = q[n]
  BY DEF TypeOK, IsQueue
<1>6. \A i \in 1..n : q[i] \in Threads /\ Member(q[i]) /\ q[i] # t
  BY <1>3 DEF IsQueue
<1>7. \A u \in Threads : Member(u)' <=> \E i \in 1..n+1 : r[i] = u
  <2> SUFFICES ASSUME NEW u \in Threads PROVE Member(u)' <=> \E i \in 1..n+1 : r[i] = u
    OBVIOUS
  <2>1. CASE u = t
    BY <2>1, <1>1, <1>3
  <2>2. CASE u # t
    <3>1. Member(u)' <=> \E i \in 1..n : q[i] = u
      BY <2>2, <1>2 DEF IsQueue
    <3> QED
      BY <3>1, <2>2, <1>1
  <2> QED
    BY <2>1, <2>2
<1>8. \A i, j \in 1..n+1 : r[i] = r[j] => i = j
  <2>1. \A i, j \in 1..n : r[i] = r[j] => i = j
    BY <1>1 DEF IsQueue
  <2>2. \A i \in 1..n : r[i] # r[n+1]
    BY <1>1, <1>6
  <2>3. \A i \in 1..n+1 : i # n + 1 => i \in 1..n
    OBVIOUS
  <2> QED
    BY <2>1, <2>2, <2>3
<1>9. \A i \in 1..n+1 : Owner(r[i])' <=> i = 1
  BY <1>1, <1>2, <1>4, <1>6 DEF IsQueue
<1>10. \A i \in 2..n+1 : pred'[r[i]] = r[i-1]
  <2> SUFFICES ASSUME NEW i \in 2..n+1 PROVE pred'[r[i]] = r[i-1]
    OBVIOUS
  <2>1. CASE i = n + 1
    BY <2>1, <1>1, <1>5
  <2>2. CASE i # n + 1
    <3>1. i \in 2..n /\ i \in 1..n /\ i - 1 \in 1..n
      BY <2>2
    <3>2. r[i] = q[i] /\ r[i-1] = q[i-1] /\ pred'[q[i]] = pred[q[i]]
      BY <3>1, <1>1, <1>2, <1>6
    <3> QED
      BY <3>1, <3>2 DEF IsQueue
  <2> QED
    BY <2>1, <2>2
<1>11. \A i \in 1..n+1 : next'[r[i]] = IF i < n+1 /\ pc'[r[i+1]] = "spin" THEN r[i+1] ELSE Nil
  <2> SUFFICES ASSUME NEW i \in 1..n+1
               PROVE  next'[r[i]] = IF i < n+1 /\ pc'[r[i+1]] = "spin" THEN r[i+1] ELSE Nil
    OBVIOUS
  <2>1. CASE i = n + 1
    BY <2>1, <1>1, <1>3
  <2>2. CASE i = n
    BY <2>2, <1>1, <1>3 DEF IsQueue
  <2>3. CASE i < n
    <3>1. i \in 1..n /\ i + 1 \in 1..n
      BY <2>3
    <3>2. r[i] = q[i] /\ r[i+1] = q[i+1] /\ pc'[q[i+1]] = pc[q[i+1]] /\ next' = next
      BY <3>1, <1>1, <1>2, <1>6
    <3> QED
      BY <3>1, <3>2, <2>3 DEF IsQueue
  <2> QED
    BY <2>1, <2>2, <2>3
<1> QED
  BY <1>1, <1>7, <1>8, <1>9, <1>10, <1>11 DEF IsQueue

\* A waiting thread makes itself known to the one before it.
LEMMA LinkStep ==
  ASSUME IInv, NEW n \in Nat, NEW q \in [1..n -> Threads], IsQueue(n, q),
         NEW t \in Threads, Link(t)
  PROVE  IsQueue(n, q)'
<1> USE DEF IInv
<1>1. pc[t] = "link" /\ blocked[t] /\ Waiting(t) /\ Waiting(t)'
  BY DEF Link, Locals, Goto, TypeOK, Waiting
<1>2. \A u \in Threads : /\ Member(u)' <=> Member(u)
                         /\ Owner(u)' <=> Owner(u)
                         /\ u # t => pc'[u] = pc[u]
  BY <1>1 DEF Link, Goto, TypeOK, Member, Waiting, Owner
<1>3. PICK k \in 1..n : q[k] = t
  BY <1>1 DEF IsQueue, Member
<1>4. k \in 2..n /\ pred[t] = q[k-1] /\ pc'[q[k]] = "spin"
  BY <1>1, <1>3 DEF IsQueue, Waiting, Owner, Link, Goto, TypeOK
<1>5. next' = [next EXCEPT ![q[k-1]] = t] /\ tail' = tail /\ pred' = pred
  BY <1>4 DEF Link
<1>6. ASSUME NEW i \in 1..n
      PROVE  next'[q[i]] = IF i < n /\ pc'[q[i+1]] = "spin" THEN q[i+1] ELSE Nil
  <2>1. CASE i = k - 1
    BY <2>1, <1>3, <1>4, <1>5 DEF TypeOK
  <2>2. CASE i # k - 1
    <3>1. i \in 1..n /\ k - 1 \in 1..n /\ q[i] # q[k-1]
      BY <2>2, <1>4 DEF IsQueue
    <3>2. next'[q[i]] = next[q[i]]
      BY <3>1, <1>5 DEF TypeOK
    <3>3. i < n => i + 1 \in 1..n /\ q[i+1] # t
      BY <2>2, <1>3 DEF IsQueue
    <3>4. i < n => pc'[q[i+1]] = pc[q[i+1]]
      BY <3>3, <1>2
    <3> QED
      BY <3>2, <3>4 DEF IsQueue
  <2> QED
    BY <2>1, <2>2
<1> QED
  BY <1>2, <1>5, <1>6 DEF IsQueue

\* compare_exchange of the tail: the queue becomes empty, or it stays.
LEMMA RemoveStep ==
  ASSUME IInv, NEW n \in Nat, NEW q \in [1..n -> Threads], IsQueue(n, q),
         NEW t \in Threads, Remove(t)
  PROVE  /\ tail = t => n = 1 /\ q[1] = t /\ \A r : IsQueue(0, r)'
         /\ tail # t => IsQueue(n, q)'
<1> USE DEF IInv
<1>1. Owner(t) /\ Member(t) /\ pc[t] = "cas"
  BY DEF Remove, Owner, Member
<1>2. n >= 1 /\ q[1] = t
  BY <1>1 DEF IsQueue
<1>3. CASE tail = t
  <2>1. n = 1
    BY <1>2, <1>3 DEF IsQueue
  <2>2. tail' = Nil /\ pc'[t] = "idle" /\ \A u \in Threads : u # t => pc'[u] = pc[u]
    BY <1>3 DEF Remove, Goto, TypeOK
  <2>3. \A u \in Threads : Member(u) => u = t
    BY <2>1, <1>2 DEF IsQueue
  <2>4. \A u \in Threads : ~Member(u)'
    BY <2>2, <2>3 DEF Remove, Member, Waiting, Owner
  <2>5. \A r : IsQueue(0, r)'
    BY <2>2, <2>4 DEF IsQueue
  <2> QED
    BY <1>2, <1>3, <2>1, <2>5
<1>4. CASE tail # t
  <2>1. pc'[t] = "await" /\ \A u \in Threads : u # t => pc'[u] = pc[u]
    BY <1>4 DEF Remove, Goto, TypeOK
  <2>2. UNCHANGED <<tail, next, blocked, pred, succ>>
    BY <1>4 DEF Remove
  <2>3. \A u \in Threads : /\ Member(u)' <=> Member(u)
                           /\ Owner(u)' <=> Owner(u)
                           /\ (pc'[u] = "spin" /\ Waiting(u)) <=> (pc[u] = "spin" /\ Waiting(u))
    BY <2>1, <2>2, <1>1 DEF Member, Waiting, Owner
  <2>4. IsQueue(n, q)'
    BY <2>2, <2>3, SameQueue
  <2> QED
    BY <1>4, <2>4
<1> QED
  BY <1>3, <1>4

\* The owner leaves and its successor, the second of the queue, is the owner.
LEMMA HandoffStep ==
  ASSUME IInv, NEW n \in Nat, NEW q \in [1..n -> Threads], IsQueue(n, q),
         NEW r \in [1..n-1 -> Threads], \A i \in 1..n-1 : r[i] = q[i+1],
         NEW t \in Threads, Handoff(t)
  PROVE  n - 1 \in Nat /\ q[1] = t /\ IsQueue(n-1, r)'
<1> USE DEF IInv
<1>1. Owner(t) /\ Member(t) /\ pc[t] = "handoff" /\ succ[t] = next[t] /\ next[t] # Nil
  BY DEF Handoff, Owner, Member, Locals, TypeOK
<1>2. n >= 1 /\ q[1] = t
  BY <1>1 DEF IsQueue
<1>3. 2 \in 1..n /\ next[t] = q[2] /\ pc[q[2]] = "spin" /\ q[2] # t
  BY <1>1, <1>2 DEF IsQueue
<1>4. n - 1 \in Nat /\ \A i \in 1..n-1 : r[i] = q[i+1] /\ i + 1 \in 2..n
  BY <1>2
<1>6. /\ pc'[t] = "idle"
      /\ \A u \in Threads : u # t => pc'[u] = pc[u]
      /\ blocked' = [blocked EXCEPT ![q[2]] = FALSE]
      /\ UNCHANGED <<tail, next, pred, succ>>
  BY <1>1, <1>3 DEF Handoff, Goto, TypeOK
<1>7. \A u \in Threads : u # t /\ u # q[2] => /\ Member(u)' <=> Member(u)
                                              /\ Owner(u)' <=> Owner(u)
  BY <1>6 DEF Member, Waiting, Owner, TypeOK
<1>8. ~Member(t)' /\ Owner(q[2])' /\ Member(q[2])' /\ Member(q[2])
  BY <1>3, <1>6 DEF Member, Waiting, Owner, TypeOK, IsQueue
<1>9. \A u \in Threads : Member(u)' <=> \E i \in 1..n-1 : r[i] = u
  <2> SUFFICES ASSUME NEW u \in Threads PROVE Member(u)' <=> \E i \in 1..n-1 : r[i] = u
    OBVIOUS
  <2>1. \A i \in 2..n : i - 1 \in 1..n-1 /\ r[i-1] = q[i]
    BY <1>4
  <2>2. CASE u = t
    BY <2>2, <1>2, <1>4, <1>8 DEF IsQueue
  <2>3. CASE u # t
    <3>1. Member(u)' <=> Member(u)
      BY <2>3, <1>7, <1>8
    <3>2. Member(u) <=> \E i \in 2..n : q[i] = u
      BY <2>3, <1>2 DEF IsQueue
    <3> QED
      BY <3>1, <3>2, <2>1, <1>4
  <2> QED
    BY <2>2, <2>3
<1>10. \A i, j \in 1..n-1 : r[i] = r[j] => i = j
  BY <1>4 DEF IsQueue
<1>11. \A i \in 1..n-1 : Owner(r[i])' <=> i = 1
  <2> SUFFICES ASSUME NEW i \in 1..n-1 PROVE Owner(r[i])' <=> i = 1
    OBVIOUS
  <2>1. r[i] = q[i+1] /\ i + 1 \in 2..n /\ q[i+1] \in Threads
    BY <1>4
  <2>2. CASE i = 1
    BY <2>1, <2>2, <1>8
  <2>3. CASE i # 1
    <3>1. q[i+1] # q[2] /\ q[i+1] # t /\ ~Owner(q[i+1])
      BY <2>1, <2>3, <1>2 DEF IsQueue
    <3> QED
      BY <3>1, <2>1, <2>3, <1>7
  <2> QED
    BY <2>2, <2>3
<1>12. \A i \in 2..n-1 : pred'[r[i]] = r[i-1]
  <2> SUFFICES ASSUME NEW i \in 2..n-1 PROVE pred'[r[i]] = r[i-1]
    OBVIOUS
  <2>1. r[i] = q[i+1] /\ r[i-1] = q[i] /\ i + 1 \in 2..n
    BY <1>4
  <2> QED
    BY <2>1, <1>6 DEF IsQueue
<1>13. \A i \in 1..n-1 : next'[r[i]] = IF i < n-1 /\ pc'[r[i+1]] = "spin" THEN r[i+1] ELSE Nil
  <2> SUFFICES ASSUME NEW i \in 1..n-1
               PROVE  next'[r[i]] = IF i < n-1 /\ pc'[r[i+1]] = "spin" THEN r[i+1] ELSE Nil
    OBVIOUS
  <2>1. r[i] = q[i+1] /\ i + 1 \in 1..n /\ next'[r[i]] = next[q[i+1]]
    BY <1>4, <1>6
  <2>2. CASE i < n - 1
    <3>1. i + 1 \in 1..n-1 /\ r[i+1] = q[i+2] /\ i + 2 \in 2..n
      BY <2>2, <1>4
    <3>2. q[i+2] # t /\ q[i+2] \in Threads
      BY <3>1, <1>2 DEF IsQueue
    <3>3. pc'[r[i+1]] = pc[q[i+2]]
      BY <3>1, <3>2, <1>6
    <3>4. next[q[i+1]] = IF pc[q[i+2]] = "spin" THEN q[i+2] ELSE Nil
      <4>1. i + 1 < n /\ (i + 1) + 1 = i + 2
        BY <2>2
      <4>2. next[q[i+1]] = IF i + 1 < n /\ pc[q[(i+1)+1]] = "spin" THEN q[(i+1)+1] ELSE Nil
        BY <2>1 DEF IsQueue
      <4> QED
        BY <4>1, <4>2
    <3> QED
      BY <3>1, <3>3, <3>4, <2>1, <2>2
  <2>3. CASE i = n - 1
    BY <2>1, <2>3 DEF IsQueue
  <2> QED
    BY <2>2, <2>3
<1>14. tail' = IF n - 1 = 0 THEN Nil ELSE r[n-1]
  <2>1. n - 1 \in 1..n-1 /\ r[n-1] = q[n]
    BY <1>3, <1>4
  <2> QED
    BY <2>1, <1>3, <1>6 DEF IsQueue
<1>15. IsQueue(n-1, r)'
  BY <1>9, <1>10, <1>11, <1>12, <1>13, <1>14 DEF IsQueue
<1> QED
  BY <1>2, <1>4, <1>15

-----------------------------------------------------------------------------

\* The part of the invariant about single threads: a step disturbs it only
\* for the thread that takes it and, in Link and Handoff, for its neighbour.
LEMMA TypeStep ==
  ASSUME IInv, [Next]_vars
  PROVE  TypeOK'
<1> USE DEF IInv, TypeOK, Pointer, PCs
<1>1. CASE UNCHANGED vars
  BY <1>1 DEF vars
<1>2. ASSUME NEW t \in Threads, Lock(t) \/ TryLock(t) PROVE TypeOK'
  BY <1>2 DEF Lock, TryLock, FreshNode, Goto
<1>3. ASSUME NEW t \in Threads, Exchange(t) \/ TryExchange(t) PROVE TypeOK'
  BY <1>3 DEF Exchange, TryExchange, Goto
<1>4. ASSUME NEW t \in Threads, Block(t) PROVE TypeOK'
  BY <1>4 DEF Block, Goto
<1>5. ASSUME NEW t \in Threads, Link(t) \/ Spin(t) PROVE TypeOK'
  BY <1>5 DEF Link, Spin, Goto
<1>6. ASSUME NEW t \in Threads, Unlock(t) \/ AwaitSuccessor(t) PROVE TypeOK'
  BY <1>6 DEF Unlock, AwaitSuccessor, Goto
<1>7. ASSUME NEW t \in Threads, Remove(t) PROVE TypeOK'
  BY <1>7 DEF Remove, Goto
<1>8. ASSUME NEW t \in Threads, Handoff(t) PROVE TypeOK'
  BY <1>8 DEF Handoff, Goto
<1> QED
  BY <1>1, <1>2, <1>3, <1>4, <1>5, <1>6, <1>7, <1>8 DEF Next, Proceed

\* What a step can do to the queue: nothing, or one thread joins or leaves.
LEMMA StepKinds ==
  ASSUME IInv, NEW n \in Nat, NEW q \in [1..n -> Threads], IsQueue(n, q), [Next]_vars
  PROVE  \/ IsQueue(n, q)'
         \/ \E t \in Threads : Arrives(t) \/ (Remove(t) /\ tail = t) \/ Handoff(t)
<1>1. CASE UNCHANGED vars
  BY <1>1 DEF vars, IsQueue, Member, Waiting, Owner
<1>2. ASSUME NEW t \in Threads,
             Lock(t) \/ TryLock(t) \/ Block(t) \/ Spin(t) \/ Unlock(t) \/ AwaitSuccessor(t)
      PROVE  IsQueue(n, q)'
  BY <1>2, QuietSteps
<1>3. ASSUME NEW t \in Threads, Exchange(t) PROVE Arrives(t)
  BY <1>3 DEF Exchange, Arrives
<1>4. ASSUME NEW t \in Threads, TryExchange(t), tail = Nil PROVE Arrives(t)
  BY <1>4 DEF TryExchange, Arrives
<1>5. ASSUME NEW t \in Threads, TryExchange(t), tail # Nil PROVE IsQueue(n, q)'
  <2>1. /\ UNCHANGED <<tail, next, blocked, pred, succ>>
        /\ pc[t] = "try" /\ pc'[t] = "idle"
        /\ \A u \in Threads : u # t => pc'[u] = pc[u]
    BY <1>5 DEF TryExchange, Goto, IInv, TypeOK
  <2>2. \A u \in Threads : /\ Member(u)' <=> Member(u)
                           /\ Owner(u)' <=> Owner(u)
                           /\ (pc'[u] = "spin" /\ Waiting(u)) <=> (pc[u] = "spin" /\ Waiting(u))
    BY <2>1 DEF Member, Waiting, Owner
  <2> QED
    BY <2>1, <2>2, SameQueue DEF IInv
<1>6. ASSUME NEW t \in Threads, Link(t) PROVE IsQueue(n, q)'
  BY <1>6, LinkStep
<1>7. ASSUME NEW t \in Threads, Remove(t), tail # t PROVE IsQueue(n, q)'
  BY <1>7, RemoveStep
<1> QED
  BY <1>1, <1>2, <1>3, <1>4, <1>5, <1>6, <1>7 DEF Next, Proceed

LEMMA QueueStep ==
  ASSUME IInv, [Next]_vars
  PROVE  HasQueue'
<1> PICK n \in Nat : \E q \in [1..n -> Threads] : IsQueue(n, q)
  BY DEF IInv, HasQueue
<1> PICK q \in [1..n -> Threads] : IsQueue(n, q)
  OBVIOUS
<1>1. CASE IsQueue(n, q)'
  BY <1>1 DEF HasQueue
<1>2. ASSUME NEW t \in Threads, Arrives(t) PROVE HasQueue'
  <2> DEFINE r == [i \in 1..n+1 |-> IF i <= n THEN q[i] ELSE t]
  <2>1. n + 1 \in Nat /\ r \in [1..n+1 -> Threads] /\ r[n+1] = t /\ \A i \in 1..n : r[i] = q[i]
    OBVIOUS
  <2> HIDE DEF r
  <2>2. IsQueue(n+1, r)'
    BY <1>2, <2>1, AppendStep
  <2> QED
    BY <2>1, <2>2 DEF HasQueue
<1>3. ASSUME NEW t \in Threads, Remove(t), tail = t PROVE HasQueue'
  <2>1. [i \in 1..0 |-> Nil] \in [1..0 -> Threads]
    OBVIOUS
  <2>2. \A r : IsQueue(0, r)'
    BY <1>3, RemoveStep
  <2> QED
    BY <2>1, <2>2 DEF HasQueue
<1>4. ASSUME NEW t \in Threads, Handoff(t) PROVE HasQueue'
  <2> DEFINE r == [i \in 1..n-1 |-> q[i+1]]
  <2>1. r \in [1..n-1 -> Threads] /\ \A i \in 1..n-1 : r[i] = q[i+1]
    BY \A i \in 1..n-1 : i + 1 \in 1..n
  <2> HIDE DEF r
  <2>2. n - 1 \in Nat /\ IsQueue(n-1, r)'
    BY <1>4, <2>1, HandoffStep
  <2> QED
    BY <2>1, <2>2 DEF HasQueue
<1> QED
  BY <1>1, <1>2, <1>3, <1>4, StepKinds

\* What the queue says about the neighbours a thread is about to write to.
LEMMA Neighbours ==
  ASSUME IInv, NEW t \in Threads
  PROVE  /\ Waiting(t) => pred[t] \in Threads /\ Member(pred[t])
         /\ pc[t] = "link" => next[pred[t]] = Nil
         /\ pc[t] = "handoff" => pc[succ[t]] = "spin" /\ blocked[succ[t]]
         /\ Waiting(t) /\ pc[pred[t]] = "handoff" => succ[pred[t]] = t
<1> PICK n \in Nat : \E q \in [1..n -> Threads] : IsQueue(n, q)
  BY DEF IInv, HasQueue
<1> PICK q \in [1..n -> Threads] : IsQueue(n, q)
  OBVIOUS
<1> USE DEF IInv
<1>1. ASSUME Waiting(t)
      PROVE  \E k \in 2..n : t = q[k] /\ pred[t] = q[k-1] /\ k-1 \in 1..n /\ (k-1) + 1 = k
  <2>1. PICK k \in 1..n : q[k] = t
    BY <1>1 DEF IsQueue, Member
  <2>2. ~Owner(t)
    BY <1>1 DEF Waiting, Owner
  <2>3. k \in 2..n
    BY <2>1, <2>2 DEF IsQueue
  <2> QED
    BY <2>1, <2>3 DEF IsQueue
<1>2. Waiting(t) => pred[t] \in Threads /\ Member(pred[t])
  BY <1>1 DEF IsQueue
<1>3. ASSUME pc[t] = "link" PROVE next[pred[t]] = Nil
  <2>1. Waiting(t)
    BY <1>3 DEF Waiting
  <2> QED
    BY <1>1, <1>3, <2>1 DEF IsQueue
<1>4. ASSUME pc[t] = "handoff" PROVE pc[succ[t]] = "spin" /\ blocked[succ[t]]
  <2>1. Owner(t) /\ Member(t) /\ succ[t] = next[t] /\ next[t] # Nil
    BY <1>4 DEF Owner, Member, Locals, TypeOK
  <2>2. n >= 1 /\ q[1] = t
    BY <2>1 DEF IsQueue
  <2>3. 2 \in 1..n /\ succ[t] = q[2] /\ pc[q[2]] = "spin"
    BY <2>1, <2>2 DEF IsQueue
  <2>4. Member(q[2]) /\ ~Owner(q[2])
    BY <2>3 DEF IsQueue
  <2> QED
    BY <2>3, <2>4 DEF Member, Waiting
<1>5. ASSUME Waiting(t), pc[pred[t]] = "handoff" PROVE succ[pred[t]] = t
  <2>1. PICK k \in 2..n : t = q[k] /\ pred[t] = q[k-1] /\ k-1 \in 1..n /\ (k-1) + 1 = k
    BY <1>1, <1>5
  <2>2. next[pred[t]] # Nil /\ succ[pred[t]] = next[pred[t]]
    BY <1>5, <1>2 DEF Locals, TypeOK
  <2> QED
    BY <2>1, <2>2 DEF IsQueue
<1> QED
  BY <1>2, <1>3, <1>4, <1>5

LEMMA LocalsStep ==
  ASSUME IInv, [Next]_vars
  PROVE  Locals'
<1> USE DEF IInv
<1>1. CASE UNCHANGED vars
  BY <1>1 DEF vars, Locals
<1>2. ASSUME NEW t \in Threads, Lock(t) \/ TryLock(t) PROVE Locals'
  BY <1>2 DEF Lock, TryLock, FreshNode, Goto, TypeOK, Locals
<1>3. ASSUME NEW t \in Threads, Exchange(t) \/ TryExchange(t) PROVE Locals'
  BY <1>3 DEF Exchange, TryExchange, Goto, TypeOK, Locals
<1>4. ASSUME NEW t \in Threads, Block(t) PROVE Locals'
  BY <1>4 DEF Block, Goto, TypeOK, Locals
<1>5. ASSUME NEW t \in Threads, Link(t) PROVE Locals'
  <2>1. pred[t] \in Threads /\ Member(pred[t]) /\ next[pred[t]] = Nil /\ pc[t] = "link"
    BY <1>5, Neighbours DEF Link, Waiting
  <2>2. pc[pred[t]] \notin {"exchange", "try", "handoff"}
    BY <2>1 DEF Member, Waiting, Owner, Locals, TypeOK
  <2> QED
    BY <1>5, <2>1, <2>2 DEF Link, Goto, TypeOK, Locals
<1>6. ASSUME NEW t \in Threads, Spin(t) PROVE Locals'
  BY <1>6 DEF Spin, Goto, TypeOK, Locals
<1>7. ASSUME NEW t \in Threads, Unlock(t) \/ AwaitSuccessor(t) PROVE Locals'
  BY <1>7 DEF Unlock, AwaitSuccessor, Goto, TypeOK, Locals
<1>8. ASSUME NEW t \in Threads, Remove(t) PROVE Locals'
  BY <1>8, NilAssumption DEF Remove, Goto, TypeOK, Locals
<1>9. ASSUME NEW t \in Threads, Handoff(t) PROVE Locals'
  BY <1>9, Neighbours DEF Handoff, Goto, TypeOK, Locals
<1> QED
  BY <1>1, <1>2, <1>3, <1>4, <1>5, <1>6, <1>7, <1>8, <1>9 DEF Next, Proceed

\* The invariant holds of every execution, for any set of threads.
THEOREM SpecIInv == Spec => []IInv
<1>1. IInv /\ [Next]_vars => IInv'
  BY TypeStep, LocalsStep, QueueStep DEF IInv
<1> QED
  BY InitIInv, <1>1, PTL DEF Spec

-----------------------------------------------------------------------------

\* No variable leaves its type and no Nil pointer is followed.
THEOREM TypeCorrect == Spec => []TypeOK
<1>1. IInv => TypeOK
  BY DEF IInv
<1> QED
  BY SpecIInv, <1>1, PTL

\* At most one thread has the lock: only the first of the queue is an owner.
THEOREM MutualExclusionHolds == Spec => []MutualExclusion
<1>1. ASSUME NEW n \in Nat, NEW q \in [1..n -> Threads], IsQueue(n, q)
      PROVE  MutualExclusion
  BY <1>1 DEF IsQueue, Member, MutualExclusion
<1>2. IInv => MutualExclusion
  BY <1>1 DEF IInv, HasQueue
<1> QED
  BY SpecIInv, <1>2, PTL

\* No step writes to the node of a thread that has returned from the lock.
THEOREM NoDanglingNodeHolds == Spec => []NoDanglingNode
<1>1. IInv => NoDanglingNode
  BY Neighbours DEF NoDanglingNode, Waiting
<1> QED
  BY SpecIInv, <1>1, PTL

\* Every waiting thread has someone in front of it who will hand over to it.
THEOREM NoLostSuccessorHolds == Spec => []NoLostSuccessor
<1>1. IInv => NoLostSuccessor
  BY Neighbours DEF NoLostSuccessor, Member, Waiting, Owner
<1> QED
  BY SpecIInv, <1>1, PTL

\* The tail is Nil exactly when no thread is in the queue.
THEOREM FreeWhenUnusedHolds == Spec => []FreeWhenUnused
<1>1. ASSUME NEW n \in Nat, NEW q \in [1..n -> Threads], IsQueue(n, q)
      PROVE  FreeWhenUnused
  <2>1. CASE n = 0
    BY <1>1, <2>1 DEF IsQueue, FreeWhenUnused
  <2>2. CASE n # 0
    <3>1. n \in 1..n /\ q[n] \in Threads /\ tail = q[n]
      BY <1>1, <2>2 DEF IsQueue
    <3> QED
      BY <1>1, <3>1, NilAssumption DEF IsQueue, FreeWhenUnused
  <2> QED
    BY <2>1, <2>2
<1>2. IInv => FreeWhenUnused
  BY <1>1 DEF IInv, HasQueue
<1> QED
  BY SpecIInv, <1>2, PTL
-----------------------------------------------------------------------------
(* The lock implements FifoLock: the nodes form one queue only, which the   *)
(* steps of the lock leave, extend at its end or shorten at its head.       *)

\* A set of numbers that is not empty has a least element.
LEMMA LeastOf ==
  ASSUME NEW T \in SUBSET Nat, T # {}
  PROVE  \E x \in T : \A y \in T : x <= y
<1>1. IsWellFoundedOn({ss \in Nat \X Nat : ss[1] < ss[2]}, Nat)
  BY NatLessThanWellFounded DEF OpToRel
<1>2. \E x \in T : \A y \in T : ~(<<y, x>> \in {ss \in Nat \X Nat : ss[1] < ss[2]})
  <2>1. T \subseteq Nat
    OBVIOUS
  <2> QED
    BY <1>1, <2>1, WFMin, Zenon
<1>3. PICK x \in T : \A y \in T : ~(<<y, x>> \in {ss \in Nat \X Nat : ss[1] < ss[2]})
  BY <1>2
<1>4. ASSUME NEW y \in T PROVE x <= y
  <2>1. x \in Nat /\ y \in Nat /\ <<y, x>> \in Nat \X Nat
    OBVIOUS
  <2> QED
    BY <1>3, <2>1
<1> QED
  BY <1>4

\* Two queues agree from the tail on, as far as the shorter reaches.
LEMMA SameFromTail ==
  ASSUME NEW n \in Nat, NEW q \in [1..n -> Threads], IsQueue(n, q),
         NEW m \in Nat, NEW r \in [1..m -> Threads], IsQueue(m, r)
  PROVE  \A k \in Nat : k < n /\ k < m => q[n-k] = r[m-k]
<1> DEFINE T == {k \in Nat : k < n /\ k < m /\ q[n-k] # r[m-k]}
<1> SUFFICES ASSUME T # {} PROVE FALSE
  OBVIOUS
<1>1. PICK k \in T : \A j \in T : k <= j
  BY LeastOf
<1>2. k \in Nat /\ k < n /\ k < m /\ q[n-k] # r[m-k]
  BY <1>1
<1>3. CASE k = 0
  <2>1. n # 0 /\ m # 0 /\ q[n] = tail /\ r[m] = tail
    BY <1>2 DEF IsQueue
  <2> QED
    BY <1>2, <1>3, <2>1
<1>4. CASE k # 0
  <2>1. k - 1 \in Nat /\ k - 1 < n /\ k - 1 < m /\ ~(k <= k - 1)
    BY <1>2, <1>4
  <2>2. q[n-(k-1)] = r[m-(k-1)]
    BY <1>1, <2>1
  <2>3. n-(k-1) \in 2..n /\ m-(k-1) \in 2..m /\ (n-(k-1))-1 = n-k /\ (m-(k-1))-1 = m-k
    BY <1>2, <1>4
  <2>4. pred[q[n-(k-1)]] = q[n-k] /\ pred[r[m-(k-1)]] = r[m-k]
    BY <2>3 DEF IsQueue
  <2> QED
    BY <1>2, <2>2, <2>4
<1> QED
  BY <1>3, <1>4

\* The owner is the first of both, so that neither is longer.
LEMMA NotLonger ==
  ASSUME NEW n \in Nat, NEW q \in [1..n -> Threads], IsQueue(n, q),
         NEW m \in Nat, NEW r \in [1..m -> Threads], IsQueue(m, r)
  PROVE  ~(n < m)
<1> SUFFICES ASSUME n < m PROVE FALSE
  OBVIOUS
<1>1. CASE n = 0
  <2>1. tail = Nil /\ tail = r[m] /\ r[m] \in Threads
    BY <1>1 DEF IsQueue
  <2> QED
    BY <2>1, NilAssumption
<1>2. CASE n # 0
  <2>1. n - 1 \in Nat /\ n - 1 < n /\ n - 1 < m /\ n - (n-1) = 1
    BY <1>2
  <2>2. q[1] = r[m-(n-1)]
    <3>1. \A k \in Nat : k < n /\ k < m => q[n-k] = r[m-k]
      BY SameFromTail
    <3>2. q[n-(n-1)] = r[m-(n-1)]
      BY <2>1, <3>1
    <3> QED
      BY <2>1, <3>2
  <2>3. Owner(q[1]) /\ m-(n-1) \in 1..m /\ m-(n-1) # 1
    BY <1>2 DEF IsQueue
  <2> QED
    BY <2>2, <2>3 DEF IsQueue
<1> QED
  BY <1>1, <1>2

LEMMA QueueIsUnique ==
  ASSUME NEW n \in Nat, NEW q \in [1..n -> Threads], IsQueue(n, q),
         NEW m \in Nat, NEW r \in [1..m -> Threads], IsQueue(m, r)
  PROVE  n = m /\ q = r
<1>1. n = m
  BY NotLonger
<1>2. ASSUME NEW i \in 1..n PROVE q[i] = r[i]
  <2>1. n-i \in Nat /\ n-i < n /\ n-(n-i) = i
    OBVIOUS
  <2>2. \A k \in Nat : k < n /\ k < m => q[n-k] = r[m-k]
    BY SameFromTail
  <2>3. q[n-(n-i)] = r[m-(n-i)]
    BY <1>1, <2>1, <2>2
  <2> QED
    BY <1>1, <2>1, <2>3
<1> QED
  BY <1>1, <1>2

\* A queue has no more places than there are threads.
LEMMA QueueFits ==
  ASSUME IsFiniteSet(Threads), NEW n \in Nat, NEW q \in [1..n -> Threads], IsQueue(n, q)
  PROVE  n \in 0..Cardinality(Threads)
<1>1. Cardinality(Threads) \in Nat
  BY FS_CardinalityType
<1>2. IsFiniteSet(1..n) /\ Cardinality(1..n) = n
  BY FS_Interval
<1>3. ASSUME Cardinality(Threads) < n PROVE FALSE
  <2>1. \E x, y \in 1..n : x # y /\ q[x] = q[y]
    BY <1>2, <1>3, FS_PigeonHole, Zenon
  <2> QED
    BY <2>1 DEF IsQueue
<1> QED
  BY <1>1, <1>3

\* The state function of the refinement is the queue the nodes form.
LEMMA QueueOfIs ==
  ASSUME IsFiniteSet(Threads)
  PROVE  \A n \in Nat : \A q \in [1..n -> Threads] :
           IsQueue(n, q) => QueueOf = q /\ q \in Seq(Threads) /\ Len(q) = n
<1> SUFFICES ASSUME NEW n \in Nat, NEW q \in [1..n -> Threads], IsQueue(n, q)
             PROVE  QueueOf = q /\ q \in Seq(Threads) /\ Len(q) = n
  OBVIOUS
<1> DEFINE Queues == UNION {[1..k -> Threads] : k \in 0..Cardinality(Threads)}
<1>1. q \in Seq(Threads) /\ Len(q) = n
  OBVIOUS
<1>2. q \in Queues
  BY QueueFits
<1>3. ASSUME NEW r \in Queues, IsQueue(Len(r), r) PROVE r = q
  <2>1. PICK m \in 0..Cardinality(Threads) : r \in [1..m -> Threads]
    OBVIOUS
  <2>2. m \in Nat /\ Len(r) = m
    BY <2>1, FS_CardinalityType
  <2> QED
    BY <1>3, <2>1, <2>2, QueueIsUnique
<1>4. QueueOf = CHOOSE r \in Queues : IsQueue(Len(r), r)
  BY <1>1, <1>2 DEF QueueOf
<1>5. QueueOf \in Queues /\ IsQueue(Len(QueueOf), QueueOf)
  <2> HIDE DEF Queues
  <2> QED
    BY <1>1, <1>2, <1>4
<1> QED
  BY <1>1, <1>3, <1>5

\* The thread inside, if any: it has noticed that it owns the lock.
Held == \E t \in Threads : pc[t] \in {"critical", "cas", "await", "handoff"}

\* The queue, stated of one state so that it can be primed.
QueueKnown == \A n \in Nat : \A q \in [1..n -> Threads] :
                IsQueue(n, q) => QueueOf = q /\ q \in Seq(Threads) /\ Len(q) = n

\* Whoever is inside is the owner, and there is one owner.
LEMMA Inside ==
  ASSUME IInv, NEW t \in Threads, Owner(t)
  PROVE  \A u \in Threads : pc[u] \in {"critical", "cas", "await", "handoff"} => u = t
<1>1. ASSUME NEW n \in Nat, NEW q \in [1..n -> Threads], IsQueue(n, q)
      PROVE  \A u \in Threads : Owner(u) => u = t
  BY <1>1 DEF IsQueue, Member
<1> QED
  BY <1>1 DEF IInv, HasQueue, Owner

\* A step that leaves the queue and who is inside as they are, or ends a spin.
LEMMA StayStep ==
  ASSUME IInv, QueueKnown, QueueKnown',
         NEW n \in Nat, NEW q \in [1..n -> Threads], IsQueue(n, q), IsQueue(n, q)',
         [Next]_vars, \A t \in Threads : ~Arrives(t) /\ ~(Remove(t) /\ tail = t) /\ ~Handoff(t)
  PROVE  [Fifo!FifoNext]_Fifo!fifoVars
<1> USE DEF IInv
<1>1. QueueOf' = QueueOf /\ QueueOf = q /\ Len(q) = n
  BY DEF QueueKnown
<1>2. SUFFICES (Held' <=> Held) \/ \E t \in Threads : Fifo!Enter(t)
  BY <1>1 DEF Held, Fifo!FifoNext, Fifo!fifoVars
<1>3. ASSUME NEW t \in Threads, Spin(t) PROVE Fifo!Enter(t)
  <2>1. Owner(t) /\ Member(t) /\ pc[t] = "spin" /\ pc'[t] = "critical"
    BY <1>3 DEF Spin, Goto, TypeOK, Owner, Member
  <2>2. n >= 1 /\ q[1] = t
    BY <2>1 DEF IsQueue
  <2>3. Fifo!First(t)
    BY <1>1, <2>2 DEF Fifo!First
  <2>4. ~Held /\ Held'
    BY <2>1, Inside DEF Held
  <2> QED
    BY <1>1, <2>3, <2>4 DEF Fifo!Enter, Held
<1>4. CASE UNCHANGED vars
  BY <1>4 DEF vars, Held
<1>5. ASSUME NEW t \in Threads,
             Lock(t) \/ TryLock(t) \/ Block(t) \/ Link(t) \/ Unlock(t) \/ Remove(t)
             \/ AwaitSuccessor(t)
      PROVE  Held' <=> Held
  <2>1. \A u \in Threads : u # t => pc'[u] = pc[u]
    BY <1>5 DEF Lock, TryLock, Block, Link, Unlock, Remove, AwaitSuccessor, Goto, TypeOK
  <2>2. pc'[t] \in {"critical", "cas", "await", "handoff"}
          <=> pc[t] \in {"critical", "cas", "await", "handoff"}
    BY <1>5 DEF Lock, TryLock, Block, Link, Unlock, Remove, AwaitSuccessor, Goto, TypeOK
  <2> QED
    BY <2>1, <2>2 DEF Held
<1>6. ASSUME NEW t \in Threads, Exchange(t) PROVE FALSE
  BY <1>6 DEF Exchange, Arrives
<1>7. ASSUME NEW t \in Threads, TryExchange(t) PROVE Held' <=> Held
  <2>1. tail # Nil
    BY <1>7 DEF TryExchange, Arrives
  <2> QED
    BY <1>7, <2>1 DEF TryExchange, Goto, TypeOK, Held
<1> QED
  BY <1>3, <1>4, <1>5, <1>6, <1>7 DEF Next, Proceed

\* Every step of the lock is a step of FifoLock or changes nothing of it.
LEMMA RefinesStep ==
  ASSUME IInv, QueueKnown, QueueKnown', [Next]_vars
  PROVE  [Fifo!FifoNext]_Fifo!fifoVars
<1> PICK n \in Nat : \E q \in [1..n -> Threads] : IsQueue(n, q)
  BY DEF IInv, HasQueue
<1> PICK q \in [1..n -> Threads] : IsQueue(n, q)
  OBVIOUS
<1> USE DEF IInv
<1>1. QueueOf = q /\ q \in Seq(Threads) /\ Len(q) = n
  BY DEF QueueKnown
<1>2. ASSUME NEW t \in Threads, Arrives(t) PROVE Fifo!Join(t)
  <2> DEFINE r == Append(q, t)
  <2>1. n + 1 \in Nat /\ r \in [1..n+1 -> Threads] /\ r[n+1] = t /\ \A i \in 1..n : r[i] = q[i]
    <3>1. /\ r \in Seq(Threads) /\ Len(r) = n + 1 /\ r[n+1] = t
          /\ \A i \in 1..n : r[i] = q[i]
      BY <1>1, AppendProperties
    <3> QED
      BY <3>1, LenProperties
  <2> HIDE DEF r
  <2>2. QueueOf' = r
    BY <1>2, <2>1, AppendStep DEF QueueKnown
  <2>3. ~Fifo!Queued(t)
    <3>1. ~Member(t)
      BY <1>2 DEF Arrives, Member, Waiting, Owner
    <3> QED
      BY <1>1, <3>1 DEF Fifo!Queued, IsQueue
  <2>4. Held' <=> (Held \/ q = <<>>)
    <3>1. tail = Nil <=> q = <<>>
      BY <1>1, NilAssumption DEF IsQueue
    <3>2. pc[t] \in {"exchange", "try"} /\ \A u \in Threads : u # t => pc'[u] = pc[u]
      BY <1>2 DEF Arrives, Goto, TypeOK
    <3>3. pc'[t] = IF tail = Nil THEN "critical" ELSE "block"
      BY <1>2 DEF Arrives, Goto, TypeOK
    <3> QED
      BY <3>1, <3>2, <3>3 DEF Held
  <2> QED
    BY <1>1, <2>2, <2>3, <2>4 DEF r, Fifo!Join, Held
<1>3. ASSUME NEW t \in Threads, Remove(t) /\ tail = t PROVE Fifo!Leave(t)
  <2>1. n = 1 /\ q[1] = t /\ \A r : IsQueue(0, r)'
    BY <1>3, RemoveStep
  <2>2. <<>> \in [1..0 -> Threads] /\ Tail(q) = <<>> /\ Head(q) = t /\ q # <<>>
    <3>1. q # <<>>
      BY <1>1, <2>1
    <3>2. Head(q) = q[1] /\ Tail(q) \in Seq(Threads) /\ Len(Tail(q)) = 0
      BY <1>1, <2>1, <3>1, HeadTailProperties
    <3>3. Tail(q) = <<>>
      BY <3>2, EmptySeq
    <3> QED
      BY <2>1, <3>1, <3>2, <3>3
  <2>3. QueueOf' = Tail(q)
    BY <2>1, <2>2 DEF QueueKnown
  <2>4. Owner(t) /\ Held
    BY <1>3 DEF Remove, Owner, Held
  <2>5. pc'[t] = "idle" /\ \A u \in Threads : u # t => pc'[u] = pc[u]
    BY <1>3 DEF Remove, Goto, TypeOK
  <2>6. ~Held'
    BY <2>4, <2>5, Inside DEF Held
  <2> QED
    BY <1>1, <2>2, <2>3, <2>4, <2>6 DEF Fifo!Leave, Fifo!First, Held
<1>4. ASSUME NEW t \in Threads, Handoff(t) PROVE Fifo!Leave(t)
  <2>1. n >= 1
    BY <1>4 DEF Handoff, Member, Owner, IsQueue
  <2> DEFINE r == Tail(q)
  <2>2. r \in [1..n-1 -> Threads] /\ \A i \in 1..n-1 : r[i] = q[i+1]
    <3>1. q # <<>>
      BY <1>1, <2>1
    <3>2. /\ r \in Seq(Threads) /\ Len(r) = n - 1
          /\ \A i \in 1..n-1 : r[i] = q[i+1]
      BY <1>1, <3>1, HeadTailProperties
    <3> QED
      BY <3>2, LenProperties
  <2> HIDE DEF r
  <2>3. n - 1 \in Nat /\ q[1] = t /\ IsQueue(n-1, r)'
    BY <1>4, <2>2, HandoffStep
  <2>4. QueueOf' = r
    BY <2>2, <2>3 DEF QueueKnown
  <2>5. Owner(t) /\ Held
    BY <1>4 DEF Handoff, Owner, Held
  <2>6. pc'[t] = "idle" /\ \A u \in Threads : u # t => pc'[u] = pc[u]
    BY <1>4 DEF Handoff, Goto, TypeOK
  <2>7. ~Held'
    BY <2>5, <2>6, Inside DEF Held
  <2>8. q # <<>> /\ Head(q) = t
    BY <1>1, <2>1, <2>3
  <2> QED
    BY <1>1, <2>4, <2>5, <2>7, <2>8 DEF r, Fifo!Leave, Fifo!First, Held
<1>5. CASE \E t \in Threads : Arrives(t) \/ (Remove(t) /\ tail = t) \/ Handoff(t)
  BY <1>2, <1>3, <1>4, <1>5 DEF Fifo!FifoNext
<1>6. CASE ~\E t \in Threads : Arrives(t) \/ (Remove(t) /\ tail = t) \/ Handoff(t)
  <2>1. IsQueue(n, q)'
    BY <1>6, StepKinds
  <2> QED
    BY <1>6, <2>1, StayStep
<1> QED
  BY <1>5, <1>6

\* The lock is a first-come first-served lock: what FifoLock allows, in the
\* order in which the threads exchanged the tail, for any finite set of threads.
THEOREM ImplementsFifoHolds ==
  ASSUME IsFiniteSet(Threads)
  PROVE  Spec => ImplementsFifo
<1>1. QueueKnown
  BY QueueOfIs DEF QueueKnown
<1>2. Init => Fifo!FifoInit
  <2> SUFFICES ASSUME Init PROVE Fifo!FifoInit
    OBVIOUS
  <2>1. \A t \in Threads : ~Member(t)
    BY DEF Init, Member, Waiting, Owner
  <2>2. <<>> \in [1..0 -> Threads] /\ IsQueue(0, <<>>)
    BY <2>1 DEF IsQueue, Init
  <2>3. QueueOf = <<>>
    BY <1>1, <2>2 DEF QueueKnown
  <2> QED
    BY <2>3 DEF Fifo!FifoInit, Init
<1>3. IInv /\ QueueKnown /\ QueueKnown' /\ [Next]_vars => [Fifo!FifoNext]_Fifo!fifoVars
  BY RefinesStep
<1> QED
  BY <1>1, <1>2, <1>3, SpecIInv, PTL DEF Spec, ImplementsFifo, Fifo!FifoSpec
=============================================================================
