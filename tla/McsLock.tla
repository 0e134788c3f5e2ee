------------------------------- MODULE McsLock -------------------------------
(***************************************************************************)
(* The MCS queue lock of RompLib/src/McsLock.cpp, one atomic operation per *)
(* action.  A lock is a pointer to the last queue node; a thread brings a  *)
(* node of its own, a local variable of the caller (McsNode node;          *)
(* LockGuard guard(lock, &node)), so a thread stands for its node here.    *)
(* The orderings the code asks for (acq_rel on the exchange, release and   *)
(* acquire on next and blocked) make the interleaving of these operations  *)
(* the behaviours of the program.                                          *)
(***************************************************************************)
EXTENDS Naturals, FiniteSets, Sequences

CONSTANTS Threads,  \* the OpenMP threads that use this lock
          Nil       \* MCS_NIL

ASSUME NilAssumption == Nil \notin Threads

VARIABLES tail,     \* McsLock.tail: the last node of the queue, or Nil
          next,     \* McsNode.next of each thread's node
          blocked,  \* McsNode.blocked of each thread's node
          pc,       \* where each thread is
          pred,     \* local `predecessor` of mcsLock
          succ      \* local `successor` of mcsUnlock

vars == <<tail, next, blocked, pc, pred, succ>>

Pointer == Threads \cup {Nil}

PCs == {"idle", "exchange", "try", "block", "link", "spin", "critical",
        "cas", "await", "handoff"}

\* mcsInit has run; the nodes are uninitialised stack memory.
Init == /\ tail = Nil
        /\ next \in [Threads -> Pointer]
        /\ blocked \in [Threads -> BOOLEAN]
        /\ pc = [t \in Threads |-> "idle"]
        /\ pred = [t \in Threads |-> Nil]
        /\ succ = [t \in Threads |-> Nil]

Goto(t, label) == pc' = [pc EXCEPT ![t] = label]

\* A fresh node: next is set to Nil by mcsLock and by mcsTryLock, blocked
\* holds whatever the stack held.
FreshNode(t) == /\ next' = [next EXCEPT ![t] = Nil]
                /\ \E garbage \in BOOLEAN : blocked' = [blocked EXCEPT ![t] = garbage]

-----------------------------------------------------------------------------
(* mcsLock *)

Lock(t) == /\ pc[t] = "idle"
           /\ FreshNode(t)
           /\ Goto(t, "exchange")
           /\ UNCHANGED <<tail, pred, succ>>

\* Mutated form of Exchange: the node is linked without setting blocked first.
ExchangeUnblocked(t) == /\ pc[t] = "exchange"
                        /\ pred' = [pred EXCEPT ![t] = tail]
                        /\ tail' = t
                        /\ Goto(t, IF tail = Nil THEN "critical" ELSE "link")
                        /\ UNCHANGED <<next, blocked, succ>>

\* atomic_exchange of the tail: without a predecessor the lock is taken.
Exchange(t) == /\ pc[t] = "exchange"
               /\ pred' = [pred EXCEPT ![t] = tail]
               /\ tail' = t
               /\ Goto(t, IF tail = Nil THEN "critical" ELSE "block")
               /\ UNCHANGED <<next, blocked, succ>>

Block(t) == /\ pc[t] = "block"
            /\ blocked' = [blocked EXCEPT ![t] = TRUE]
            /\ Goto(t, "link")
            /\ UNCHANGED <<tail, next, pred, succ>>

\* The predecessor learns its successor.
Link(t) == /\ pc[t] = "link"
           /\ next' = [next EXCEPT ![pred[t]] = t]
           /\ Goto(t, "spin")
           /\ UNCHANGED <<tail, blocked, pred, succ>>

\* Mutated form of Spin: the flag is not looked at.
SpinOnce(t) == /\ pc[t] = "spin"
               /\ Goto(t, "critical")
               /\ UNCHANGED <<tail, next, blocked, pred, succ>>

\* The load that ends the spin loop; a load that sees TRUE changes nothing.
Spin(t) == /\ pc[t] = "spin"
           /\ ~blocked[t]
           /\ Goto(t, "critical")
           /\ UNCHANGED <<tail, next, blocked, pred, succ>>

-----------------------------------------------------------------------------
(* mcsTryLock *)

TryLock(t) == /\ pc[t] = "idle"
              /\ FreshNode(t)
              /\ Goto(t, "try")
              /\ UNCHANGED <<tail, pred, succ>>

TryExchange(t) == /\ pc[t] = "try"
                  /\ \/ /\ tail = Nil
                        /\ tail' = t
                        /\ pred' = [pred EXCEPT ![t] = Nil]
                        /\ Goto(t, "critical")
                     \/ /\ tail # Nil
                        /\ Goto(t, "idle")
                        /\ UNCHANGED <<tail, pred>>
                  /\ UNCHANGED <<next, blocked, succ>>

-----------------------------------------------------------------------------
(* mcsUnlock *)

\* The first load of next: a known successor is handed the lock.
Unlock(t) == /\ pc[t] = "critical"
             /\ succ' = [succ EXCEPT ![t] = next[t]]
             /\ Goto(t, IF next[t] = Nil THEN "cas" ELSE "handoff")
             /\ UNCHANGED <<tail, next, blocked, pred>>

\* Mutated forms of Remove: a plain store of the tail, and a return that does
\* not care whether a successor is about to link itself.
RemoveBlindly(t) == /\ pc[t] = "cas"
                    /\ tail' = Nil
                    /\ Goto(t, "idle")
                    /\ UNCHANGED <<next, blocked, pred, succ>>

RemoveAndReturn(t) == /\ pc[t] = "cas"
                      /\ tail' = IF tail = t THEN Nil ELSE tail
                      /\ Goto(t, "idle")
                      /\ UNCHANGED <<next, blocked, pred, succ>>

\* compare_exchange of the tail: succeeds only for the last of the queue.
Remove(t) == /\ pc[t] = "cas"
             /\ \/ /\ tail = t
                   /\ tail' = Nil
                   /\ Goto(t, "idle")
                \/ /\ tail # t
                   /\ Goto(t, "await")
                   /\ UNCHANGED tail
             /\ UNCHANGED <<next, blocked, pred, succ>>

\* Mutated form of AwaitSuccessor: next is loaded once more, not awaited.
LoadSuccessor(t) == /\ pc[t] = "await"
                    /\ succ' = [succ EXCEPT ![t] = next[t]]
                    /\ Goto(t, "handoff")
                    /\ UNCHANGED <<tail, next, blocked, pred>>

\* The load that ends the wait for the successor to link itself.
AwaitSuccessor(t) == /\ pc[t] = "await"
                     /\ next[t] # Nil
                     /\ succ' = [succ EXCEPT ![t] = next[t]]
                     /\ Goto(t, "handoff")
                     /\ UNCHANGED <<tail, next, blocked, pred>>

\* Mutated form of Handoff: the successor is not woken.
HandoffSilently(t) == /\ pc[t] = "handoff"
                      /\ Goto(t, "idle")
                      /\ UNCHANGED <<tail, next, blocked, pred, succ>>

Handoff(t) == /\ pc[t] = "handoff"
              /\ blocked' = [blocked EXCEPT ![succ[t]] = FALSE]
              /\ Goto(t, "idle")
              /\ UNCHANGED <<tail, next, pred, succ>>

-----------------------------------------------------------------------------

\* The steps a thread takes by itself once it has called the lock.
Proceed(t) == \/ Exchange(t) \/ Block(t) \/ Link(t) \/ Spin(t)
              \/ TryExchange(t)
              \/ Unlock(t) \/ Remove(t) \/ AwaitSuccessor(t) \/ Handoff(t)

Next == \E t \in Threads : Lock(t) \/ TryLock(t) \/ Proceed(t)

Spec == Init /\ [][Next]_vars

\* The operating system runs every thread, and critical sections end: the
\* callers' loops over records and dependences are finite.  Nothing obliges
\* a thread to ask for the lock.
Fairness == \A t \in Threads : WF_vars(Proceed(t))

FairSpec == Spec /\ Fairness

-----------------------------------------------------------------------------
(* Properties *)

\* Every variable has its type, and a pointer that is about to be followed
\* (the predecessor's next, the successor's blocked) is not Nil.
TypeOK == /\ tail \in Pointer
          /\ next \in [Threads -> Pointer]
          /\ blocked \in [Threads -> BOOLEAN]
          /\ pc \in [Threads -> PCs]
          /\ pred \in [Threads -> Pointer]
          /\ succ \in [Threads -> Pointer]
          /\ \A t \in Threads : /\ pc[t] \in {"block", "link"} => pred[t] # Nil
                                /\ pc[t] = "handoff" => succ[t] # Nil

\* A thread that has taken a place in the queue and has no lock yet.
Waiting(t) == pc[t] \in {"block", "link"} \/ (pc[t] = "spin" /\ blocked[t])

\* A thread that has the lock, whether or not its spin loop has noticed, and
\* has not given it up yet.
Owner(t) == \/ pc[t] \in {"critical", "cas", "await", "handoff"}
            \/ pc[t] = "spin" /\ ~blocked[t]

\* A thread whose node is in the queue: mcsUnlock has still to return for it.
Member(t) == Waiting(t) \/ Owner(t)

\* mcsLock gives the lock to one thread at a time: everything guarded by a
\* LockGuard (access records, dependence graph, race reports) relies on it.
MutualExclusion == \A t, u \in Threads : Owner(t) /\ Owner(u) => t = u

\* McsNodes are local variables of the locking functions and die with
\* them: a node that another thread is about to write (as its predecessor
\* in mcsLock, as its successor in mcsUnlock) still has its owner waiting
\* in the queue or inside.
NoDanglingNode ==
  \A t \in Threads : /\ pc[t] = "link" => Member(pred[t])
                     /\ pc[t] = "handoff" => pc[succ[t]] = "spin" /\ blocked[succ[t]]

\* No wake-up is lost: a thread that waits has in front of it a thread that
\* is still going to hand the lock over to it, or that will wait for its link.
NoLostSuccessor ==
  \A t \in Threads :
    Waiting(t) => \/ pc[pred[t]] \in {"block", "link", "spin", "critical", "cas", "await"}
                  \/ pc[pred[t]] = "handoff" /\ succ[pred[t]] = t

\* A free lock has no trace of earlier users, so the next mcsLock need not wait.
FreeWhenUnused == tail = Nil <=> \A t \in Threads : ~Member(t)

\* Whoever has taken a place in the queue gets the lock.
StarvationFree == \A t \in Threads : Waiting(t) ~> pc[t] = "critical"

-----------------------------------------------------------------------------
(* The queue the nodes form, and the lock this implements *)

\* q[1..n] is the queue: the members of the lock from the owner to the tail,
\* each with its predecessor's address and, once it has linked itself, with
\* its own address in its predecessor's next.
IsQueue(n, q) ==
  /\ \A t \in Threads : Member(t) <=> \E i \in 1..n : q[i] = t
  /\ \A i, j \in 1..n : q[i] = q[j] => i = j
  /\ \A i \in 1..n : Owner(q[i]) <=> i = 1
  /\ \A i \in 2..n : pred[q[i]] = q[i-1]
  /\ tail = IF n = 0 THEN Nil ELSE q[n]
  /\ \A i \in 1..n : next[q[i]] = IF i < n /\ pc[q[i+1]] = "spin" THEN q[i+1] ELSE Nil

\* The queue; McsLockProofs shows that there always is one.
QueueOf ==
  LET Queues == UNION {[1..n -> Threads] : n \in 0..Cardinality(Threads)}
  IN  IF \E q \in Queues : IsQueue(Len(q), q)
      THEN CHOOSE q \in Queues : IsQueue(Len(q), q)
      ELSE <<>>

Fifo == INSTANCE FifoLock
          WITH queue <- QueueOf,
               held <- \E t \in Threads : pc[t] \in {"critical", "cas", "await", "handoff"}

\* The node queue is a first-come first-served lock: "a fair queue-based
\* lock" (McsLock.cpp, line 51).
ImplementsFifo == Fifo!FifoSpec
=============================================================================
