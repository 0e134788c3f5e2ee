------------------------------ MODULE FifoLock ------------------------------
(***************************************************************************)
(* What the lock of McsLock.h ("a fair queue-based lock") promises to its  *)
(* callers: threads enter one at a time, in the order in which they joined *)
(* the queue, and only the thread inside can leave.                        *)
(***************************************************************************)
EXTENDS Sequences

CONSTANT Threads

VARIABLES queue,  \* the threads that hold or wait for the lock, in order
          held    \* whether the first of them is inside

fifoVars == <<queue, held>>

Queued(t) == \E i \in DOMAIN queue : queue[i] = t

First(t) == queue # <<>> /\ Head(queue) = t

FifoInit == queue = <<>> /\ held = FALSE

\* A thread joins the end of the queue; it is inside at once if it is alone.
Join(t) == /\ ~Queued(t)
           /\ queue' = Append(queue, t)
           /\ held' = (held \/ queue = <<>>)

\* The first of the queue finds that its predecessor has left.
Enter(t) == /\ First(t)
            /\ ~held
            /\ held' = TRUE
            /\ UNCHANGED queue

Leave(t) == /\ First(t)
            /\ held
            /\ queue' = Tail(queue)
            /\ held' = FALSE

FifoNext == \E t \in Threads : Join(t) \/ Enter(t) \/ Leave(t)

FifoSpec == FifoInit /\ [][FifoNext]_fifoVars
=============================================================================
