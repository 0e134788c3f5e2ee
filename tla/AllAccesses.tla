----------------------------- MODULE AllAccesses -----------------------------
(***************************************************************************)
(* What checkDataRace promises of one location (RompLib.cpp, "Driver       *)
(* function to do data race checking and access history management"): a    *)
(* location that forgets nothing, and is marked by the first access that   *)
(* conflicts with one made before.                                         *)
(***************************************************************************)

CONSTANTS Accesses,        \* the accesses there may be
          Conflict(_, _)   \* two of them race

VARIABLES performed,  \* the accesses made so far
          found       \* whether the location is marked

Init == performed = {} /\ found = FALSE

Perform(a) == /\ performed' = performed \cup {a}
              /\ found' = (found \/ \E b \in performed : Conflict(a, b))

Next == \E a \in Accesses : Perform(a)

Spec == Init /\ [][Next]_<<performed, found>>
=============================================================================
