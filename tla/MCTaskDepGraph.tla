--------------------------- MODULE MCTaskDepGraph ---------------------------
(* Bounds for the model checking of TaskDepGraph. *)
EXTENDS TaskDepGraph

CONSTANTS v, w, x  \* dependence variables

\* Two threads create tasks: one creates a and b, the other creates c.
TwoParents == [t \in {"a", "b", "c"} |-> IF t = "c" THEN "q" ELSE "p"]

\* The same with a third task by the first.
ThreeAndOne == [t \in {"a", "b", "c", "d"} |-> IF t = "d" THEN "q" ELSE "p"]

Dep(variable, type) == [variable |-> variable, type |-> type]

\* One dependence, of any type.
SingleLists == {<<Dep(v, type)>> : type \in AllDepTypes}

\* Two of three variables, so that a task is reached along several paths, and
\* two tasks may read, or exclude each other on, one variable.
MixedLists == {<<Dep(v, "inout"), Dep(w, "out")>>, <<Dep(v, "in"), Dep(x, "inout")>>,
               <<Dep(w, "mutexinoutset"), Dep(x, "in")>>}

\* Exclusive updates of different variables.
MutexLists == {<<Dep(v, "mutexinoutset")>>, <<Dep(w, "mutexinoutset")>>}
=============================================================================
