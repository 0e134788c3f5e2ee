------------------------ MODULE MCInstrumentClient ------------------------
(* Small executables for InstrumentClient. *)
EXTENDS InstrumentClient

Load == [prefetch |-> FALSE, load |-> TRUE, store |-> FALSE, fs |-> FALSE, prefix |-> <<>>]
Store == [Load EXCEPT !.load = FALSE, !.store = TRUE]
Update == [Load EXCEPT !.store = TRUE]
Prefetch == [Load EXCEPT !.prefetch = TRUE]
Thread == [Store EXCEPT !.fs = TRUE]
Other == [Load EXCEPT !.load = FALSE]
LockUpdate == [Update EXCEPT !.prefix = <<"lock">>]
LockShort == [Update EXCEPT !.prefix = <<"data", "lock">>]

Bodies == {<<>>} \cup {<<p, q>> : p, q \in {Load, Store, Update, Prefetch, Thread, Other, LockUpdate}}

\* A program of one or two functions, and a shared library
Module(functions, shared) == [shared |-> shared, functions |-> functions]
Library == Module(<<<<Store>>>>, TRUE)
SmallImages == {<<Library, Module(<<f, g>>, FALSE)>> : f, g \in Bodies}

\* An atomic update of two bytes: the operand size prefix comes first.
ShortImages == {<<Module(<<<<LockShort>>>>, FALSE)>>}
=============================================================================
