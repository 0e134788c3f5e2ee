-------------------------- MODULE InstrumentClient --------------------------
(***************************************************************************)
(* The client that rewrites a program (InstrumentClient.cpp): it opens the *)
(* executable, loads the detector's library, and inserts in front of each  *)
(* load or store a call of checkAccess.  The insertions take effect all at *)
(* once (finalizeInsertionSet), and the result is written to a new file;   *)
(* each step of Dyninst may fail, which ends the client.                   *)
(*                                                                         *)
(* An executable is a sequence of modules, a module a sequence of          *)
(* functions, a function a sequence of points, its memory instructions.    *)
(***************************************************************************)
EXTENDS Naturals, Sequences, SequencesExt

CONSTANTS Images,   \* the executables the client may be given
          Archs,    \* the values of the flag -arch
          Kinds     \* what openBinary returns: an executable "file" or a "process"

\* The prefix bytes of an instruction: lock (0xf0) and operand size (0x66)
PrefixBytes == {<<>>, <<"lock">>, <<"data", "lock">>, <<"data">>}

Points == [prefetch : BOOLEAN, load : BOOLEAN, store : BOOLEAN, fs : BOOLEAN, prefix : PrefixBytes]

Modules == [shared : BOOLEAN, functions : Seq(Seq(Points))]

ASSUME ImagesAssumption == Images \subseteq Seq(Modules)

VARIABLES image, arch, kind,  \* what the client is run on
          stage,      \* where in its run the client is
          modules,    \* how many modules getFunctionsVector has looked at
          funcVec,    \* the functions to be instrumented that are left, as <<module, function>>
          points,     \* the points of the function at hand that are left
          batch,      \* the insertions of the current set
          inserted,   \* the calls in the image
          written     \* the files that were written: the calls in each

vars == <<image, arch, kind, stage, modules, funcVec, points, batch, inserted, written>>

Init == /\ image \in Images /\ arch \in Archs /\ kind \in Kinds
        /\ stage = "open"
        /\ modules = 0
        /\ funcVec = <<>> /\ points = <<>>
        /\ batch = {} /\ inserted = {}
        /\ written = <<>>

input == <<image, arch, kind>>

\* LOG(FATAL) ends the process, whatever was inserted.
Fatal == /\ stage' = "fatal"
         /\ UNCHANGED <<input, modules, funcVec, points, batch, inserted, written>>

\* The constructor: openBinary, loadLibrary, and the search for checkAccess
initInstrumenter ==
  /\ stage = "open"
  /\ \/ Fatal
     \/ /\ stage' = "start"
        /\ UNCHANGED <<input, modules, funcVec, points, batch, inserted, written>>

\* instrumentMemoryAccess: getFunctionsVector asks for the modules of the image,
getFunctionsVector ==
  /\ stage = "start"
  /\ \/ Fatal
     \/ /\ stage' = "collect"
        /\ UNCHANGED <<input, modules, funcVec, points, batch, inserted, written>>

\* takes the functions of those that are not shared libraries,
NextModule ==
  /\ stage = "collect" /\ modules < Len(image)
  /\ modules' = modules + 1
  /\ funcVec' = IF image[modules'].shared THEN funcVec
                ELSE funcVec \o [j \in DOMAIN image[modules'].functions |-> <<modules', j>>]
  /\ UNCHANGED <<input, stage, points, batch, inserted, written>>

\* and returns.
FunctionsKnown ==
  /\ stage = "collect" /\ modules = Len(image)
  /\ stage' = "functions"
  /\ UNCHANGED <<input, modules, funcVec, points, batch, inserted, written>>

\* The loop of instrumentMemoryAccessInternal; a function without points has
\* none left at once.
NextFunction ==
  /\ stage = "functions"
  /\ points = <<>> /\ funcVec # <<>>
  /\ LET i == Head(funcVec)[1]
         j == Head(funcVec)[2]
         body == image[i].functions[j]
     IN  points' = [p \in DOMAIN body |-> <<i, j, p>>]
  /\ funcVec' = Tail(funcVec)
  /\ UNCHANGED <<input, stage, modules, batch, inserted, written>>

At(where) == image[where[1]].functions[where[2]][where[3]]

\* Prefetches, instructions that are neither loads nor stores, and accesses
\* through the fs register alone are passed over.
Ignored(point) == point.prefetch \/ ~(point.store \/ point.load) \/ point.fs

\* The first byte of the instruction; only for the architecture it knows
hasHardwareLock(point) == point.prefix # <<>> /\ Head(point.prefix) = "lock"

\* Mutated form of SkipPoint: the loop over the points ends.
SkipRest == /\ stage = "functions"
            /\ points # <<>> /\ Ignored(At(Head(points)))
            /\ points' = <<>>
            /\ UNCHANGED <<input, stage, modules, funcVec, batch, inserted, written>>

SkipPoint == /\ stage = "functions"
             /\ points # <<>> /\ Ignored(At(Head(points)))
             /\ points' = Tail(points)
             /\ UNCHANGED <<input, stage, modules, funcVec, batch, inserted, written>>

\* The call for a point: what loads and stores is a write.
CallAt(where) == [at |-> where, isWrite |-> At(where).store, hwLock |-> hasHardwareLock(At(where))]

\* A point without an access, another architecture or a failed insertion ends
\* the client.
insertSnippet ==
  /\ stage = "functions"
  /\ points # <<>>
  /\ \/ Fatal
     \/ /\ ~Ignored(At(Head(points))) /\ arch = "x86"
        /\ batch' = batch \cup {CallAt(Head(points))}
        /\ points' = Tail(points)
        /\ UNCHANGED <<input, stage, modules, funcVec, inserted, written>>

finalizeInsertionSet ==
  /\ stage = "functions"
  /\ points = <<>> /\ funcVec = <<>>
  /\ \/ Fatal
     \/ /\ inserted' = batch
        /\ stage' = "finish"
        /\ UNCHANGED <<input, modules, funcVec, points, batch, written>>

\* A process is run to its end; a file is written.
finishInstrumentation ==
  /\ stage = "finish"
  /\ \/ /\ kind = "process"
        /\ stage' = "done"
        /\ UNCHANGED <<input, modules, funcVec, points, batch, inserted, written>>
     \/ kind = "file" /\ Fatal
     \/ /\ kind = "file"
        /\ written' = <<inserted>>
        /\ stage' = "done"
        /\ UNCHANGED <<input, modules, funcVec, points, batch, inserted>>

Next == \/ initInstrumenter \/ getFunctionsVector \/ NextModule \/ FunctionsKnown
        \/ NextFunction \/ SkipPoint \/ insertSnippet \/ finalizeInsertionSet \/ finishInstrumentation

Spec == Init /\ [][Next]_vars

-----------------------------------------------------------------------------
(* Properties                                                               *)

Everywhere == UNION {UNION {{<<i, j, p>> : p \in DOMAIN image[i].functions[j]} :
                              j \in DOMAIN image[i].functions} : i \in DOMAIN image}

\* Each variable has its type, and what is left to do is about points there are.
TypeOK == /\ stage \in {"open", "start", "collect", "functions", "finish", "done", "fatal"}
          /\ \A c \in batch : c.at \in Everywhere /\ c.isWrite \in BOOLEAN /\ c.hwLock \in BOOLEAN
          /\ inserted \in {{}, batch}
          /\ ToSet(points) \subseteq Everywhere \ {c.at : c \in batch}

\* The load and store instructions of the program itself
Eligible == {e \in Everywhere : ~image[e[1]].shared /\ ~Ignored(At(e))}

\* A file is written only with a call for every load and store of the program,
\* one for each, that says "write" for what stores ("treat it as a write", lines
\* 184-185), although any step may fail and functions and points are passed over.
WrittenIsComplete ==
  \A i \in DOMAIN written :
    /\ {c.at : c \in written[i]} = Eligible
    /\ \A c, d \in written[i] : c.at = d.at => c = d
    /\ \A c \in written[i] : c.isWrite <=> At(c.at).store

\* A call tells whether its instruction has a lock prefix (lines 146-149,
\* "Determine if the instruction contains a hardware lock for X86 architecture").
LockPrefixSeen ==
  \A c \in batch : c.hwLock <=> \E i \in DOMAIN At(c.at).prefix : At(c.at).prefix[i] = "lock"
=============================================================================
