------------------------------- MODULE Label -------------------------------
(***************************************************************************)
(* Task labels: Segment.cpp and Label.cpp.                                 *)
(*                                                                         *)
(* A label is a sequence of segments.  A segment is an object that labels  *)
(* share: a mutation that clones a segment gives the clone a name of its   *)
(* own (obj), and a mutation in place is seen in every label that holds    *)
(* the object.  Nothing but obj tells two equal segments apart.            *)
(***************************************************************************)
EXTENDS Integers, SequencesExt

CONSTANT OffsetLimit  \* 2^OFFSET_SPAN_WIDTH: offsets are kept modulo this

ASSUME OffsetLimitAssumption == OffsetLimit \in Nat \ {0}

CounterLimit == 16       \* taskwait, phase and loop count have four bits
TaskcreateLimit == 2^15

\* The bits of a phase or of another
BitwiseOr(a, b) == LET Bit(n, i) == (n \div 2^i) % 2 = 1
                   IN  CHOOSE c \in 0..CounterLimit-1 : \A i \in 0..3 : Bit(c, i) <=> Bit(a, i) \/ Bit(b, i)

SegmentTypes == {"eImplicit", "eExplicit", "eWorkShare"}

\* The 64 bits of _value.  The place holder bit and the section bit are the
\* same bit.
Value == [type : SegmentTypes, offset : 0..OffsetLimit-1, span : Nat,
          taskwait : 0..CounterLimit-1, phase : 0..CounterLimit-1,
          loopCount : 0..CounterLimit-1, taskcreate : 0..TaskcreateLimit-1,
          bit2 : BOOLEAN, taskwaited : BOOLEAN, taskGroupSync : BOOLEAN]

\* BaseSegment, with the _workShareId of WorkShareSegment (0 in the others).
BaseSegment(type, offset, span, obj) ==
  [value |-> [type |-> type, offset |-> offset % OffsetLimit, span |-> span,
              taskwait |-> 0, phase |-> 0, loopCount |-> 0, taskcreate |-> 0,
              bit2 |-> FALSE, taskwaited |-> FALSE, taskGroupSync |-> FALSE],
   workShareId |-> 0, single |-> "no",
   taskGroupId |-> 0, taskGroupLevel |-> 0, taskwaitPhase |-> 0,
   obj |-> obj]

WorkShareSegment(id, isSection, obj) ==
  [BaseSegment("eWorkShare", 0, 1, obj) EXCEPT !.workShareId = id, !.value.bit2 = isSection]

SingleSegment(single, obj) ==
  [WorkShareSegment(0, FALSE, obj) EXCEPT !.single = single]

PlaceHolder(obj) == [WorkShareSegment(0, FALSE, obj) EXCEPT !.value.bit2 = TRUE]

isPlaceHolder(seg) == seg.value.bit2
isSection(seg) == seg.value.bit2
isSingleExecutor(seg) == seg.single = "executor"

\* operator==: neither the taskgroup fields nor the phases are compared.
SameSegment(a, b) == /\ a.value = b.value
                     /\ a.value.type = "eWorkShare" =>
                          a.workShareId = b.workShareId /\ a.single = b.single

eLeftIsPrefix == -1
eRightIsPrefix == -2
eSameLabel == -3

\* The first position where the segments differ, or one of the codes above.
compareLabels(left, right) ==
  LET common == 1 .. (IF Len(left) < Len(right) THEN Len(left) ELSE Len(right))
      differ == {i \in common : ~SameSegment(left[i], right[i])}
  IN  IF differ # {} THEN CHOOSE i \in differ : \A j \in differ : i <= j
      ELSE IF Len(left) = Len(right) THEN eSameLabel
      ELSE IF Len(left) < Len(right) THEN eLeftIsPrefix
      ELSE eRightIsPrefix

-----------------------------------------------------------------------------
(* The labels of new tasks *)

genInitTaskLabel(obj) == <<BaseSegment("eImplicit", 0, 1, obj)>>

genImpTaskLabel(parent, index, parallelism, obj) ==
  Append(parent, BaseSegment("eImplicit", index, parallelism, obj))

\* Mutated form of genExpTaskLabel: the type is that of an implicit task.
genImpForExpTask(parent, obj) == Append(parent, BaseSegment("eImplicit", 0, 1, obj))

genExpTaskLabel(parent, obj) == Append(parent, BaseSegment("eExplicit", 0, 1, obj))

-----------------------------------------------------------------------------
(* The mutations.  Each gives a new label; the segment that changes is     *)
(* cloned first, and obj names the clone.                                  *)

mutateParentImpEnd(label) == Front(label)

mutateTaskComplete(label) == Front(label)

\* Mutated form of mutateParentTaskCreate: a new segment instead of a clone.
mutateParentFresh(label, obj) ==
  LET old == Last(label).value
  IN  Append(Front(label),
             [BaseSegment(old.type, old.offset, old.span, obj)
                EXCEPT !.value.taskcreate = old.taskcreate + 1])

mutateParentTaskCreate(label, obj) ==
  Append(Front(label), [Last(label) EXCEPT !.value.taskcreate = @ + 1, !.obj = obj])

\* Mutated form of mutateBarrierEnd: nothing moves on.
mutateBarrierKeep(label, obj) == label

\* The second last segment, that of the task that forked the team, moves on.
mutateBarrierEnd(label, obj) ==
  LET k == Len(label) - 1
  IN  [label EXCEPT ![k].value.offset = (@ + label[k].value.span) % OffsetLimit,
                    ![k].obj = obj]

mutateTaskWait(label, obj) ==
  Append(Front(label), [Last(label) EXCEPT !.value.taskwait = @ + 1, !.obj = obj])

mutateOrderSection(label, obj) ==
  Append(Front(label), [Last(label) EXCEPT !.value.phase = @ + 1, !.obj = obj])

mutateLoopBegin(label, obj) == Append(label, PlaceHolder(obj))

mutateLoopEnd(label, obj) ==
  LET outer == Front(label)
  IN  Append(Front(outer), [Last(outer) EXCEPT !.value.loopCount = @ + 1, !.obj = obj])

mutateSingleBegin(label, single, obj) == Append(label, SingleSegment(single, obj))

mutateSingleEnd(label) == Front(label)

mutateWorkShareDispatch(label, id, section, obj) ==
  Append(Front(label), WorkShareSegment(id, section, obj))

mutateTaskGroupBegin(label, obj) ==
  Append(Front(label), [Last(label) EXCEPT !.taskGroupId = @ + 1, !.taskGroupLevel = @ + 1,
                                           !.obj = obj])

\* Mutated form of mutateTaskGroupEnd: the id stays.
mutateTaskGroupLeave(label, obj) ==
  Append(Front(label), [Last(label) EXCEPT !.taskGroupLevel = @ - 1, !.obj = obj])

mutateTaskGroupEnd(label, obj) ==
  Append(Front(label), [Last(label) EXCEPT !.taskGroupId = @ + 1, !.taskGroupLevel = @ - 1,
                                           !.obj = obj])

-----------------------------------------------------------------------------
(* The marks, made in place: label is any label that may hold one of objs. *)

\* setTaskwaited and setTaskwaitPhase, whose mask keeps the old phase.
MarkTaskwaited(label, objs, phase) ==
  [k \in DOMAIN label |->
     IF label[k].obj \in objs
     THEN [label[k] EXCEPT !.value.taskwaited = TRUE, !.taskwaitPhase = BitwiseOr(@, phase)]
     ELSE label[k]]

\* setTaskGroupSync, the work of mutateTaskGroupSyncChild
MarkTaskGroupSync(label, objs) ==
  [k \in DOMAIN label |->
     IF label[k].obj \in objs THEN [label[k] EXCEPT !.value.taskGroupSync = TRUE]
                              ELSE label[k]]
=============================================================================
