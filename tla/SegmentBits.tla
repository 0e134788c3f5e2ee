---------------------------- MODULE SegmentBits ----------------------------
(***************************************************************************)
(* The words of a segment (Segment.cpp): masks and shifts.                 *)
(*                                                                         *)
(* A word is the set of the positions of its one bits, so that `&' is      *)
(* intersection, `|' union, and an integer n < 2^k a subset of 0..k-1.     *)
(* The setters are called in any order; next to the words the module keeps *)
(* the fields they are meant to hold.                                      *)
(***************************************************************************)
EXTENDS Integers

CONSTANTS Numbers,   \* the arguments of the setters, as sets of bits
          Ids,       \* the numbers of iterations and sections; Segment.cpp, line 56,
                     \* gives them the bits 0 to 31
          MaxCalls   \* bound of the calls made to one segment

ASSUME NumbersAssumption == Numbers \subseteq SUBSET Nat
ASSUME IdsAssumption == Ids \subseteq SUBSET (0..63)
ASSUME MaxCallsAssumption == MaxCalls \in Nat

Word64 == 0..63
Word32 == 0..31

eImplicit == {0}
eExplicit == {1}
eWorkShare == {0, 1}

SEG_TYPE_MASK == 0..1
OFFSET_MASK == 48..63
SPAN_MASK == 32..47
TASKWAIT_MASK == Word64 \ (28..31)
PHASE_MASK == 24..27
LOOP_CNT_MASK == 20..23
\* Mutated form of TASK_CREATE_MASK: one bit too many
TASK_CREATE_MASK_WIDE == 4..19

TASK_CREATE_MASK == 5..19
TASKGROUP_SYNC_MASK == {4}
TASKWAIT_SYNC_MASK == {3}
WORKSHARE_TYPE_MASK == {2}
WS_PLACE_HOLDER_MASK == Word64 \ {2}
SINGLE_MASK == 62..63
TASKGROUP_ID_MASK == 16..31
TASKGROUP_LEVEL_MASK == 0..15
TASKGROUP_PHASE_MASK == 16..31
TASKWAIT_PHASE_MASK == 0..15

OFFSET_SHIFT == 48
SPAN_SHIFT == 32
TASKWAIT_SHIFT == 28
PHASE_SHIFT == 24
LOOP_CNT_SHIFT == 20
TASK_CREATE_SHIFT == 5

\* n << k within 64 bits, and w >> k
ShiftLeft(n, k) == {b + k : b \in n} \cap Word64
ShiftRight(w, k) == {b - k : b \in {c \in w : c >= k}}

\* Mutated form of Store: the old number is not cleared.
StoreOver(w, mask, shift, n) == w \cup (ShiftLeft(n, shift) \cap mask)

\* What every setter does: clear the field under mask, then or the number in.
Store(w, mask, shift, n) == (w \ mask) \cup (ShiftLeft(n, shift) \cap mask)
Load(w, mask, shift) == ShiftRight(w \cap mask, shift)

\* n < 2^k
Below(n, k) == n \subseteq 0..k-1

VARIABLES value, taskGroup, orderSecVal, workShareId,
          clone,  \* _value and _workShareId of a clone taken at some moment
          stored, \* what the last call of each setter was given
          before, \* stored, at the moment the clone was taken
          calls   \* how many calls were made

words == <<value, taskGroup, orderSecVal, workShareId>>
segmentVars == <<words, clone, stored, before, calls>>

-----------------------------------------------------------------------------
(* The getters *)

getType(w) == w \cap SEG_TYPE_MASK
getOffset(w) == Load(w, OFFSET_MASK, OFFSET_SHIFT)
getSpan(w) == Load(w, SPAN_MASK, SPAN_SHIFT)
getTaskwait(w) == Load(w, Word64 \ TASKWAIT_MASK, TASKWAIT_SHIFT)
getPhase(w) == Load(w, PHASE_MASK, PHASE_SHIFT)
getLoopCount(w) == Load(w, LOOP_CNT_MASK, LOOP_CNT_SHIFT)
getTaskcreate(w) == Load(w, TASK_CREATE_MASK, TASK_CREATE_SHIFT)
isTaskGroupSync(w) == w \cap TASKGROUP_SYNC_MASK # {}
isTaskwaited(w) == w \cap TASKWAIT_SYNC_MASK # {}
isSection(w) == w \cap WORKSHARE_TYPE_MASK # {}
isPlaceHolder(w) == ShiftRight(w \ WS_PLACE_HOLDER_MASK, 2) = {0}

getTaskGroupId(tg) == ShiftRight(tg, 16) \cap 0..15
getTaskGroupLevel(tg) == tg \cap TASKGROUP_LEVEL_MASK
getTaskwaitPhase(os) == os \cap TASKWAIT_PHASE_MASK

\* The word of the taskgroup, not that of the phases.
getTaskGroupPhase(tg) == ShiftRight(tg \cap TASKGROUP_PHASE_MASK, 16)

isSingleExecutor(id) == ShiftRight(id \cap SINGLE_MASK, 63) = {0}
isSingleOther(id) == ShiftRight(id \cap SINGLE_MASK, 62) = {0}

-----------------------------------------------------------------------------
(* The constructors and the setters *)

NoSingle == "no"

Fields(type, offset, span, id, section) ==
  [type |-> type, offset |-> offset, span |-> span, taskwait |-> {}, phase |-> {},
   loopCount |-> {}, taskcreate |-> {}, taskGroupSync |-> FALSE, taskwaited |-> FALSE,
   bit2 |-> section, taskGroupId |-> {}, taskGroupLevel |-> {}, taskwaitPhase |-> {},
   taskGroupPhase |-> {}, id |-> id, single |-> NoSingle]

BaseValue(type, offset, span) ==
  Store(Store(type, OFFSET_MASK, OFFSET_SHIFT, offset), SPAN_MASK, SPAN_SHIFT, span)

\* BaseSegment(type, offset, span): the span is checked, the offset is not.
BaseSegment(type, offset, span) ==
  /\ Below(span, 16)
  /\ value = BaseValue(type, offset, span)
  /\ workShareId = {}
  /\ stored = Fields(type, offset, span, {}, FALSE)

\* WorkShareSegment(id, isSection); without arguments the id is 0.
WorkShareSegment(id, section) ==
  /\ value = BaseValue(eWorkShare \cup (IF section THEN WORKSHARE_TYPE_MASK ELSE {}), {}, {0})
  /\ workShareId = id
  /\ stored = Fields(eWorkShare, {}, {0}, id, section)

SegmentInit == /\ \/ \E type \in {eImplicit, eExplicit}, offset \in Numbers, span \in Numbers :
                       BaseSegment(type, offset, span)
                  \/ \E id \in Ids, section \in BOOLEAN : WorkShareSegment(id, section)
               /\ taskGroup = {} /\ orderSecVal = {}
               /\ clone = <<value, workShareId>>
               /\ before = stored
               /\ calls = 0

Call == calls < MaxCalls /\ calls' = calls + 1 /\ UNCHANGED <<clone, before>>

\* A setter that changes _value only
SetValue(w, fields) == /\ Call
                       /\ value' = w
                       /\ stored' = fields
                       /\ UNCHANGED <<taskGroup, orderSecVal, workShareId>>

setOffsetSpan(offset, span) ==
  SetValue(Store(Store(value, OFFSET_MASK, OFFSET_SHIFT, offset), SPAN_MASK, SPAN_SHIFT, span),
           [stored EXCEPT !.offset = offset, !.span = span])

setTaskwait(n) ==
  /\ Below(n, 4)
  /\ SetValue(Store(value, Word64 \ TASKWAIT_MASK, TASKWAIT_SHIFT, n), [stored EXCEPT !.taskwait = n])

setPhase(n) ==
  /\ Below(n, 4)
  /\ SetValue(Store(value, PHASE_MASK, PHASE_SHIFT, n), [stored EXCEPT !.phase = n])

setLoopCount(n) ==
  /\ Below(n, 4)
  /\ SetValue(Store(value, LOOP_CNT_MASK, LOOP_CNT_SHIFT, n), [stored EXCEPT !.loopCount = n])

setTaskcreate(n) ==
  /\ Below(n, 15)
  /\ SetValue(Store(value, TASK_CREATE_MASK, TASK_CREATE_SHIFT, n), [stored EXCEPT !.taskcreate = n])

setTaskGroupSync ==
  SetValue(value \cup TASKGROUP_SYNC_MASK, [stored EXCEPT !.taskGroupSync = TRUE])

setTaskwaited == SetValue(value \cup TASKWAIT_SYNC_MASK, [stored EXCEPT !.taskwaited = TRUE])

IsWorkShare == getType(value) = eWorkShare

setPlaceHolderFlag(toggle) ==
  /\ IsWorkShare
  /\ SetValue(IF toggle THEN value \cup {2} ELSE value \cap WS_PLACE_HOLDER_MASK,
              [stored EXCEPT !.bit2 = toggle])

setWorkShareType(section) ==
  /\ IsWorkShare
  /\ SetValue((value \ WORKSHARE_TYPE_MASK) \cup (IF section THEN WORKSHARE_TYPE_MASK ELSE {}),
              [stored EXCEPT !.bit2 = section])

setSingleFlag(executor) ==
  /\ IsWorkShare
  /\ Call
  /\ workShareId' = (workShareId \ SINGLE_MASK) \cup (IF executor THEN {63} ELSE {62})
  /\ stored' = [stored EXCEPT !.single = IF executor THEN "executor" ELSE "other"]
  /\ UNCHANGED <<value, taskGroup, orderSecVal>>

setTaskGroupId(n) ==
  /\ Below(n, 16)
  /\ Call
  /\ taskGroup' = (taskGroup \ TASKGROUP_ID_MASK) \cup (ShiftLeft(n, 16) \cap TASKGROUP_ID_MASK)
  /\ stored' = [stored EXCEPT !.taskGroupId = n]
  /\ UNCHANGED <<value, orderSecVal, workShareId>>

setTaskGroupLevel(n) ==
  /\ Below(n, 16)
  /\ Call
  /\ taskGroup' = (taskGroup \ TASKGROUP_LEVEL_MASK) \cup (n \cap TASKGROUP_LEVEL_MASK)
  /\ stored' = [stored EXCEPT !.taskGroupLevel = n]
  /\ UNCHANGED <<value, orderSecVal, workShareId>>

\* The masks of these two keep the field that is set, and clear the other.
setTaskGroupPhase(n) ==
  /\ Below(n, 16)
  /\ Call
  /\ orderSecVal' = (orderSecVal \cap TASKGROUP_PHASE_MASK)
                      \cup (ShiftLeft(n, 16) \cap TASKGROUP_PHASE_MASK)
  /\ stored' = [stored EXCEPT !.taskGroupPhase = n]
  /\ UNCHANGED <<value, taskGroup, workShareId>>

setTaskwaitPhase(n) ==
  /\ Below(n, 16)
  /\ Call
  /\ orderSecVal' = (orderSecVal \cap TASKWAIT_PHASE_MASK) \cup (n \cap TASKWAIT_PHASE_MASK)
  /\ stored' = [stored EXCEPT !.taskwaitPhase = n]
  /\ UNCHANGED <<value, taskGroup, workShareId>>

\* The copy constructor
Clone ==
  /\ calls < MaxCalls /\ calls' = calls + 1
  /\ clone' = <<value, workShareId>>
  /\ before' = stored
  /\ UNCHANGED <<words, stored>>

SegmentNext == \/ \E offset \in Numbers, span \in Numbers : Below(span, 16) /\ setOffsetSpan(offset, span)
               \/ \E n \in Numbers : \/ setTaskwait(n)
                                     \/ setPhase(n)
                                     \/ setLoopCount(n)
                                     \/ setTaskcreate(n)
                                     \/ setTaskGroupId(n)
                                     \/ setTaskGroupLevel(n)
                                     \/ setTaskGroupPhase(n)
                                     \/ setTaskwaitPhase(n)
               \/ \E toggle \in BOOLEAN : \/ setPlaceHolderFlag(toggle)
                                          \/ setWorkShareType(toggle)
                                          \/ setSingleFlag(toggle)
               \/ setTaskGroupSync
               \/ setTaskwaited
               \/ Clone

SegmentSpec == SegmentInit /\ [][SegmentNext]_segmentVars

-----------------------------------------------------------------------------
(* Properties *)

\* operator== of BaseSegment and of WorkShareSegment
SameSegment(v, id) == v = value /\ (IsWorkShare => id = workShareId)

\* The fields of _value and _workShareId, which operator== compares; an offset
\* counts modulo 2^16.
Compared(f) == <<f.type, f.offset \cap 0..15, f.span, f.taskwait, f.phase, f.loopCount,
                 f.taskcreate, f.taskGroupSync, f.taskwaited, f.bit2, f.id, f.single>>

\* The fields read from _value, and those read from _workShareId
ValueHolds(v, f) ==
  /\ getType(v) = f.type
  /\ getOffset(v) = f.offset \cap 0..15
  /\ getSpan(v) = f.span
  /\ getTaskwait(v) = f.taskwait
  /\ getPhase(v) = f.phase
  /\ getLoopCount(v) = f.loopCount
  /\ getTaskcreate(v) = f.taskcreate
  /\ isTaskGroupSync(v) = f.taskGroupSync
  /\ isTaskwaited(v) = f.taskwaited
  /\ isSection(v) = f.bit2
  /\ isPlaceHolder(v) = f.bit2

IdHolds(id, f) ==
  /\ id \ SINGLE_MASK = f.id
  /\ isSingleExecutor(id) = (f.single = "executor")
  /\ isSingleOther(id) = (f.single = "other")

\* The words keep to their widths.
SegmentTypeOK == /\ value \subseteq Word64 /\ workShareId \subseteq Word64
                 /\ taskGroup \subseteq Word32 /\ orderSecVal \subseteq Word32
                 /\ calls \in 0..MaxCalls

\* Whatever was called before, each getter returns what its setter was last
\* given: no field runs into another ("From low to high", Segment.cpp, line 42).
\* The two flags of bit 2 are one field here, and the phases are left out.
FieldsIndependent ==
  /\ ValueHolds(value, stored)
  /\ IdHolds(workShareId, stored)
  /\ getTaskGroupId(taskGroup) = stored.taskGroupId
  /\ getTaskGroupLevel(taskGroup) = stored.taskGroupLevel

\* Two segments are equal as words if and only if all the fields of the words
\* are equal: compareLabels (Label.cpp, line 76) may compare words.
EqualityIsFieldwise ==
  LET Same == Compared(stored) = Compared(before)
  IN  SameSegment(clone[1], clone[2]) <=> Same

\* "Store the phase at the lower half of the 32 bit _orderSecVal" (Segment.cpp,
\* line 133): it can be read back.
TaskwaitPhaseStored == getTaskwaitPhase(orderSecVal) = stored.taskwaitPhase

\* "Task group phase records the phase of the workshare task" (Segment.cpp, line
\* 158): what setTaskGroupPhase stored is what getTaskGroupPhase returns.
TaskGroupPhaseStored == getTaskGroupPhase(taskGroup) = stored.taskGroupPhase
=============================================================================
