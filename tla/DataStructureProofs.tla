------------------------- MODULE DataStructureProofs -------------------------
(***************************************************************************)
(* Two data structures that share no state: the words of a segment and the *)
(* dependence graph of the tasks of a region.                              *)
(***************************************************************************)
EXTENDS SegmentBits, TaskDepGraph, SequenceTheorems, FiniteSetTheorems, TLAPS

-----------------------------------------------------------------------------
(***************************************************************************)
(* The fields of a segment never run into each other, whatever numbers are *)
(* stored and however often: FieldsIndependent and EqualityIsFieldwise of  *)
(* SegmentBits, for work share numbers that leave the two bits of a single *)
(* alone.                                                                  *)
(***************************************************************************)

\* What is stored in a field is read back from it, if it fits.
LEMMA LoadStored ==
  ASSUME NEW w \in SUBSET Word64, NEW lo \in Word64, NEW hi \in Word64, lo <= hi,
         NEW n \in SUBSET Nat
  PROVE  Load(Store(w, lo..hi, lo, n), lo..hi, lo) = n \cap 0..hi-lo
  <1> DEFINE s == Store(w, lo..hi, lo, n)
  <1>1. s \cap lo..hi = {b + lo : b \in n} \cap lo..hi
    BY DEF Store, ShiftLeft, Word64
  <1>2. Load(s, lo..hi, lo) = {b - lo : b \in {b + lo : b \in n} \cap lo..hi}
    <2>1. {c \in s \cap lo..hi : c >= lo} = s \cap lo..hi
      BY DEF Word64
    <2> QED BY <1>1, <2>1 DEF Load, ShiftRight
  <1>3. ASSUME NEW x \in {b - lo : b \in {b + lo : b \in n} \cap lo..hi} PROVE x \in n \cap 0..hi-lo
    BY <1>3 DEF Word64
  <1>4. ASSUME NEW x \in n \cap 0..hi-lo PROVE x \in {b - lo : b \in {b + lo : b \in n} \cap lo..hi}
    <2>1. x + lo \in {b + lo : b \in n} \cap lo..hi
      BY <1>4 DEF Word64
    <2>2. (x + lo) - lo = x
      BY <1>4 DEF Word64
    <2> QED BY <2>1, <2>2
  <1> QED BY <1>2, <1>3, <1>4

\* Storing in a field leaves what is outside its mask.
LEMMA StoreKeeps ==
  ASSUME NEW w, NEW mask, NEW shift, NEW n
  PROVE  Store(w, mask, shift, n) \ mask = w \ mask
  BY DEF Store

LEMMA StoreIsWord ==
  ASSUME NEW w \in SUBSET Word64, NEW mask, NEW shift, NEW n
  PROVE  Store(w, mask, shift, n) \in SUBSET Word64
  BY DEF Store, ShiftLeft

\* The types of the fields a segment is given
FieldRecords ==
  [type : {eImplicit, eExplicit, eWorkShare}, offset : SUBSET Nat, span : SUBSET Nat,
   taskwait : SUBSET Nat, phase : SUBSET Nat, loopCount : SUBSET Nat, taskcreate : SUBSET Nat,
   taskGroupSync : BOOLEAN, taskwaited : BOOLEAN, bit2 : BOOLEAN,
   taskGroupId : SUBSET Nat, taskGroupLevel : SUBSET Nat,
   taskwaitPhase : SUBSET Nat, taskGroupPhase : SUBSET Nat,
   id : SUBSET Word64, single : {NoSingle, "executor", "other"}]

\* The place holder flag is the section flag.
LEMMA OneBit ==
  ASSUME NEW w \in SUBSET Word64
  PROVE  isPlaceHolder(w) = isSection(w) /\ isSection(w) = (2 \in w)
  <1>1. w \ WS_PLACE_HOLDER_MASK = w \cap {2}
    BY DEF WS_PLACE_HOLDER_MASK, Word64
  <1>2. CASE 2 \in w
    <2>1. w \cap {2} = {2}
      BY <1>2
    <2>2. ShiftRight({2}, 2) = {0}
      BY DEF ShiftRight
    <2> QED BY <1>1, <1>2, <2>1, <2>2 DEF isPlaceHolder, isSection, WORKSHARE_TYPE_MASK
  <1>3. CASE 2 \notin w
    <2>1. w \cap {2} = {}
      BY <1>3
    <2>2. ShiftRight({}, 2) = {}
      BY DEF ShiftRight
    <2> QED BY <1>1, <1>3, <2>1, <2>2 DEF isPlaceHolder, isSection, WORKSHARE_TYPE_MASK
  <1> QED BY <1>2, <1>3

-----------------------------------------------------------------------------
(* What each setter does to the fields                                     *)

LEMMA TaskwaitField == Word64 \ TASKWAIT_MASK = 28..31
  BY DEF Word64, TASKWAIT_MASK

\* Each getter returns what its own setter stored, as far as it fits.
LEMMA OwnField ==
  ASSUME NEW w \in SUBSET Word64, NEW n \in SUBSET Nat
  PROVE  /\ getOffset(Store(w, OFFSET_MASK, OFFSET_SHIFT, n)) = n \cap 0..15
         /\ getSpan(Store(w, SPAN_MASK, SPAN_SHIFT, n)) = n \cap 0..15
         /\ getTaskwait(Store(w, Word64 \ TASKWAIT_MASK, TASKWAIT_SHIFT, n)) = n \cap 0..3
         /\ getPhase(Store(w, PHASE_MASK, PHASE_SHIFT, n)) = n \cap 0..3
         /\ getLoopCount(Store(w, LOOP_CNT_MASK, LOOP_CNT_SHIFT, n)) = n \cap 0..3
         /\ getTaskcreate(Store(w, TASK_CREATE_MASK, TASK_CREATE_SHIFT, n)) = n \cap 0..14
  <1>1. ASSUME NEW lo \in Word64, NEW hi \in Word64, lo <= hi, NEW top \in Nat, top = hi - lo
        PROVE  Load(Store(w, lo..hi, lo, n), lo..hi, lo) = n \cap 0..top
    <2>1. Load(Store(w, lo..hi, lo, n), lo..hi, lo) = n \cap 0..hi-lo
      BY <1>1, LoadStored, ZenonT(30)
    <2> QED BY <1>1, <2>1, ZenonT(30)
  <1>2. Load(Store(w, 48..63, 48, n), 48..63, 48) = n \cap 0..15
    <2>1. 48 \in Word64 /\ 63 \in Word64 /\ 15 \in Nat /\ 48 <= 63 /\ 15 = 63 - 48
      BY DEF Word64
    <2> QED BY ONLY <1>1, <2>1, ZenonT(40)
  <1>3. Load(Store(w, 32..47, 32, n), 32..47, 32) = n \cap 0..15
    <2>1. 32 \in Word64 /\ 47 \in Word64 /\ 15 \in Nat /\ 32 <= 47 /\ 15 = 47 - 32
      BY DEF Word64
    <2> QED BY ONLY <1>1, <2>1, ZenonT(40)
  <1>4. Load(Store(w, 28..31, 28, n), 28..31, 28) = n \cap 0..3
    <2>1. 28 \in Word64 /\ 31 \in Word64 /\ 3 \in Nat /\ 28 <= 31 /\ 3 = 31 - 28
      BY DEF Word64
    <2> QED BY ONLY <1>1, <2>1, ZenonT(40)
  <1>5. Load(Store(w, 24..27, 24, n), 24..27, 24) = n \cap 0..3
    <2>1. 24 \in Word64 /\ 27 \in Word64 /\ 3 \in Nat /\ 24 <= 27 /\ 3 = 27 - 24
      BY DEF Word64
    <2> QED BY ONLY <1>1, <2>1, ZenonT(40)
  <1>6. Load(Store(w, 20..23, 20, n), 20..23, 20) = n \cap 0..3
    <2>1. 20 \in Word64 /\ 23 \in Word64 /\ 3 \in Nat /\ 20 <= 23 /\ 3 = 23 - 20
      BY DEF Word64
    <2> QED BY ONLY <1>1, <2>1, ZenonT(40)
  <1>7. Load(Store(w, 5..19, 5, n), 5..19, 5) = n \cap 0..14
    <2>1. 5 \in Word64 /\ 19 \in Word64 /\ 14 \in Nat /\ 5 <= 19 /\ 14 = 19 - 5
      BY DEF Word64
    <2> QED BY ONLY <1>1, <2>1, ZenonT(40)
  <1> QED
    BY <1>2, <1>3, <1>4, <1>5, <1>6, <1>7, TaskwaitField, Zenon
    DEF getOffset, getSpan, getTaskwait, getPhase, getLoopCount, getTaskcreate,
        OFFSET_MASK, SPAN_MASK, PHASE_MASK, LOOP_CNT_MASK, TASK_CREATE_MASK,
        OFFSET_SHIFT, SPAN_SHIFT, TASKWAIT_SHIFT, PHASE_SHIFT, LOOP_CNT_SHIFT, TASK_CREATE_SHIFT

\* The masks, by field
Masks == [type |-> SEG_TYPE_MASK, offset |-> OFFSET_MASK, span |-> SPAN_MASK,
          taskwait |-> Word64 \ TASKWAIT_MASK, phase |-> PHASE_MASK, loopCount |-> LOOP_CNT_MASK,
          taskcreate |-> TASK_CREATE_MASK, taskGroupSync |-> TASKGROUP_SYNC_MASK,
          taskwaited |-> TASKWAIT_SYNC_MASK, bit2 |-> WORKSHARE_TYPE_MASK]

\* No two fields of the word share a bit, but for the two flags of bit 2.
LEMMA MasksDisjoint ==
  /\ \A a, b \in DOMAIN Masks : a # b => Masks[a] \cap Masks[b] = {}
  /\ \A a \in DOMAIN Masks : Masks[a] \subseteq Word64
  <1>1. /\ \A b \in SEG_TYPE_MASK : b <= 1 /\ 0 <= b
        /\ \A b \in OFFSET_MASK : 48 <= b /\ b <= 63
        /\ \A b \in SPAN_MASK : 32 <= b /\ b <= 47
        /\ \A b \in Word64 \ TASKWAIT_MASK : 28 <= b /\ b <= 31
        /\ \A b \in PHASE_MASK : 24 <= b /\ b <= 27
        /\ \A b \in LOOP_CNT_MASK : 20 <= b /\ b <= 23
        /\ \A b \in TASK_CREATE_MASK : 5 <= b /\ b <= 19
        /\ \A b \in TASKGROUP_SYNC_MASK : b = 4
        /\ \A b \in TASKWAIT_SYNC_MASK : b = 3
        /\ \A b \in WORKSHARE_TYPE_MASK : b = 2
    BY TaskwaitField DEF SEG_TYPE_MASK, OFFSET_MASK, SPAN_MASK, PHASE_MASK, LOOP_CNT_MASK,
       TASK_CREATE_MASK, TASKGROUP_SYNC_MASK, TASKWAIT_SYNC_MASK, WORKSHARE_TYPE_MASK
  <1>2. \A a \in DOMAIN Masks : Masks[a] \subseteq Word64
    BY DEF Masks, Word64, SEG_TYPE_MASK, OFFSET_MASK, SPAN_MASK, PHASE_MASK, LOOP_CNT_MASK,
       TASK_CREATE_MASK, TASKGROUP_SYNC_MASK, TASKWAIT_SYNC_MASK, WORKSHARE_TYPE_MASK
  <1>3. ASSUME NEW a \in DOMAIN Masks, NEW b \in DOMAIN Masks, NEW x \in Masks[a] \cap Masks[b]
        PROVE  a = b
    BY <1>1, <1>2, <1>3 DEF Masks, Word64
  <1> QED BY <1>2, <1>3

\* A word that is another but for the bits of one field has the other fields.
LEMMA OthersKept ==
  ASSUME NEW v \in SUBSET Word64, NEW w \in SUBSET Word64, NEW own \in DOMAIN Masks,
         w \ Masks[own] = v \ Masks[own]
  PROVE  /\ own # "type" => getType(w) = getType(v)
         /\ own # "offset" => getOffset(w) = getOffset(v)
         /\ own # "span" => getSpan(w) = getSpan(v)
         /\ own # "taskwait" => getTaskwait(w) = getTaskwait(v)
         /\ own # "phase" => getPhase(w) = getPhase(v)
         /\ own # "loopCount" => getLoopCount(w) = getLoopCount(v)
         /\ own # "taskcreate" => getTaskcreate(w) = getTaskcreate(v)
         /\ own # "taskGroupSync" => isTaskGroupSync(w) = isTaskGroupSync(v)
         /\ own # "taskwaited" => isTaskwaited(w) = isTaskwaited(v)
         /\ own # "bit2" => isSection(w) = isSection(v)
         /\ own # "bit2" => isPlaceHolder(w) = isPlaceHolder(v)
  <1>1. \A a \in DOMAIN Masks : a # own => w \cap Masks[a] = v \cap Masks[a]
    BY MasksDisjoint
  <1>2. own # "type" => w \cap (SEG_TYPE_MASK) = v \cap (SEG_TYPE_MASK)
    BY <1>1 DEF Masks
  <1>3. own # "offset" => w \cap (OFFSET_MASK) = v \cap (OFFSET_MASK)
    BY <1>1 DEF Masks
  <1>4. own # "span" => w \cap (SPAN_MASK) = v \cap (SPAN_MASK)
    BY <1>1 DEF Masks
  <1>5. own # "taskwait" => w \cap (Word64 \ TASKWAIT_MASK) = v \cap (Word64 \ TASKWAIT_MASK)
    BY <1>1 DEF Masks
  <1>6. own # "phase" => w \cap (PHASE_MASK) = v \cap (PHASE_MASK)
    BY <1>1 DEF Masks
  <1>7. own # "loopCount" => w \cap (LOOP_CNT_MASK) = v \cap (LOOP_CNT_MASK)
    BY <1>1 DEF Masks
  <1>8. own # "taskcreate" => w \cap (TASK_CREATE_MASK) = v \cap (TASK_CREATE_MASK)
    BY <1>1 DEF Masks
  <1>9. own # "taskGroupSync" => w \cap (TASKGROUP_SYNC_MASK) = v \cap (TASKGROUP_SYNC_MASK)
    BY <1>1 DEF Masks
  <1>10. own # "taskwaited" => w \cap (TASKWAIT_SYNC_MASK) = v \cap (TASKWAIT_SYNC_MASK)
    BY <1>1 DEF Masks
  <1>11. own # "bit2" => w \cap (WORKSHARE_TYPE_MASK) = v \cap (WORKSHARE_TYPE_MASK)
    BY <1>1 DEF Masks
  <1>12. isPlaceHolder(w) = isSection(w) /\ isPlaceHolder(v) = isSection(v)
    BY OneBit
  <1> QED
    BY <1>2, <1>3, <1>4, <1>5, <1>6, <1>7, <1>8, <1>9, <1>10, <1>11, <1>12, Zenon
    DEF getType, getOffset, getSpan, getTaskwait, getPhase, getLoopCount, getTaskcreate,
        isTaskGroupSync, isTaskwaited, isSection, Load

\* A step from v to w that changes the bits of one field, and the fields from f
\* to g: only that field need be read anew.
LEMMA StepHolds ==
  ASSUME NEW v \in SUBSET Word64, NEW w \in SUBSET Word64, NEW own \in DOMAIN Masks,
         w \ Masks[own] = v \ Masks[own],
         NEW f, NEW g, ValueHolds(v, f), \A a \in DOMAIN Masks : a # own => g[a] = f[a],
         own = "type" => getType(w) = g.type,
         own = "offset" => getOffset(w) = g.offset \cap 0..15,
         own = "span" => getSpan(w) = g.span,
         own = "taskwait" => getTaskwait(w) = g.taskwait,
         own = "phase" => getPhase(w) = g.phase,
         own = "loopCount" => getLoopCount(w) = g.loopCount,
         own = "taskcreate" => getTaskcreate(w) = g.taskcreate,
         own = "taskGroupSync" => isTaskGroupSync(w) = g.taskGroupSync,
         own = "taskwaited" => isTaskwaited(w) = g.taskwaited,
         own = "bit2" => isSection(w) = g.bit2
  PROVE  ValueHolds(w, g)
  <1>1. isPlaceHolder(w) = isSection(w)
    BY OneBit
  <1>2. /\ own # "type" => g.type = f.type
        /\ own # "offset" => g.offset = f.offset
        /\ own # "span" => g.span = f.span
        /\ own # "taskwait" => g.taskwait = f.taskwait
        /\ own # "phase" => g.phase = f.phase
        /\ own # "loopCount" => g.loopCount = f.loopCount
        /\ own # "taskcreate" => g.taskcreate = f.taskcreate
        /\ own # "taskGroupSync" => g.taskGroupSync = f.taskGroupSync
        /\ own # "taskwaited" => g.taskwaited = f.taskwaited
        /\ own # "bit2" => g.bit2 = f.bit2
    BY DEF Masks
  <1> QED BY <1>1, <1>2, OthersKept, Zenon DEF ValueHolds

\* A number that is small enough fits.
LEMMA Fits ==
  ASSUME NEW n, NEW k \in Nat, Below(n, k)
  PROVE  n \cap 0..k-1 = n
  BY DEF Below

\* A setter of a number stores one field, the offset cut to 16 bits, and keeps the
\* others.
LEMMA NumbersHold ==
  ASSUME NEW v \in SUBSET Word64, NEW f \in FieldRecords, ValueHolds(v, f), NEW n \in SUBSET Nat
  PROVE  /\ Below(n, 4) =>
              ValueHolds(Store(v, Word64 \ TASKWAIT_MASK, TASKWAIT_SHIFT, n), [f EXCEPT !.taskwait = n])
         /\ Below(n, 4) => ValueHolds(Store(v, PHASE_MASK, PHASE_SHIFT, n), [f EXCEPT !.phase = n])
         /\ Below(n, 4) =>
              ValueHolds(Store(v, LOOP_CNT_MASK, LOOP_CNT_SHIFT, n), [f EXCEPT !.loopCount = n])
         /\ Below(n, 15) =>
              ValueHolds(Store(v, TASK_CREATE_MASK, TASK_CREATE_SHIFT, n), [f EXCEPT !.taskcreate = n])
         /\ Below(n, 16) => ValueHolds(Store(v, SPAN_MASK, SPAN_SHIFT, n), [f EXCEPT !.span = n])
         /\ ValueHolds(Store(v, OFFSET_MASK, OFFSET_SHIFT, n), [f EXCEPT !.offset = n])
  <1>1. ASSUME Below(n, 4) PROVE ValueHolds(Store(v, Word64 \ TASKWAIT_MASK, TASKWAIT_SHIFT, n), [f EXCEPT !.taskwait = n])
    <2> DEFINE w == Store(v, Word64 \ TASKWAIT_MASK, TASKWAIT_SHIFT, n)
               g == [f EXCEPT !.taskwait = n]
    <2>1. getTaskwait(w) = n
      <3>1. n \cap 0..3 = n
        BY <1>1, Fits
      <3> QED BY <3>1, OwnField, Zenon
    <2>2. "taskwait" \in DOMAIN Masks /\ Masks["taskwait"] = Word64 \ TASKWAIT_MASK
      BY DEF Masks
    <2>3. w \ (Word64 \ TASKWAIT_MASK) = v \ (Word64 \ TASKWAIT_MASK) /\ w \in SUBSET Word64
      BY StoreKeeps, StoreIsWord
    <2>4. g.taskwait = n /\ \A a \in DOMAIN Masks : a # "taskwait" => g[a] = f[a]
      BY DEF FieldRecords, Masks
    <2> HIDE DEF w, g
    <2>5. ValueHolds(w, g)
      BY <2>1, <2>2, <2>3, <2>4, StepHolds
    <2> QED BY <2>5 DEF w, g
  <1>2. ASSUME Below(n, 4) PROVE ValueHolds(Store(v, PHASE_MASK, PHASE_SHIFT, n), [f EXCEPT !.phase = n])
    <2> DEFINE w == Store(v, PHASE_MASK, PHASE_SHIFT, n)
               g == [f EXCEPT !.phase = n]
    <2>1. getPhase(w) = n
      <3>1. n \cap 0..3 = n
        BY <1>2, Fits
      <3> QED BY <3>1, OwnField, Zenon
    <2>2. "phase" \in DOMAIN Masks /\ Masks["phase"] = PHASE_MASK
      BY DEF Masks
    <2>3. w \ (PHASE_MASK) = v \ (PHASE_MASK) /\ w \in SUBSET Word64
      BY StoreKeeps, StoreIsWord
    <2>4. g.phase = n /\ \A a \in DOMAIN Masks : a # "phase" => g[a] = f[a]
      BY DEF FieldRecords, Masks
    <2> HIDE DEF w, g
    <2>5. ValueHolds(w, g)
      BY <2>1, <2>2, <2>3, <2>4, StepHolds
    <2> QED BY <2>5 DEF w, g
  <1>3. ASSUME Below(n, 4) PROVE ValueHolds(Store(v, LOOP_CNT_MASK, LOOP_CNT_SHIFT, n), [f EXCEPT !.loopCount = n])
    <2> DEFINE w == Store(v, LOOP_CNT_MASK, LOOP_CNT_SHIFT, n)
               g == [f EXCEPT !.loopCount = n]
    <2>1. getLoopCount(w) = n
      <3>1. n \cap 0..3 = n
        BY <1>3, Fits
      <3> QED BY <3>1, OwnField, Zenon
    <2>2. "loopCount" \in DOMAIN Masks /\ Masks["loopCount"] = LOOP_CNT_MASK
      BY DEF Masks
    <2>3. w \ (LOOP_CNT_MASK) = v \ (LOOP_CNT_MASK) /\ w \in SUBSET Word64
      BY StoreKeeps, StoreIsWord
    <2>4. g.loopCount = n /\ \A a \in DOMAIN Masks : a # "loopCount" => g[a] = f[a]
      BY DEF FieldRecords, Masks
    <2> HIDE DEF w, g
    <2>5. ValueHolds(w, g)
      BY <2>1, <2>2, <2>3, <2>4, StepHolds
    <2> QED BY <2>5 DEF w, g
  <1>4. ASSUME Below(n, 15) PROVE ValueHolds(Store(v, TASK_CREATE_MASK, TASK_CREATE_SHIFT, n), [f EXCEPT !.taskcreate = n])
    <2> DEFINE w == Store(v, TASK_CREATE_MASK, TASK_CREATE_SHIFT, n)
               g == [f EXCEPT !.taskcreate = n]
    <2>1. getTaskcreate(w) = n
      <3>1. n \cap 0..14 = n
        BY <1>4, Fits
      <3> QED BY <3>1, OwnField, Zenon
    <2>2. "taskcreate" \in DOMAIN Masks /\ Masks["taskcreate"] = TASK_CREATE_MASK
      BY DEF Masks
    <2>3. w \ (TASK_CREATE_MASK) = v \ (TASK_CREATE_MASK) /\ w \in SUBSET Word64
      BY StoreKeeps, StoreIsWord
    <2>4. g.taskcreate = n /\ \A a \in DOMAIN Masks : a # "taskcreate" => g[a] = f[a]
      BY DEF FieldRecords, Masks
    <2> HIDE DEF w, g
    <2>5. ValueHolds(w, g)
      BY <2>1, <2>2, <2>3, <2>4, StepHolds
    <2> QED BY <2>5 DEF w, g
  <1>5. ASSUME Below(n, 16) PROVE ValueHolds(Store(v, SPAN_MASK, SPAN_SHIFT, n), [f EXCEPT !.span = n])
    <2> DEFINE w == Store(v, SPAN_MASK, SPAN_SHIFT, n)
               g == [f EXCEPT !.span = n]
    <2>1. getSpan(w) = n
      <3>1. n \cap 0..15 = n
        BY <1>5, Fits
      <3> QED BY <3>1, OwnField, Zenon
    <2>2. "span" \in DOMAIN Masks /\ Masks["span"] = SPAN_MASK
      BY DEF Masks
    <2>3. w \ (SPAN_MASK) = v \ (SPAN_MASK) /\ w \in SUBSET Word64
      BY StoreKeeps, StoreIsWord
    <2>4. g.span = n /\ \A a \in DOMAIN Masks : a # "span" => g[a] = f[a]
      BY DEF FieldRecords, Masks
    <2> HIDE DEF w, g
    <2>5. ValueHolds(w, g)
      BY <2>1, <2>2, <2>3, <2>4, StepHolds
    <2> QED BY <2>5 DEF w, g
  <1>6. ValueHolds(Store(v, OFFSET_MASK, OFFSET_SHIFT, n), [f EXCEPT !.offset = n])
    <2> DEFINE w == Store(v, OFFSET_MASK, OFFSET_SHIFT, n)
               g == [f EXCEPT !.offset = n]
    <2>1. getOffset(w) = n \cap 0..15
      BY OwnField, Zenon
    <2>2. "offset" \in DOMAIN Masks /\ Masks["offset"] = OFFSET_MASK
      BY DEF Masks
    <2>3. w \ (OFFSET_MASK) = v \ (OFFSET_MASK) /\ w \in SUBSET Word64
      BY StoreKeeps, StoreIsWord
    <2>4. g.offset = n /\ \A a \in DOMAIN Masks : a # "offset" => g[a] = f[a]
      BY DEF FieldRecords, Masks
    <2> HIDE DEF w, g
    <2>5. ValueHolds(w, g)
      BY <2>1, <2>2, <2>3, <2>4, StepHolds
    <2> QED BY <2>5 DEF w, g
  <1> QED BY <1>1, <1>2, <1>3, <1>4, <1>5, <1>6

LEMMA OffsetSpanHolds ==
  ASSUME NEW v \in SUBSET Word64, NEW f \in FieldRecords, ValueHolds(v, f),
         NEW offset \in SUBSET Nat, NEW span \in SUBSET Nat, Below(span, 16)
  PROVE  ValueHolds(Store(Store(v, OFFSET_MASK, OFFSET_SHIFT, offset), SPAN_MASK, SPAN_SHIFT, span),
                    [f EXCEPT !.offset = offset, !.span = span])
  <1> DEFINE u == Store(v, OFFSET_MASK, OFFSET_SHIFT, offset)
             e == [f EXCEPT !.offset = offset]
  <1>1. ValueHolds(u, e)
    BY NumbersHold
  <1>2. u \in SUBSET Word64
    BY StoreIsWord
  <1>3. e \in FieldRecords /\ [e EXCEPT !.span = span] = [f EXCEPT !.offset = offset, !.span = span]
    BY DEF FieldRecords
  <1> HIDE DEF u, e
  <1>4. ValueHolds(Store(u, SPAN_MASK, SPAN_SHIFT, span), [e EXCEPT !.span = span])
    BY <1>1, <1>2, <1>3, NumbersHold
  <1> QED BY <1>3, <1>4 DEF u, e

\* The flags: a step that changes one bit changes one field.
LEMMA FlagsHold ==
  ASSUME NEW v \in SUBSET Word64, NEW f \in FieldRecords, ValueHolds(v, f)
  PROVE  /\ ValueHolds(v \cup TASKGROUP_SYNC_MASK, [f EXCEPT !.taskGroupSync = TRUE])
         /\ ValueHolds(v \cup TASKWAIT_SYNC_MASK, [f EXCEPT !.taskwaited = TRUE])
         /\ ValueHolds(v \cup WORKSHARE_TYPE_MASK, [f EXCEPT !.bit2 = TRUE])
         /\ ValueHolds(v \ WORKSHARE_TYPE_MASK, [f EXCEPT !.bit2 = FALSE])
  <1>1. ValueHolds(v \cup TASKGROUP_SYNC_MASK, [f EXCEPT !.taskGroupSync = TRUE])
    <2> DEFINE w == v \cup TASKGROUP_SYNC_MASK
               g == [f EXCEPT !.taskGroupSync = TRUE]
    <2>1. isTaskGroupSync(w) = TRUE
      BY DEF isTaskGroupSync, TASKGROUP_SYNC_MASK
    <2>2. "taskGroupSync" \in DOMAIN Masks /\ Masks["taskGroupSync"] = TASKGROUP_SYNC_MASK
      BY DEF Masks
    <2>3. w \ TASKGROUP_SYNC_MASK = v \ TASKGROUP_SYNC_MASK /\ w \in SUBSET Word64
      BY DEF TASKGROUP_SYNC_MASK, Word64
    <2>4. g.taskGroupSync = TRUE /\ \A a \in DOMAIN Masks : a # "taskGroupSync" => g[a] = f[a]
      BY DEF FieldRecords, Masks
    <2> HIDE DEF w, g
    <2>5. isTaskGroupSync(w) = g.taskGroupSync
      BY <2>1, <2>4
    <2>6. ValueHolds(w, g)
      BY <2>2, <2>3, <2>4, <2>5, StepHolds
    <2> QED BY <2>6 DEF w, g
  <1>2. ValueHolds(v \cup TASKWAIT_SYNC_MASK, [f EXCEPT !.taskwaited = TRUE])
    <2> DEFINE w == v \cup TASKWAIT_SYNC_MASK
               g == [f EXCEPT !.taskwaited = TRUE]
    <2>1. isTaskwaited(w) = TRUE
      BY DEF isTaskwaited, TASKWAIT_SYNC_MASK
    <2>2. "taskwaited" \in DOMAIN Masks /\ Masks["taskwaited"] = TASKWAIT_SYNC_MASK
      BY DEF Masks
    <2>3. w \ TASKWAIT_SYNC_MASK = v \ TASKWAIT_SYNC_MASK /\ w \in SUBSET Word64
      BY DEF TASKWAIT_SYNC_MASK, Word64
    <2>4. g.taskwaited = TRUE /\ \A a \in DOMAIN Masks : a # "taskwaited" => g[a] = f[a]
      BY DEF FieldRecords, Masks
    <2> HIDE DEF w, g
    <2>5. isTaskwaited(w) = g.taskwaited
      BY <2>1, <2>4
    <2>6. ValueHolds(w, g)
      BY <2>2, <2>3, <2>4, <2>5, StepHolds
    <2> QED BY <2>6 DEF w, g
  <1>3. ValueHolds(v \cup WORKSHARE_TYPE_MASK, [f EXCEPT !.bit2 = TRUE])
    <2> DEFINE w == v \cup WORKSHARE_TYPE_MASK
               g == [f EXCEPT !.bit2 = TRUE]
    <2>1. isSection(w) = TRUE
      BY DEF isSection, WORKSHARE_TYPE_MASK
    <2>2. "bit2" \in DOMAIN Masks /\ Masks["bit2"] = WORKSHARE_TYPE_MASK
      BY DEF Masks
    <2>3. w \ WORKSHARE_TYPE_MASK = v \ WORKSHARE_TYPE_MASK /\ w \in SUBSET Word64
      BY DEF WORKSHARE_TYPE_MASK, Word64
    <2>4. g.bit2 = TRUE /\ \A a \in DOMAIN Masks : a # "bit2" => g[a] = f[a]
      BY DEF FieldRecords, Masks
    <2> HIDE DEF w, g
    <2>5. isSection(w) = g.bit2
      BY <2>1, <2>4
    <2>6. ValueHolds(w, g)
      BY <2>2, <2>3, <2>4, <2>5, StepHolds
    <2> QED BY <2>6 DEF w, g
  <1>4. ValueHolds(v \ WORKSHARE_TYPE_MASK, [f EXCEPT !.bit2 = FALSE])
    <2> DEFINE w == v \ WORKSHARE_TYPE_MASK
               g == [f EXCEPT !.bit2 = FALSE]
    <2>1. isSection(w) = FALSE
      BY DEF isSection, WORKSHARE_TYPE_MASK
    <2>2. "bit2" \in DOMAIN Masks /\ Masks["bit2"] = WORKSHARE_TYPE_MASK
      BY DEF Masks
    <2>3. w \ WORKSHARE_TYPE_MASK = v \ WORKSHARE_TYPE_MASK /\ w \in SUBSET Word64
      BY DEF WORKSHARE_TYPE_MASK, Word64
    <2>4. g.bit2 = FALSE /\ \A a \in DOMAIN Masks : a # "bit2" => g[a] = f[a]
      BY DEF FieldRecords, Masks
    <2> HIDE DEF w, g
    <2>5. isSection(w) = g.bit2
      BY <2>1, <2>4
    <2>6. ValueHolds(w, g)
      BY <2>2, <2>3, <2>4, <2>5, StepHolds
    <2> QED BY <2>6 DEF w, g
  <1> QED BY <1>1, <1>2, <1>3, <1>4

\* The bits of a single: the flags, and the number next to them.
LEMMA SingleBits ==
  ASSUME NEW id \in SUBSET Word64
  PROVE  /\ isSingleExecutor(id) = (63 \in id)
         /\ isSingleOther(id) = (62 \in id /\ 63 \notin id)
  <1>1. /\ SINGLE_MASK = {62, 63} /\ {62, 63} \subseteq Word64
    BY DEF SINGLE_MASK, Word64
  <1>2. ShiftRight(id \cap {62, 63}, 63) = {b - 63 : b \in id \cap {63}}
    BY DEF ShiftRight
  <1>3. ShiftRight(id \cap {62, 63}, 62) = {b - 62 : b \in id \cap {62, 63}}
    BY DEF ShiftRight
  <1>4. isSingleExecutor(id) = (63 \in id)
    <2>1. CASE 63 \in id
      BY <1>1, <1>2, <2>1 DEF isSingleExecutor
    <2>2. CASE 63 \notin id
      BY <1>1, <1>2, <2>2 DEF isSingleExecutor
    <2> QED BY <2>1, <2>2
  <1>5. isSingleOther(id) = (62 \in id /\ 63 \notin id)
    <2>1. CASE 63 \in id
      <3>1. 1 \in {b - 62 : b \in id \cap {62, 63}}
        BY <2>1
      <3> QED BY <1>1, <1>3, <2>1, <3>1 DEF isSingleOther
    <2>2. CASE 63 \notin id /\ 62 \in id
      BY <1>1, <1>3, <2>2 DEF isSingleOther
    <2>3. CASE 63 \notin id /\ 62 \notin id
      BY <1>1, <1>3, <2>3 DEF isSingleOther
    <2> QED BY <2>1, <2>2, <2>3
  <1> QED BY <1>4, <1>5

-----------------------------------------------------------------------------
(* The invariant                                                           *)

\* A word with its fields, a work share number with its own; a single is never
\* both executor and other.
SegmentOK(v, id, f) ==
  /\ v \in SUBSET Word64 /\ id \in SUBSET Word64 /\ f \in FieldRecords
  /\ ValueHolds(v, f)
  /\ IdHolds(id, f)
  /\ 62 \notin id \/ 63 \notin id
  /\ f.type # eWorkShare => f.id = {} /\ f.single = NoSingle

SegmentInv == /\ SegmentTypeOK
              /\ SegmentOK(value, workShareId, stored)
              /\ clone \in (SUBSET Word64) \X (SUBSET Word64)
              /\ SegmentOK(clone[1], clone[2], before)
              /\ getTaskGroupId(taskGroup) = stored.taskGroupId
              /\ getTaskGroupLevel(taskGroup) = stored.taskGroupLevel

\* No iteration or section has a number that reaches the bits of a single.
IdsFit == \A id \in Ids : id \cap SINGLE_MASK = {}

\* Records that agree on the fields of _value
LEMMA SameFields ==
  ASSUME NEW v, NEW f, NEW g, ValueHolds(v, f),
         g.type = f.type, g.offset = f.offset, g.span = f.span, g.taskwait = f.taskwait,
         g.phase = f.phase, g.loopCount = f.loopCount, g.taskcreate = f.taskcreate,
         g.taskGroupSync = f.taskGroupSync, g.taskwaited = f.taskwaited, g.bit2 = f.bit2
  PROVE  ValueHolds(v, g)
  BY DEF ValueHolds

\* A word with nothing but a type
LEMMA TypeHolds ==
  ASSUME NEW type \in {eImplicit, eExplicit, eWorkShare}, NEW id \in SUBSET Word64
  PROVE  /\ type \in SUBSET Word64
         /\ Fields(type, {}, {}, id, FALSE) \in FieldRecords
         /\ ValueHolds(type, Fields(type, {}, {}, id, FALSE))
  <1> DEFINE f == Fields(type, {}, {}, id, FALSE)
             e == [f EXCEPT !.type = {}]
  <1>1. type \in SUBSET Word64 /\ type \cap SEG_TYPE_MASK = type /\ type \ SEG_TYPE_MASK = {}
    BY DEF eImplicit, eExplicit, eWorkShare, Word64, SEG_TYPE_MASK
  <1>2. f \in FieldRecords
    BY DEF Fields, FieldRecords, NoSingle
  <1>3. ValueHolds({}, e)
    <2>1. \A shift : ShiftRight({}, shift) = {}
      BY DEF ShiftRight
    <2>2. isPlaceHolder({}) = FALSE
      <3>1. {} \in SUBSET Word64 /\ (2 \in {}) = FALSE
        OBVIOUS
      <3> QED BY <3>1, OneBit
    <2> QED
      BY <2>1, <2>2 DEF ValueHolds, Fields, getType, getOffset, getSpan, getTaskwait, getPhase,
         getLoopCount, getTaskcreate, isTaskGroupSync, isTaskwaited, isSection, Load
  <1>4. "type" \in DOMAIN Masks /\ Masks["type"] = SEG_TYPE_MASK
    BY DEF Masks
  <1>5. f.type = type /\ \A a \in DOMAIN Masks : a # "type" => f[a] = e[a]
    BY DEF Fields, Masks
  <1>6. getType(type) = f.type
    BY <1>1, <1>5 DEF getType
  <1> HIDE DEF f, e
  <1>7. ValueHolds(type, f)
    BY <1>1, <1>3, <1>4, <1>5, <1>6, StepHolds
  <1> QED BY <1>1, <1>2, <1>7 DEF f

LEMMA BaseHolds ==
  ASSUME NEW type \in {eImplicit, eExplicit}, NEW offset \in SUBSET Nat, NEW span \in SUBSET Nat,
         Below(span, 16)
  PROVE  SegmentOK(BaseValue(type, offset, span), {}, Fields(type, offset, span, {}, FALSE))
  <1> DEFINE f == Fields(type, {}, {}, {}, FALSE)
             e == [f EXCEPT !.offset = offset, !.span = span]
             g == Fields(type, offset, span, {}, FALSE)
  <1>1. type \in SUBSET Word64 /\ f \in FieldRecords /\ ValueHolds(type, f)
    BY TypeHolds
  <1>2. /\ e.type = g.type /\ e.offset = g.offset /\ e.span = g.span /\ e.taskwait = g.taskwait
        /\ e.phase = g.phase /\ e.loopCount = g.loopCount /\ e.taskcreate = g.taskcreate
        /\ e.taskGroupSync = g.taskGroupSync /\ e.taskwaited = g.taskwaited /\ e.bit2 = g.bit2
    BY DEF Fields
  <1>3. ValueHolds(BaseValue(type, offset, span), g)
    <2>1. ValueHolds(BaseValue(type, offset, span), e)
      BY <1>1, OffsetSpanHolds DEF BaseValue
    <2> HIDE DEF e, g
    <2> QED BY <1>2, <2>1, SameFields
  <1>4. BaseValue(type, offset, span) \in SUBSET Word64
    BY <1>1, StoreIsWord DEF BaseValue
  <1>5. Fields(type, offset, span, {}, FALSE) \in FieldRecords
    BY DEF Fields, FieldRecords, NoSingle
  <1>6. IdHolds({}, Fields(type, offset, span, {}, FALSE))
    BY SingleBits DEF IdHolds, Fields, NoSingle
  <1>7. Fields(type, offset, span, {}, FALSE).single = NoSingle /\ Fields(type, offset, span, {}, FALSE).id = {}
    BY DEF Fields
  <1> QED BY <1>3, <1>4, <1>5, <1>6, <1>7 DEF SegmentOK

LEMMA WorkShareHolds ==
  ASSUME NEW id \in SUBSET Word64, id \cap SINGLE_MASK = {}, NEW section \in BOOLEAN
  PROVE  SegmentOK(BaseValue(eWorkShare \cup (IF section THEN WORKSHARE_TYPE_MASK ELSE {}), {}, {0}),
                   id, Fields(eWorkShare, {}, {0}, id, section))
  <1> DEFINE f == Fields(eWorkShare, {}, {}, id, FALSE)
             h == Fields(eWorkShare, {}, {}, id, section)
             g == Fields(eWorkShare, {}, {0}, id, section)
             v == eWorkShare \cup (IF section THEN WORKSHARE_TYPE_MASK ELSE {})
  <1>1. eWorkShare \in SUBSET Word64 /\ f \in FieldRecords /\ ValueHolds(eWorkShare, f)
    BY TypeHolds
  <1>2. h \in FieldRecords /\ g \in FieldRecords
    BY DEF Fields, FieldRecords, NoSingle, Word64
  <1>3. v \in SUBSET Word64
    BY <1>1 DEF WORKSHARE_TYPE_MASK, Word64
  <1>4. ValueHolds(v, h)
    <2>1. CASE section
      <3> DEFINE e == [f EXCEPT !.bit2 = TRUE]
      <3>1. /\ e.type = h.type /\ e.offset = h.offset /\ e.span = h.span /\ e.taskwait = h.taskwait
            /\ e.phase = h.phase /\ e.loopCount = h.loopCount /\ e.taskcreate = h.taskcreate
            /\ e.taskGroupSync = h.taskGroupSync /\ e.taskwaited = h.taskwaited /\ e.bit2 = h.bit2
        BY <2>1 DEF Fields
      <3>2. ValueHolds(v, e)
        BY <1>1, <2>1, FlagsHold
      <3> HIDE DEF e, h, v
      <3> QED BY <3>1, <3>2, SameFields
    <2>2. CASE ~section
      BY <1>1, <2>2
    <2> QED BY <2>1, <2>2
  <1> DEFINE e == [h EXCEPT !.offset = {}, !.span = {0}]
  <1>5. /\ e.type = g.type /\ e.offset = g.offset /\ e.span = g.span /\ e.taskwait = g.taskwait
        /\ e.phase = g.phase /\ e.loopCount = g.loopCount /\ e.taskcreate = g.taskcreate
        /\ e.taskGroupSync = g.taskGroupSync /\ e.taskwaited = g.taskwaited /\ e.bit2 = g.bit2
    BY DEF Fields
  <1>6. g.type = eWorkShare /\ g.id = id /\ g.single = NoSingle
    BY DEF Fields
  <1> HIDE DEF v, h, g
  <1>7. ValueHolds(BaseValue(v, {}, {0}), g)
    <2>1. Below({0}, 16) /\ {0} \in SUBSET Nat
      BY DEF Below
    <2>2. ValueHolds(BaseValue(v, {}, {0}), e)
      BY <1>2, <1>3, <1>4, <2>1, OffsetSpanHolds DEF BaseValue
    <2> HIDE DEF e
    <2> QED BY <1>5, <2>2, SameFields
  <1>8. BaseValue(v, {}, {0}) \in SUBSET Word64
    BY <1>3, StoreIsWord DEF BaseValue
  <1>9. 62 \notin id /\ 63 \notin id /\ id \ SINGLE_MASK = id
    BY DEF SINGLE_MASK
  <1>10. IdHolds(id, g)
    BY <1>6, <1>9, SingleBits DEF IdHolds, NoSingle
  <1>11. SegmentOK(BaseValue(v, {}, {0}), id, g)
    BY <1>2, <1>6, <1>7, <1>8, <1>9, <1>10 DEF SegmentOK
  <1> QED BY <1>11 DEF v, g

LEMMA InitSegmentInv == ASSUME IdsFit PROVE SegmentInit => SegmentInv
  <1> SUFFICES ASSUME SegmentInit PROVE SegmentInv
    OBVIOUS
  <1>1. SegmentOK(value, workShareId, stored) /\ stored.taskGroupId = {} /\ stored.taskGroupLevel = {}
    <2>1. CASE \E type \in {eImplicit, eExplicit}, offset \in Numbers, span \in Numbers :
                 BaseSegment(type, offset, span)
      <3>1. PICK type \in {eImplicit, eExplicit}, offset \in Numbers, span \in Numbers :
              BaseSegment(type, offset, span)
        BY <2>1
      <3>2. offset \in SUBSET Nat /\ span \in SUBSET Nat
        BY NumbersAssumption
      <3>3. SegmentOK(value, workShareId, stored)
        BY <3>1, <3>2, BaseHolds DEF BaseSegment
      <3> QED BY <3>1, <3>3 DEF BaseSegment, Fields
    <2>2. CASE \E id \in Ids, section \in BOOLEAN : WorkShareSegment(id, section)
      <3>1. PICK id \in Ids, section \in BOOLEAN : WorkShareSegment(id, section)
        BY <2>2
      <3>2. id \in SUBSET Word64 /\ id \cap SINGLE_MASK = {}
        BY IdsAssumption DEF IdsFit, Word64
      <3>3. SegmentOK(value, workShareId, stored)
        BY <3>1, <3>2, WorkShareHolds DEF WorkShareSegment
      <3> QED BY <3>1, <3>3 DEF WorkShareSegment, Fields
    <2> QED BY <2>1, <2>2 DEF SegmentInit
  <1>2. /\ taskGroup = {} /\ orderSecVal = {} /\ clone = <<value, workShareId>> /\ before = stored
        /\ calls \in 0..MaxCalls
    BY MaxCallsAssumption DEF SegmentInit
  <1>3. getTaskGroupId({}) = {} /\ getTaskGroupLevel({}) = {}
    BY DEF getTaskGroupId, getTaskGroupLevel, ShiftRight
  <1>4. SegmentTypeOK
    BY <1>1, <1>2 DEF SegmentTypeOK, SegmentOK
  <1> QED BY <1>1, <1>2, <1>3, <1>4 DEF SegmentInv, SegmentOK

\* A step of SetValue keeps all but ValueHolds.
LEMMA SetValueStep ==
  ASSUME SegmentInv, NEW w \in SUBSET Word64, NEW g \in FieldRecords, SetValue(w, g), ValueHolds(w, g),
         g.type = stored.type, g.id = stored.id, g.single = stored.single,
         g.taskGroupId = stored.taskGroupId, g.taskGroupLevel = stored.taskGroupLevel
  PROVE  SegmentInv'
  <1>1. /\ value' = w /\ stored' = g
        /\ UNCHANGED <<taskGroup, orderSecVal, workShareId, clone, before>>
        /\ calls < MaxCalls /\ calls' = calls + 1
    BY DEF SetValue, Call
  <1>2. SegmentOK(w, workShareId, g)
    BY DEF SegmentInv, SegmentOK, IdHolds
  <1>3. SegmentTypeOK'
    BY <1>1, MaxCallsAssumption DEF SegmentInv, SegmentTypeOK
  <1> QED BY <1>1, <1>2, <1>3 DEF SegmentInv

\* The two halves of the taskgroup's word
LEMMA TaskGroupHalves ==
  ASSUME NEW tg \in SUBSET Word32, NEW n \in SUBSET Nat, Below(n, 16)
  PROVE  /\ \A w : w = (tg \ TASKGROUP_ID_MASK) \cup (ShiftLeft(n, 16) \cap TASKGROUP_ID_MASK) =>
                 /\ w \in SUBSET Word32
                 /\ getTaskGroupId(w) = n /\ getTaskGroupLevel(w) = getTaskGroupLevel(tg)
         /\ \A w : w = (tg \ TASKGROUP_LEVEL_MASK) \cup (n \cap TASKGROUP_LEVEL_MASK) =>
                 /\ w \in SUBSET Word32
                 /\ getTaskGroupLevel(w) = n /\ getTaskGroupId(w) = getTaskGroupId(tg)
  <1> DEFINE withId == (tg \ TASKGROUP_ID_MASK) \cup (ShiftLeft(n, 16) \cap TASKGROUP_ID_MASK)
             withLevel == (tg \ TASKGROUP_LEVEL_MASK) \cup (n \cap TASKGROUP_LEVEL_MASK)
  <1>1. \A b \in n : b \in Nat /\ b <= 15
    BY DEF Below
  <1>2. withId \in SUBSET Word32 /\ withLevel \in SUBSET Word32
    <2>1. TASKGROUP_ID_MASK \subseteq Word32 /\ TASKGROUP_LEVEL_MASK \subseteq Word32
      BY DEF Word32, TASKGROUP_ID_MASK, TASKGROUP_LEVEL_MASK
    <2> QED BY <2>1, Zenon
  <1>3. getTaskGroupLevel(withId) = getTaskGroupLevel(tg)
    BY DEF getTaskGroupLevel, TASKGROUP_ID_MASK, TASKGROUP_LEVEL_MASK
  <1>4. getTaskGroupLevel(withLevel) = n
    <2>1. n \subseteq TASKGROUP_LEVEL_MASK
      BY <1>1 DEF TASKGROUP_LEVEL_MASK
    <2> QED BY <2>1, Zenon DEF getTaskGroupLevel
  <1>5. getTaskGroupId(withId) = n
    <2>1. withId = (tg \ 16..31) \cup {b + 16 : b \in n}
      BY <1>1 DEF ShiftLeft, Word64, TASKGROUP_ID_MASK
    <2>2. ASSUME NEW x \in n PROVE x \in getTaskGroupId(withId)
      <3>1. x + 16 \in {c \in withId : c >= 16} /\ (x + 16) - 16 = x /\ x \in 0..15
        BY <1>1, <2>1
      <3> QED BY <3>1 DEF getTaskGroupId, ShiftRight
    <2>3. ASSUME NEW x \in getTaskGroupId(withId) PROVE x \in n
      <3>1. PICK c \in withId : c >= 16 /\ x = c - 16 /\ x \in 0..15
        BY DEF getTaskGroupId, ShiftRight
      <3>2. c \in {b + 16 : b \in n}
        BY <2>1, <3>1 DEF Word32
      <3> QED BY <1>1, <3>1, <3>2
    <2> QED BY <2>2, <2>3
  <1>6. getTaskGroupId(withLevel) = getTaskGroupId(tg)
    <2>1. {c \in withLevel : c >= 16} = {c \in tg : c >= 16}
      BY <1>1 DEF TASKGROUP_LEVEL_MASK, Word32
    <2> QED BY <2>1 DEF getTaskGroupId, ShiftRight
  <1> HIDE DEF withId, withLevel
  <1>7. /\ withId \in SUBSET Word32 /\ withLevel \in SUBSET Word32
        /\ getTaskGroupId(withId) = n /\ getTaskGroupLevel(withId) = getTaskGroupLevel(tg)
        /\ getTaskGroupLevel(withLevel) = n /\ getTaskGroupId(withLevel) = getTaskGroupId(tg)
    BY <1>2, <1>3, <1>4, <1>5, <1>6
  <1> QED BY <1>7 DEF withId, withLevel

\* Setting the level, by itself
LEMMA LevelHalf ==
  ASSUME NEW tg \in SUBSET Word32, NEW n \in SUBSET Nat, Below(n, 16)
  PROVE  \A w : w = (tg \ TASKGROUP_LEVEL_MASK) \cup (n \cap TASKGROUP_LEVEL_MASK) =>
           /\ w \in SUBSET Word32
           /\ getTaskGroupId(w) = getTaskGroupId(tg)
           /\ getTaskGroupLevel(w) = n
  BY TaskGroupHalves

\* A step that changes neither _value nor _workShareId
LEMMA OtherWordsStep ==
  ASSUME SegmentInv, NEW g \in FieldRecords, stored' = g, UNCHANGED <<value, workShareId>>, Call,
         \A a \in DOMAIN Masks : g[a] = stored[a], g.id = stored.id, g.single = stored.single,
         taskGroup' \in SUBSET Word32, orderSecVal' \in SUBSET Word32,
         getTaskGroupId(taskGroup') = g.taskGroupId, getTaskGroupLevel(taskGroup') = g.taskGroupLevel
  PROVE  SegmentInv'
  <1>1. /\ g.type = stored.type /\ g.offset = stored.offset /\ g.span = stored.span
        /\ g.taskwait = stored.taskwait /\ g.phase = stored.phase
        /\ g.loopCount = stored.loopCount /\ g.taskcreate = stored.taskcreate
        /\ g.taskGroupSync = stored.taskGroupSync /\ g.taskwaited = stored.taskwaited
        /\ g.bit2 = stored.bit2
    BY DEF Masks
  <1>2. ValueHolds(value, g)
    BY <1>1, SameFields DEF SegmentInv, SegmentOK
  <1>3. SegmentOK(value, workShareId, g)
    BY <1>1, <1>2 DEF SegmentInv, SegmentOK, IdHolds
  <1>4. UNCHANGED <<clone, before>> /\ calls < MaxCalls /\ calls' = calls + 1
    BY DEF Call
  <1>5. SegmentTypeOK'
    BY <1>4, MaxCallsAssumption DEF SegmentInv, SegmentTypeOK
  <1> QED BY <1>3, <1>4, <1>5 DEF SegmentInv

\* Every step keeps the invariant.
LEMMA NextSegmentInv == SegmentInv /\ [SegmentNext]_segmentVars => SegmentInv'
  <1> SUFFICES ASSUME SegmentInv, [SegmentNext]_segmentVars PROVE SegmentInv'
    OBVIOUS
  <1> stored \in FieldRecords /\ ValueHolds(value, stored) /\ value \in SUBSET Word64
    BY DEF SegmentInv, SegmentOK
  <1> \A n \in Numbers : n \in SUBSET Nat
    BY NumbersAssumption
  <1>1. ASSUME NEW offset \in Numbers, NEW span \in Numbers, Below(span, 16), setOffsetSpan(offset, span) PROVE SegmentInv'
    <2> DEFINE w == Store(Store(value, OFFSET_MASK, OFFSET_SHIFT, offset), SPAN_MASK, SPAN_SHIFT, span)
               g == [stored EXCEPT !.offset = offset, !.span = span]
    <2>1. SetValue(w, g)
      BY <1>1 DEF setOffsetSpan
    <2>2. w \in SUBSET Word64
      BY StoreIsWord DEF Word64
    <2>3. ValueHolds(w, g)
      BY <1>1, OffsetSpanHolds
    <2>4. /\ g \in FieldRecords /\ g.type = stored.type /\ g.id = stored.id /\ g.single = stored.single
          /\ g.taskGroupId = stored.taskGroupId /\ g.taskGroupLevel = stored.taskGroupLevel
      BY DEF FieldRecords
    <2> HIDE DEF w, g
    <2> QED BY <2>1, <2>2, <2>3, <2>4, SetValueStep
  <1>2. ASSUME NEW n \in Numbers, setTaskwait(n) PROVE SegmentInv'
    <2> DEFINE w == Store(value, Word64 \ TASKWAIT_MASK, TASKWAIT_SHIFT, n)
               g == [stored EXCEPT !.taskwait = n]
    <2>1. SetValue(w, g)
      BY <1>2 DEF setTaskwait
    <2>2. w \in SUBSET Word64
      BY StoreIsWord DEF Word64
    <2>3. ValueHolds(w, g)
      BY <1>2, NumbersHold DEF setTaskwait
    <2>4. /\ g \in FieldRecords /\ g.type = stored.type /\ g.id = stored.id /\ g.single = stored.single
          /\ g.taskGroupId = stored.taskGroupId /\ g.taskGroupLevel = stored.taskGroupLevel
      BY DEF FieldRecords
    <2> HIDE DEF w, g
    <2> QED BY <2>1, <2>2, <2>3, <2>4, SetValueStep
  <1>3. ASSUME NEW n \in Numbers, setPhase(n) PROVE SegmentInv'
    <2> DEFINE w == Store(value, PHASE_MASK, PHASE_SHIFT, n)
               g == [stored EXCEPT !.phase = n]
    <2>1. SetValue(w, g)
      BY <1>3 DEF setPhase
    <2>2. w \in SUBSET Word64
      BY StoreIsWord DEF Word64
    <2>3. ValueHolds(w, g)
      BY <1>3, NumbersHold DEF setPhase
    <2>4. /\ g \in FieldRecords /\ g.type = stored.type /\ g.id = stored.id /\ g.single = stored.single
          /\ g.taskGroupId = stored.taskGroupId /\ g.taskGroupLevel = stored.taskGroupLevel
      BY DEF FieldRecords
    <2> HIDE DEF w, g
    <2> QED BY <2>1, <2>2, <2>3, <2>4, SetValueStep
  <1>4. ASSUME NEW n \in Numbers, setLoopCount(n) PROVE SegmentInv'
    <2> DEFINE w == Store(value, LOOP_CNT_MASK, LOOP_CNT_SHIFT, n)
               g == [stored EXCEPT !.loopCount = n]
    <2>1. SetValue(w, g)
      BY <1>4 DEF setLoopCount
    <2>2. w \in SUBSET Word64
      BY StoreIsWord DEF Word64
    <2>3. ValueHolds(w, g)
      BY <1>4, NumbersHold DEF setLoopCount
    <2>4. /\ g \in FieldRecords /\ g.type = stored.type /\ g.id = stored.id /\ g.single = stored.single
          /\ g.taskGroupId = stored.taskGroupId /\ g.taskGroupLevel = stored.taskGroupLevel
      BY DEF FieldRecords
    <2> HIDE DEF w, g
    <2> QED BY <2>1, <2>2, <2>3, <2>4, SetValueStep
  <1>5. ASSUME NEW n \in Numbers, setTaskcreate(n) PROVE SegmentInv'
    <2> DEFINE w == Store(value, TASK_CREATE_MASK, TASK_CREATE_SHIFT, n)
               g == [stored EXCEPT !.taskcreate = n]
    <2>1. SetValue(w, g)
      BY <1>5 DEF setTaskcreate
    <2>2. w \in SUBSET Word64
      BY StoreIsWord DEF Word64
    <2>3. ValueHolds(w, g)
      BY <1>5, NumbersHold DEF setTaskcreate
    <2>4. /\ g \in FieldRecords /\ g.type = stored.type /\ g.id = stored.id /\ g.single = stored.single
          /\ g.taskGroupId = stored.taskGroupId /\ g.taskGroupLevel = stored.taskGroupLevel
      BY DEF FieldRecords
    <2> HIDE DEF w, g
    <2> QED BY <2>1, <2>2, <2>3, <2>4, SetValueStep
  <1>6. ASSUME setTaskGroupSync PROVE SegmentInv'
    <2> DEFINE w == value \cup TASKGROUP_SYNC_MASK
               g == [stored EXCEPT !.taskGroupSync = TRUE]
    <2>1. SetValue(w, g)
      BY <1>6 DEF setTaskGroupSync
    <2>2. w \in SUBSET Word64
      BY DEF TASKGROUP_SYNC_MASK, Word64
    <2>3. ValueHolds(w, g)
      BY <1>6, FlagsHold DEF setTaskGroupSync
    <2>4. /\ g \in FieldRecords /\ g.type = stored.type /\ g.id = stored.id /\ g.single = stored.single
          /\ g.taskGroupId = stored.taskGroupId /\ g.taskGroupLevel = stored.taskGroupLevel
      BY DEF FieldRecords
    <2> HIDE DEF w, g
    <2> QED BY <2>1, <2>2, <2>3, <2>4, SetValueStep
  <1>7. ASSUME setTaskwaited PROVE SegmentInv'
    <2> DEFINE w == value \cup TASKWAIT_SYNC_MASK
               g == [stored EXCEPT !.taskwaited = TRUE]
    <2>1. SetValue(w, g)
      BY <1>7 DEF setTaskwaited
    <2>2. w \in SUBSET Word64
      BY DEF TASKWAIT_SYNC_MASK, Word64
    <2>3. ValueHolds(w, g)
      BY <1>7, FlagsHold DEF setTaskwaited
    <2>4. /\ g \in FieldRecords /\ g.type = stored.type /\ g.id = stored.id /\ g.single = stored.single
          /\ g.taskGroupId = stored.taskGroupId /\ g.taskGroupLevel = stored.taskGroupLevel
      BY DEF FieldRecords
    <2> HIDE DEF w, g
    <2> QED BY <2>1, <2>2, <2>3, <2>4, SetValueStep
  <1>8. ASSUME NEW flag \in BOOLEAN, setPlaceHolderFlag(flag) \/ setWorkShareType(flag) PROVE SegmentInv'
    <2> DEFINE w == IF flag THEN value \cup WORKSHARE_TYPE_MASK ELSE value \ WORKSHARE_TYPE_MASK
               g == [stored EXCEPT !.bit2 = flag]
    <2>1. SetValue(w, g)
      <3>1. /\ value \cup WORKSHARE_TYPE_MASK = value \cup {2}
            /\ value \ WORKSHARE_TYPE_MASK = value \cap WS_PLACE_HOLDER_MASK
            /\ value \cup WORKSHARE_TYPE_MASK = (value \ WORKSHARE_TYPE_MASK) \cup WORKSHARE_TYPE_MASK
            /\ value \ WORKSHARE_TYPE_MASK = (value \ WORKSHARE_TYPE_MASK) \cup {}
        BY DEF WORKSHARE_TYPE_MASK, WS_PLACE_HOLDER_MASK
      <3>2. CASE flag
        BY <1>8, <3>1, <3>2 DEF setPlaceHolderFlag, setWorkShareType
      <3>3. CASE ~flag
        BY <1>8, <3>1, <3>3 DEF setPlaceHolderFlag, setWorkShareType
      <3> QED BY <3>2, <3>3
    <2>2. w \in SUBSET Word64
      BY DEF WORKSHARE_TYPE_MASK, Word64
    <2>3. ValueHolds(w, g)
      <3>1. CASE flag = TRUE
        BY <3>1, FlagsHold
      <3>2. CASE flag = FALSE
        BY <3>2, FlagsHold
      <3> QED BY <1>8, <3>1, <3>2
    <2>4. /\ g \in FieldRecords /\ g.type = stored.type /\ g.id = stored.id /\ g.single = stored.single
          /\ g.taskGroupId = stored.taskGroupId /\ g.taskGroupLevel = stored.taskGroupLevel
      BY <1>8 DEF FieldRecords
    <2> HIDE DEF w, g
    <2> QED BY <2>1, <2>2, <2>3, <2>4, SetValueStep
  <1>9. ASSUME NEW executor \in BOOLEAN, setSingleFlag(executor) PROVE SegmentInv'
    <2> DEFINE i == (workShareId \ SINGLE_MASK) \cup (IF executor THEN {63} ELSE {62})
               g == [stored EXCEPT !.single = IF executor THEN "executor" ELSE "other"]
    <2>1. /\ workShareId' = i /\ stored' = g
          /\ UNCHANGED <<value, taskGroup, orderSecVal, clone, before>>
          /\ calls < MaxCalls /\ calls' = calls + 1
          /\ stored.type = eWorkShare
      BY <1>9 DEF setSingleFlag, Call, IsWorkShare, ValueHolds
    <2>2. /\ i \in SUBSET Word64 /\ workShareId \in SUBSET Word64
          /\ i \ SINGLE_MASK = workShareId \ SINGLE_MASK
          /\ (63 \in i) = executor /\ (62 \in i) = ~executor
      BY <1>9 DEF SegmentInv, SegmentOK, SINGLE_MASK, Word64
    <2>3. /\ g \in FieldRecords /\ g.type = eWorkShare /\ g.id = stored.id
          /\ (g.single = "executor") = executor /\ (g.single = "other") = ~executor
          /\ g.taskGroupId = stored.taskGroupId /\ g.taskGroupLevel = stored.taskGroupLevel
      BY <1>9, <2>1 DEF FieldRecords
    <2>4. ValueHolds(value, g)
      <3>1. /\ g.type = stored.type /\ g.offset = stored.offset /\ g.span = stored.span
            /\ g.taskwait = stored.taskwait /\ g.phase = stored.phase
            /\ g.loopCount = stored.loopCount /\ g.taskcreate = stored.taskcreate
            /\ g.taskGroupSync = stored.taskGroupSync /\ g.taskwaited = stored.taskwaited
            /\ g.bit2 = stored.bit2
        BY DEF FieldRecords
      <3> HIDE DEF g
      <3> QED BY <3>1, SameFields
    <2> HIDE DEF i, g
    <2>5. IdHolds(i, g)
      BY <2>2, <2>3, SingleBits DEF IdHolds, SegmentInv, SegmentOK
    <2>6. SegmentOK(value, i, g)
      BY <2>2, <2>3, <2>4, <2>5 DEF SegmentOK
    <2>7. SegmentTypeOK'
      BY <2>1, <2>2, MaxCallsAssumption DEF SegmentInv, SegmentTypeOK
    <2> QED BY <2>1, <2>3, <2>6, <2>7 DEF SegmentInv
  <1>10. ASSUME NEW n \in Numbers, setTaskGroupId(n) PROVE SegmentInv'
    <2> DEFINE g == [stored EXCEPT !.taskGroupId = n]
    <2>1. stored' = g /\ UNCHANGED <<value, workShareId>> /\ Call
      BY <1>10 DEF setTaskGroupId
    <2>2. /\ g \in FieldRecords /\ g.id = stored.id /\ g.single = stored.single
          /\ \A a \in DOMAIN Masks : g[a] = stored[a]
      BY DEF FieldRecords, Masks
    <2>3. /\ taskGroup' \in SUBSET Word32 /\ orderSecVal' \in SUBSET Word32
          /\ getTaskGroupId(taskGroup') = g.taskGroupId
          /\ getTaskGroupLevel(taskGroup') = g.taskGroupLevel
      <3>1. g.taskGroupId = n /\ g.taskGroupLevel = stored.taskGroupLevel
        BY DEF FieldRecords
      <3> HIDE DEF g
      <3>2. /\ taskGroup \in SUBSET Word32 /\ orderSecVal \in SUBSET Word32
            /\ getTaskGroupId(taskGroup) = stored.taskGroupId
            /\ getTaskGroupLevel(taskGroup) = stored.taskGroupLevel
        BY DEF SegmentInv, SegmentTypeOK
      <3>3. UNCHANGED orderSecVal /\ Below(n, 16)
        BY <1>10 DEF setTaskGroupId
      <3>4. taskGroup' = (taskGroup \ TASKGROUP_ID_MASK) \cup (ShiftLeft(n, 16) \cap TASKGROUP_ID_MASK)
        BY <1>10 DEF setTaskGroupId
      <3>5. n \in SUBSET Nat
        OBVIOUS
      <3>6. /\ taskGroup' \in SUBSET Word32
            /\ getTaskGroupId(taskGroup') = n
            /\ getTaskGroupLevel(taskGroup') = getTaskGroupLevel(taskGroup)
        <4>1. \A w : w = (taskGroup \ TASKGROUP_ID_MASK) \cup (ShiftLeft(n, 16) \cap TASKGROUP_ID_MASK) =>
                /\ w \in SUBSET Word32
                /\ getTaskGroupId(w) = n
                /\ getTaskGroupLevel(w) = getTaskGroupLevel(taskGroup)
          BY ONLY <3>2, <3>3, <3>5, TaskGroupHalves
        <4> QED BY ONLY <3>4, <4>1
      <3> QED BY <3>1, <3>2, <3>3, <3>6
    <2> HIDE DEF g
    <2> QED BY <2>1, <2>2, <2>3, OtherWordsStep
  <1>11. ASSUME NEW n \in Numbers, setTaskGroupLevel(n) PROVE SegmentInv'
    <2> DEFINE g == [stored EXCEPT !.taskGroupLevel = n]
    <2>1. stored' = g /\ UNCHANGED <<value, workShareId>> /\ Call
      BY <1>11 DEF setTaskGroupLevel
    <2>2. /\ g \in FieldRecords /\ g.id = stored.id /\ g.single = stored.single
          /\ \A a \in DOMAIN Masks : g[a] = stored[a]
      BY DEF FieldRecords, Masks
    <2>3. /\ taskGroup' \in SUBSET Word32 /\ orderSecVal' \in SUBSET Word32
          /\ getTaskGroupId(taskGroup') = g.taskGroupId
          /\ getTaskGroupLevel(taskGroup') = g.taskGroupLevel
      <3>1. g.taskGroupLevel = n /\ g.taskGroupId = stored.taskGroupId
        BY DEF FieldRecords
      <3> HIDE DEF g
      <3>2. /\ taskGroup \in SUBSET Word32 /\ orderSecVal \in SUBSET Word32
            /\ getTaskGroupId(taskGroup) = stored.taskGroupId
            /\ getTaskGroupLevel(taskGroup) = stored.taskGroupLevel
        BY DEF SegmentInv, SegmentTypeOK
      <3>3. UNCHANGED orderSecVal /\ Below(n, 16)
        BY <1>11 DEF setTaskGroupLevel
      <3>4. taskGroup' = (taskGroup \ TASKGROUP_LEVEL_MASK) \cup (n \cap TASKGROUP_LEVEL_MASK)
        BY <1>11 DEF setTaskGroupLevel
      <3>5. n \in SUBSET Nat
        OBVIOUS
      <3>6. /\ taskGroup' \in SUBSET Word32
            /\ getTaskGroupId(taskGroup') = getTaskGroupId(taskGroup)
            /\ getTaskGroupLevel(taskGroup') = n
        <4>1. \A w : w = (taskGroup \ TASKGROUP_LEVEL_MASK) \cup (n \cap TASKGROUP_LEVEL_MASK) =>
                /\ w \in SUBSET Word32
                /\ getTaskGroupId(w) = getTaskGroupId(taskGroup)
                /\ getTaskGroupLevel(w) = n
          BY ONLY <3>2, <3>3, <3>5, LevelHalf
        <4> QED BY ONLY <3>4, <4>1
      <3> QED BY <3>1, <3>2, <3>3, <3>6
    <2> HIDE DEF g
    <2> QED BY <2>1, <2>2, <2>3, OtherWordsStep
  <1>12. ASSUME NEW n \in Numbers, setTaskGroupPhase(n) PROVE SegmentInv'
    <2> DEFINE g == [stored EXCEPT !.taskGroupPhase = n]
    <2>1. stored' = g /\ UNCHANGED <<value, workShareId>> /\ Call
      BY <1>12 DEF setTaskGroupPhase
    <2>2. /\ g \in FieldRecords /\ g.id = stored.id /\ g.single = stored.single
          /\ \A a \in DOMAIN Masks : g[a] = stored[a]
      BY DEF FieldRecords, Masks
    <2>3. /\ taskGroup' \in SUBSET Word32 /\ orderSecVal' \in SUBSET Word32
          /\ getTaskGroupId(taskGroup') = g.taskGroupId
          /\ getTaskGroupLevel(taskGroup') = g.taskGroupLevel
      <3>1. g.taskGroupId = stored.taskGroupId /\ g.taskGroupLevel = stored.taskGroupLevel
        BY DEF FieldRecords
      <3> HIDE DEF g
      <3>2. TASKGROUP_PHASE_MASK \subseteq Word32 /\ TASKWAIT_PHASE_MASK \subseteq Word32
        BY DEF Word32, TASKGROUP_PHASE_MASK, TASKWAIT_PHASE_MASK
      <3>3. taskGroup' = taskGroup /\ orderSecVal' \in SUBSET Word32
        BY <1>12, <3>2, Zenon DEF setTaskGroupPhase
      <3> QED BY <3>1, <3>3 DEF SegmentInv, SegmentTypeOK
    <2> HIDE DEF g
    <2> QED BY <2>1, <2>2, <2>3, OtherWordsStep
  <1>13. ASSUME NEW n \in Numbers, setTaskwaitPhase(n) PROVE SegmentInv'
    <2> DEFINE g == [stored EXCEPT !.taskwaitPhase = n]
    <2>1. stored' = g /\ UNCHANGED <<value, workShareId>> /\ Call
      BY <1>13 DEF setTaskwaitPhase
    <2>2. /\ g \in FieldRecords /\ g.id = stored.id /\ g.single = stored.single
          /\ \A a \in DOMAIN Masks : g[a] = stored[a]
      BY DEF FieldRecords, Masks
    <2>3. /\ taskGroup' \in SUBSET Word32 /\ orderSecVal' \in SUBSET Word32
          /\ getTaskGroupId(taskGroup') = g.taskGroupId
          /\ getTaskGroupLevel(taskGroup') = g.taskGroupLevel
      <3>1. g.taskGroupId = stored.taskGroupId /\ g.taskGroupLevel = stored.taskGroupLevel
        BY DEF FieldRecords
      <3> HIDE DEF g
      <3>2. TASKGROUP_PHASE_MASK \subseteq Word32 /\ TASKWAIT_PHASE_MASK \subseteq Word32
        BY DEF Word32, TASKGROUP_PHASE_MASK, TASKWAIT_PHASE_MASK
      <3>3. taskGroup' = taskGroup /\ orderSecVal' \in SUBSET Word32
        BY <1>13, <3>2, Zenon DEF setTaskwaitPhase
      <3> QED BY <3>1, <3>3 DEF SegmentInv, SegmentTypeOK
    <2> HIDE DEF g
    <2> QED BY <2>1, <2>2, <2>3, OtherWordsStep
  <1>14. CASE Clone
    <2>1. /\ clone' = <<value, workShareId>> /\ before' = stored /\ UNCHANGED <<words, stored>>
          /\ calls' \in 0..MaxCalls
      BY <1>14, MaxCallsAssumption DEF Clone, SegmentInv, SegmentTypeOK
    <2> QED BY <2>1 DEF SegmentInv, SegmentTypeOK, words, SegmentOK
  <1>15. CASE UNCHANGED segmentVars
    BY <1>15 DEF segmentVars, words, SegmentInv, SegmentTypeOK
  <1>16. CASE SegmentNext
    BY <1>1, <1>2, <1>3, <1>4, <1>5, <1>6, <1>7, <1>8, <1>9, <1>10, <1>11, <1>12, <1>13, <1>14, <1>16
    DEF SegmentNext
  <1> QED BY <1>15, <1>16

THEOREM SpecSegmentInv == ASSUME IdsFit PROVE SegmentSpec => []SegmentInv
  <1>1. SegmentInit => SegmentInv
    BY InitSegmentInv
  <1> QED BY <1>1, NextSegmentInv, PTL DEF SegmentSpec

THEOREM SegmentTypeCorrect == ASSUME IdsFit PROVE SegmentSpec => []SegmentTypeOK
  <1>1. SegmentInv => SegmentTypeOK
    BY DEF SegmentInv
  <1> QED BY <1>1, SpecSegmentInv, PTL

\* For all arguments: the getters return what the setters were last given.
THEOREM FieldsIndependentHolds == ASSUME IdsFit PROVE SegmentSpec => []FieldsIndependent
  <1>1. SegmentInv => FieldsIndependent
    BY DEF SegmentInv, SegmentOK, FieldsIndependent
  <1> QED BY <1>1, SpecSegmentInv, PTL

-----------------------------------------------------------------------------
(* Equality of words is equality of fields                                 *)

LEMMA LoadInjective ==
  ASSUME NEW v \in SUBSET Word64, NEW w \in SUBSET Word64, NEW mask \in SUBSET Word64,
         NEW shift \in Nat, \A b \in mask : shift <= b, Load(v, mask, shift) = Load(w, mask, shift)
  PROVE  v \cap mask = w \cap mask
  <1>1. ASSUME NEW x \in SUBSET Word64, NEW y \in SUBSET Word64,
               Load(x, mask, shift) = Load(y, mask, shift), NEW b \in x \cap mask
        PROVE  b \in y
    <2>1. b \in Int /\ b >= shift /\ \A c \in mask : c \in Int
      BY DEF Word64
    <2>2. b - shift \in Load(x, mask, shift)
      BY <2>1 DEF Load, ShiftRight
    <2>3. PICK c \in y \cap mask : c - shift = b - shift
      BY <1>1, <2>2 DEF Load, ShiftRight
    <2> QED BY <2>1, <2>3
  <1> QED BY <1>1

\* A word is determined by its fields.
LEMMA WordIsItsFields ==
  ASSUME NEW v \in SUBSET Word64, NEW w \in SUBSET Word64,
         getType(v) = getType(w), getOffset(v) = getOffset(w), getSpan(v) = getSpan(w),
         getTaskwait(v) = getTaskwait(w), getPhase(v) = getPhase(w),
         getLoopCount(v) = getLoopCount(w), getTaskcreate(v) = getTaskcreate(w),
         isTaskGroupSync(v) = isTaskGroupSync(w), isTaskwaited(v) = isTaskwaited(w),
         isSection(v) = isSection(w)
  PROVE  v = w
  <1>1. v \cap 48..63 = w \cap 48..63
    <2>1. 48..63 \in SUBSET Word64 /\ \A b \in 48..63 : 48 <= b
      BY DEF Word64
    <2> QED BY <2>1, LoadInjective DEF getOffset, OFFSET_MASK, OFFSET_SHIFT
  <1>2. v \cap 32..47 = w \cap 32..47
    <2>1. 32..47 \in SUBSET Word64 /\ \A b \in 32..47 : 32 <= b
      BY DEF Word64
    <2> QED BY <2>1, LoadInjective DEF getSpan, SPAN_MASK, SPAN_SHIFT
  <1>3. v \cap 28..31 = w \cap 28..31
    <2>1. 28..31 \in SUBSET Word64 /\ \A b \in 28..31 : 28 <= b
      BY DEF Word64
    <2> QED BY <2>1, LoadInjective, TaskwaitField DEF getTaskwait, TASKWAIT_SHIFT
  <1>4. v \cap 24..27 = w \cap 24..27
    <2>1. 24..27 \in SUBSET Word64 /\ \A b \in 24..27 : 24 <= b
      BY DEF Word64
    <2> QED BY <2>1, LoadInjective DEF getPhase, PHASE_MASK, PHASE_SHIFT
  <1>5. v \cap 20..23 = w \cap 20..23
    <2>1. 20..23 \in SUBSET Word64 /\ \A b \in 20..23 : 20 <= b
      BY DEF Word64
    <2> QED BY <2>1, LoadInjective DEF getLoopCount, LOOP_CNT_MASK, LOOP_CNT_SHIFT
  <1>6. v \cap 5..19 = w \cap 5..19
    <2>1. 5..19 \in SUBSET Word64 /\ \A b \in 5..19 : 5 <= b
      BY DEF Word64
    <2> QED BY <2>1, LoadInjective DEF getTaskcreate, TASK_CREATE_MASK, TASK_CREATE_SHIFT
  <1>7. /\ (4 \in v) = (4 \in w) /\ (3 \in v) = (3 \in w) /\ (2 \in v) = (2 \in w)
        /\ v \cap 0..1 = w \cap 0..1
    BY OneBit DEF isTaskGroupSync, isTaskwaited, getType, SEG_TYPE_MASK, TASKGROUP_SYNC_MASK,
       TASKWAIT_SYNC_MASK
  <1>8. ASSUME NEW b \in Word64 PROVE b \in v <=> b \in w
    <2>1. \/ b \in 48..63 \/ b \in 32..47 \/ b \in 28..31 \/ b \in 24..27 \/ b \in 20..23
          \/ b \in 5..19 \/ b = 4 \/ b = 3 \/ b = 2 \/ b \in 0..1
      BY DEF Word64
    <2> QED BY <1>1, <1>2, <1>3, <1>4, <1>5, <1>6, <1>7, <2>1
  <1> QED BY <1>8

\* Words that hold the same fields are the same.
LEMMA SameFieldsSameWord ==
  ASSUME NEW v \in SUBSET Word64, NEW w \in SUBSET Word64, NEW f, NEW g,
         ValueHolds(v, f), ValueHolds(w, g),
         g.type = f.type, g.offset \cap 0..15 = f.offset \cap 0..15, g.span = f.span,
         g.taskwait = f.taskwait, g.phase = f.phase, g.loopCount = f.loopCount,
         g.taskcreate = f.taskcreate, g.taskGroupSync = f.taskGroupSync,
         g.taskwaited = f.taskwaited, g.bit2 = f.bit2
  PROVE  v = w
  <1>1. getType(v) = getType(w) /\ getOffset(v) = getOffset(w) /\ getSpan(v) = getSpan(w)
    BY DEF ValueHolds
  <1>2. /\ getTaskwait(v) = getTaskwait(w) /\ getPhase(v) = getPhase(w)
        /\ getLoopCount(v) = getLoopCount(w) /\ getTaskcreate(v) = getTaskcreate(w)
    BY DEF ValueHolds
  <1>3. /\ isTaskGroupSync(v) = isTaskGroupSync(w) /\ isTaskwaited(v) = isTaskwaited(w)
        /\ isSection(v) = isSection(w)
    BY DEF ValueHolds
  <1> QED BY ONLY <1>1, <1>2, <1>3, WordIsItsFields, v \in SUBSET Word64, w \in SUBSET Word64

LEMMA IdIsItsFields ==
  ASSUME NEW i \in SUBSET Word64, NEW j \in SUBSET Word64, NEW f, IdHolds(i, f), IdHolds(j, f),
         62 \notin i \/ 63 \notin i, 62 \notin j \/ 63 \notin j
  PROVE  i = j
  <1>1. (63 \in i) = (63 \in j) /\ (62 \in i) = (62 \in j) /\ i \ {62, 63} = j \ {62, 63}
    <2>1. SINGLE_MASK = {62, 63}
      BY DEF SINGLE_MASK
    <2> QED BY <2>1, SingleBits DEF IdHolds
  <1> QED BY <1>1

\* For all arguments: operator== on words decides equality of the fields.
THEOREM EqualityIsFieldwiseHolds == ASSUME IdsFit PROVE SegmentSpec => []EqualityIsFieldwise
  <1>1. ASSUME SegmentInv PROVE EqualityIsFieldwise
    <2> DEFINE v == clone[1]
               id == clone[2]
    <2>1. SegmentOK(v, id, before) /\ SegmentOK(value, workShareId, stored)
      BY <1>1 DEF SegmentInv
    <2>2. ASSUME SameSegment(v, id) PROVE Compared(stored) = Compared(before)
      <3>1. /\ stored.type = before.type /\ stored.offset \cap 0..15 = before.offset \cap 0..15
            /\ stored.span = before.span /\ stored.taskwait = before.taskwait
            /\ stored.phase = before.phase /\ stored.loopCount = before.loopCount
            /\ stored.taskcreate = before.taskcreate /\ stored.taskGroupSync = before.taskGroupSync
            /\ stored.taskwaited = before.taskwaited /\ stored.bit2 = before.bit2
        BY <2>1, <2>2 DEF SameSegment, SegmentOK, ValueHolds
      <3>2. stored.id = before.id /\ stored.single = before.single
        <4>1. CASE stored.type = eWorkShare
          <5>1. id = workShareId
            BY <2>1, <2>2, <4>1 DEF SameSegment, IsWorkShare, SegmentOK, ValueHolds
          <5>2. /\ stored.single \in {NoSingle, "executor", "other"}
                /\ before.single \in {NoSingle, "executor", "other"}
            BY <2>1 DEF SegmentOK, FieldRecords
          <5> QED BY <2>1, <5>1, <5>2 DEF SegmentOK, IdHolds
        <4>2. CASE stored.type # eWorkShare
          BY <2>1, <3>1, <4>2 DEF SegmentOK
        <4> QED BY <4>1, <4>2
      <3> QED BY <3>1, <3>2 DEF Compared
    <2>3. ASSUME Compared(stored) = Compared(before) PROVE SameSegment(v, id)
      <3>1. /\ stored.type = before.type /\ stored.offset \cap 0..15 = before.offset \cap 0..15
            /\ stored.span = before.span /\ stored.taskwait = before.taskwait
            /\ stored.phase = before.phase /\ stored.loopCount = before.loopCount
            /\ stored.taskcreate = before.taskcreate /\ stored.taskGroupSync = before.taskGroupSync
            /\ stored.taskwaited = before.taskwaited /\ stored.bit2 = before.bit2
            /\ stored.id = before.id /\ stored.single = before.single
        BY <2>3 DEF Compared
      <3>2. v = value
        BY <2>1, <3>1, SameFieldsSameWord DEF SegmentOK
      <3>3. id = workShareId
        <4>1. IdHolds(id, stored)
          BY <2>1, <3>1 DEF SegmentOK, IdHolds
        <4> QED BY <2>1, <4>1, IdIsItsFields DEF SegmentOK
      <3> QED BY <3>2, <3>3 DEF SameSegment
    <2> QED BY <2>2, <2>3 DEF EqualityIsFieldwise
  <1>2. SegmentInv => EqualityIsFieldwise
    BY <1>1
  <1> QED BY <1>2, SpecSegmentInv, PTL

-----------------------------------------------------------------------------
(***************************************************************************)
(* The dependence graph is acyclic for any number of tasks, creators and   *)
(* dependences.  The tasks draw their numbers without the region's lock and *)
(* register later, in any order; what makes the graph acyclic is that      *)
(* every registered pair belongs to a task that has its number, and that   *)
(* numbers never change.  The depth-first search in it answers correctly,  *)
(* and its answer stays true while tasks go on registering.                *)
(***************************************************************************)

\* Numbers are drawn from below the counter, each once.
Numbered == /\ expTaskCount \in Nat
            /\ expLocalId \in [Tasks -> Nat]
            /\ \A t \in Tasks : Exists(t) => expLocalId[t] < expTaskCount
            /\ \A t, u \in Tasks : Exists(t) /\ Exists(u) /\ expLocalId[t] = expLocalId[u] => t = u

\* Only existing tasks hold the lock, are in _deps or have an edge.
Known == /\ status \in [Tasks -> {"new", "created", "registering", "registered"}]
         /\ lock \in Tasks => Exists(lock)
         /\ todoDeps \in Seq(Dependence)
         /\ \A var \in Variables, t \in Tasks, type \in AllDepTypes :
              <<t, type>> \in deps[var] => Exists(t)
         /\ \A t \in Tasks : graph[t] \subseteq Tasks
         /\ graph = [t \in Tasks |-> graph[t]]
         /\ \A t, u \in Tasks : Edge(t, u) => Exists(t) /\ Exists(u)

Forward == \A t, u \in Tasks : Edge(t, u) => expLocalId[t] < expLocalId[u]

IInv == Numbered /\ Known /\ Forward

-----------------------------------------------------------------------------

\* A new parallel region has no tasks.
LEMMA InitIInv == Init => IInv
  BY GraphAssumption DEF Init, IInv, Numbered, Known, Forward, Exists, Edge

\* Drawing a number: the new task has no edge yet, and the counter moves past
\* its number.
LEMMA TaskCreateStep ==
  ASSUME IInv, NEW t \in Tasks, TaskCreate(t)
  PROVE  IInv'
<1> USE DEF IInv
<1>1. /\ ~Exists(t)
      /\ expLocalId' = [expLocalId EXCEPT ![t] = expTaskCount]
      /\ expTaskCount' = expTaskCount + 1
      /\ UNCHANGED <<deps, graph, lock, todoDeps>>
      /\ \A u \in Tasks : Exists(u)' <=> Exists(u) \/ u = t
      /\ \A u \in Tasks : u # t => expLocalId'[u] = expLocalId[u]
      /\ expLocalId'[t] = expTaskCount
  BY DEF TaskCreate, Exists, Known, Numbered, graphVars
<1>2. Numbered'
  BY <1>1 DEF Numbered
<1>3. Known'
  <2>1. status' \in [Tasks -> {"new", "created", "registering", "registered"}]
    BY DEF TaskCreate, Known
  <2> QED
    BY <1>1, <2>1 DEF Known, Edge
<1>4. Forward'
  <2>1. \A u, s \in Tasks : Edge(u, s)' => Edge(u, s) /\ u # t /\ s # t
    BY <1>1 DEF Known, Edge
  <2> QED
    BY <1>1, <2>1 DEF Forward
<1> QED
  BY <1>2, <1>3, <1>4

\* Registering a dependence: edges come from tasks with a lower number.
LEMMA AddDepsStep ==
  ASSUME IInv, AddDeps
  PROVE  IInv'
<1> USE DEF IInv
<1> DEFINE d == Head(todoDeps)
<1>1. lock \in Tasks /\ Exists(lock) /\ UNCHANGED <<expTaskCount, expLocalId, status, lock>>
  BY DEF AddDeps, Known
<1>2. \A u \in Tasks : Exists(u)' <=> Exists(u)
  BY <1>1 DEF Exists
<1>3. Numbered'
  BY <1>1, <1>2 DEF Numbered
<1>4. d.variable \in Variables /\ todoDeps' \in Seq(Dependence)
  <2>1. todoDeps \in Seq(Dependence) /\ todoDeps # <<>> /\ todoDeps' = Tail(todoDeps)
    BY DEF AddDeps, Known
  <2>2. d \in Dependence /\ Tail(todoDeps) \in Seq(Dependence)
    BY <2>1
  <2> QED
    BY <2>1, <2>2 DEF Dependence
<1>5. CASE UNCHANGED graphVars
  BY <1>1, <1>2, <1>3, <1>5, <1>4 DEF graphVars, Known, Forward, Edge
<1>6. CASE deps' = [deps EXCEPT ![d.variable] = { <<lock, d.type>> }] /\ UNCHANGED graph
  <2>1. \A var \in Variables, t \in Tasks, type \in AllDepTypes :
          <<t, type>> \in deps'[var] => <<t, type>> \in deps[var] \/ t = lock
    BY <1>6
  <2> QED
    BY <1>1, <1>2, <1>3, <1>6, <1>4, <2>1 DEF Known, Forward, Edge
<1>7. CASE AddEdges(Predecessors(lock, d), lock) /\ UNCHANGED deps
  <2>1. \A t, u \in Tasks : Edge(t, u)' <=> Edge(t, u) \/ (t \in Predecessors(lock, d) /\ u = lock)
    BY <1>7 DEF AddEdges, Edge
  <2>2. \A t \in Tasks : t \in Predecessors(lock, d) => Exists(t) /\ expLocalId[t] < expLocalId[lock]
    <3>1. WaitsFor(d.type) \subseteq AllDepTypes
      BY DEF WaitsFor, AllDepTypes
    <3> QED
      BY <1>1, <1>7, <1>4, <3>1 DEF Predecessors, Known, Numbered
  <2>3. graph' = [t \in Tasks |-> graph'[t]] /\ \A t \in Tasks : graph'[t] \subseteq Tasks
    BY <1>1, <1>7 DEF AddEdges, Known
  <2>4. Known'
    BY <1>1, <1>2, <1>7, <1>4, <2>1, <2>2, <2>3 DEF Known
  <2>5. Forward'
    BY <1>1, <2>1, <2>2 DEF Forward
  <2> QED
    BY <1>3, <2>4, <2>5
<1>8. UNCHANGED graphVars
      \/ (deps' = [deps EXCEPT ![d.variable] = { <<lock, d.type>> }] /\ UNCHANGED graph)
      \/ (AddEdges(Predecessors(lock, d), lock) /\ UNCHANGED deps)
  BY DEF AddDeps, graphVars
<1> QED
  BY <1>5, <1>6, <1>7, <1>8

\* The other steps change no number, no pair and no edge.
LEMMA OtherSteps ==
  ASSUME IInv,
         \/ \E t \in Tasks, ds \in DepLists : Dependences(t, ds)
         \/ \E h, t \in Tasks : HasPath(h, t)
         \/ EndDependences \/ Visit \/ NoPath
         \/ UNCHANGED vars
  PROVE  IInv'
<1> USE DEF IInv
<1>1. UNCHANGED <<expTaskCount, expLocalId, graphVars>>
  BY DEF Dependences, HasPath, EndDependences, Visit, NoPath, vars, tasksVars
<1>2. \A t \in Tasks : Exists(t)' <=> Exists(t)
  BY GraphAssumption DEF Dependences, HasPath, EndDependences, Visit, NoPath, vars, tasksVars, Exists, Known
<1>3. status' \in [Tasks -> {"new", "created", "registering", "registered"}]
  BY DEF Dependences, HasPath, EndDependences, Visit, NoPath, vars, tasksVars, Known
<1>4. todoDeps' \in Seq(Dependence)
  BY GraphAssumption DEF Dependences, HasPath, EndDependences, Visit, NoPath, vars, tasksVars, Known
<1>5. (lock \in Tasks => Exists(lock))'
  <2>1. CASE \E t \in Tasks, ds \in DepLists : Dependences(t, ds)
    BY <2>1 DEF Dependences, Exists, Known
  <2>2. CASE ~\E t \in Tasks, ds \in DepLists : Dependences(t, ds)
    BY <1>2, <2>2, GraphAssumption
       DEF HasPath, EndDependences, Visit, NoPath, Answer, vars, Known
  <2> QED
    BY <2>1, <2>2
<1>6. Numbered'
  BY <1>1, <1>2 DEF Numbered
<1>7. Known'
  BY <1>1, <1>2, <1>3, <1>4, <1>5 DEF Known, Edge, graphVars
<1>8. Forward'
  BY <1>1 DEF Forward, Edge, graphVars
<1> QED
  BY <1>6, <1>7, <1>8

\* The invariant holds of every execution.
THEOREM SpecIInv == Spec => []IInv
<1>1. IInv /\ [Next]_vars => IInv'
  BY TaskCreateStep, AddDepsStep, OtherSteps DEF Next, Holder
<1> QED
  BY InitIInv, <1>1, PTL DEF Spec

\* Edges lead from lower to higher numbers, so the graph has no cycle: the
\* search of hasPath, which takes this for granted, is asked about a DAG.
THEOREM AcyclicHolds == Spec => []Acyclic
<1>1. IInv => Acyclic
  BY DEF IInv, Forward, Numbered, Acyclic
<1> QED
  BY SpecIInv, <1>1, PTL
-----------------------------------------------------------------------------
(* Every edge is owed to two declared dependences.                          *)

Ordering == {"in", "out", "inout", "mutexinoutset"}

\* What is left to register has been declared by the holder of the lock, and
\* what is registered by its task.
Registered ==
  /\ todoDeps # <<>> => lock \in Tasks
  /\ lock \in Tasks => \A i \in DOMAIN todoDeps : \E j \in DOMAIN declared[lock] : declared[lock][j] = todoDeps[i]
  /\ \A var \in Variables, t \in Tasks, type \in AllDepTypes :
       <<t, type>> \in deps[var] => type \in Ordering /\ Declares(t, var, {type})

DInv == declared \in [Tasks -> Seq(Dependence)] /\ Registered /\ EdgesDeclared

\* The dependences of a task are given once, when it takes the lock: before, it
\* has none.
NoneBefore == \A t \in Tasks : status[t] \in {"new", "created"} => declared[t] = <<>>

LEMMA InitDInv == Init => DInv /\ NoneBefore
  BY GraphAssumption DEF Init, DInv, NoneBefore, Registered, EdgesDeclared, Edge

\* A declaration only adds to what is declared.
LEMMA DependencesStep ==
  ASSUME IInv, DInv, NoneBefore, NEW t \in Tasks, NEW ds \in DepLists, Dependences(t, ds)
  PROVE  DInv' /\ NoneBefore'
<1>1. /\ ds \in Seq(Dependence) /\ declared[t] = <<>> /\ declared' = [declared EXCEPT ![t] = ds]
      /\ lock' = t /\ todoDeps' = ds /\ status' = [status EXCEPT ![t] = "registering"]
      /\ UNCHANGED <<deps, graph>>
  BY GraphAssumption DEF Dependences, NoneBefore, graphVars
<1>2. \A u \in Tasks : \A var, types : Declares(u, var, types) => Declares(u, var, types)'
  <2> SUFFICES ASSUME NEW u \in Tasks, NEW var, NEW types, Declares(u, var, types)
               PROVE  Declares(u, var, types)'
    OBVIOUS
  <2>1. u # t
    BY <1>1 DEF Declares
  <2>2. declared'[u] = declared[u]
    BY <1>1, <2>1 DEF DInv
  <2> QED
    BY <2>2 DEF Declares
<1>3. declared' \in [Tasks -> Seq(Dependence)] /\ declared'[t] = ds
  BY <1>1 DEF DInv
<1>4. Registered'
  BY <1>1, <1>2, <1>3 DEF DInv, Registered
<1>5. EdgesDeclared'
  BY <1>1, <1>2 DEF DInv, EdgesDeclared, Edge, Conflict
<1>6. NoneBefore'
  BY <1>1 DEF NoneBefore, DInv, IInv, Known
<1> QED
  BY <1>3, <1>4, <1>5, <1>6 DEF DInv

\* Two types one of which waits for the other order their tasks.
LEMMA WaitsForOrders ==
  ASSUME NEW type \in Ordering, NEW type1 \in WaitsFor(type), type1 \in Ordering
  PROVE  type1 = type => type \in {"out", "inout"}
BY DEF WaitsFor, Ordering

\* Registering: the new pair is declared, and so are both ends of a new edge.
LEMMA AddDepsDeclared ==
  ASSUME IInv, DInv, NoneBefore, AddDeps
  PROVE  DInv' /\ NoneBefore'
<1> DEFINE d == Head(todoDeps)
<1>1. /\ lock \in Tasks /\ UNCHANGED <<declared, status, lock>>
      /\ todoDeps # <<>> /\ todoDeps' = Tail(todoDeps) /\ todoDeps \in Seq(Dependence)
  BY DEF AddDeps, IInv, Known
<1>2. d \in Dependence /\ d = todoDeps[1] /\ 1 \in DOMAIN todoDeps
  BY <1>1
<1>3. /\ d.variable \in Variables /\ d.type \in AllDepTypes
      /\ Declares(lock, d.variable, {d.type})
  BY <1>1, <1>2 DEF DInv, Registered, Declares, Dependence
<1>4. \A i \in DOMAIN Tail(todoDeps) : i + 1 \in DOMAIN todoDeps /\ Tail(todoDeps)[i] = todoDeps[i + 1]
  BY <1>1
<1>5. \A i \in DOMAIN todoDeps' : \E j \in DOMAIN declared[lock] : declared[lock][j] = todoDeps'[i]
  BY <1>1, <1>4 DEF DInv, Registered
<1>6. \A u \in Tasks : \A var, types : Declares(u, var, types)' <=> Declares(u, var, types)
  BY <1>1 DEF Declares
<1>7. \A u, s \in Tasks : Conflict(u, s)' <=> Conflict(u, s)
  BY <1>6 DEF Conflict
<1>8. CASE UNCHANGED <<deps, graph>>
  BY <1>1, <1>5, <1>6, <1>7, <1>8 DEF DInv, Registered, EdgesDeclared, Edge, NoneBefore
<1>9. CASE d.type \notin {"source", "sink"} /\ deps' = [deps EXCEPT ![d.variable] = { <<lock, d.type>> }]
           /\ UNCHANGED graph
  <2>1. d.type \in Ordering
    BY <1>3, <1>9 DEF AllDepTypes, Ordering
  <2>2. ASSUME NEW var \in Variables, NEW t \in Tasks, NEW type \in AllDepTypes, <<t, type>> \in deps'[var]
        PROVE  <<t, type>> \in deps[var] \/ (var = d.variable /\ t = lock /\ type = d.type)
    BY <1>9, <2>2
  <2> QED
    BY <1>1, <1>3, <1>5, <1>6, <1>7, <1>9, <2>1, <2>2, ZenonT(30)
    DEF DInv, Registered, EdgesDeclared, Edge, NoneBefore
<1>10. CASE d.type \notin {"source", "sink"} /\ AddEdges(Predecessors(lock, d), lock) /\ UNCHANGED deps
  <2>1. d.type \in Ordering
    BY <1>3, <1>10 DEF AllDepTypes, Ordering
  <2>2. ASSUME NEW t \in Tasks, t \in Predecessors(lock, d) PROVE Conflict(t, lock)
    <3>1. PICK type \in WaitsFor(d.type) : <<t, type>> \in deps[d.variable]
      BY <2>2 DEF Predecessors
    <3>2. type \in AllDepTypes
      BY <2>1 DEF WaitsFor, AllDepTypes, Ordering
    <3>3. type \in Ordering /\ Declares(t, d.variable, {type})
      BY <1>3, <3>1, <3>2 DEF DInv, Registered
    <3>4. type = d.type => d.type \in {"out", "inout"}
      BY <2>1, <3>1, <3>3, WaitsForOrders
    <3> QED
      BY <1>3, <2>1, <3>3, <3>4 DEF Conflict, Ordering
  <2>3. \A t, u \in Tasks : Edge(t, u)' => Edge(t, u) \/ (t \in Predecessors(lock, d) /\ u = lock)
    BY <1>10 DEF AddEdges, Edge
  <2>4. EdgesDeclared'
    BY <1>7, <2>2, <2>3 DEF DInv, EdgesDeclared
  <2> QED
    BY <1>1, <1>5, <1>6, <1>10, <2>4 DEF DInv, Registered, NoneBefore
<1> QED
  BY <1>8, <1>9, <1>10 DEF AddDeps, graphVars

\* The other steps declare and register nothing.
LEMMA OthersDeclareNothing ==
  ASSUME IInv, DInv, NoneBefore,
         \/ \E t \in Tasks : TaskCreate(t)
         \/ \E h, t \in Tasks : HasPath(h, t)
         \/ EndDependences \/ Visit \/ NoPath
         \/ UNCHANGED vars
  PROVE  DInv' /\ NoneBefore'
<1>1. UNCHANGED <<declared, deps, graph, todoDeps>>
  BY DEF TaskCreate, HasPath, EndDependences, Visit, NoPath, vars, tasksVars, graphVars
<1>2. lock' \in Tasks => lock' = lock
  BY GraphAssumption DEF TaskCreate, HasPath, EndDependences, Visit, NoPath, Answer, vars
<1>3. todoDeps # <<>> => lock' = lock
  <2>1. todoDeps # <<>> => lock \in Tasks
    BY DEF DInv, Registered
  <2> QED
    BY <2>1, GraphAssumption DEF TaskCreate, HasPath, EndDependences, Visit, NoPath, Answer, vars
<1>4. \A t \in Tasks : status'[t] \in {"new", "created"} => status[t] \in {"new", "created"}
  BY DEF TaskCreate, HasPath, EndDependences, Visit, NoPath, vars, tasksVars, IInv, Known
<1>5. NoneBefore'
  BY <1>1, <1>4 DEF NoneBefore
<1>6. Registered'
  BY <1>1, <1>2, <1>3 DEF DInv, Registered, Declares
<1>7. EdgesDeclared'
  <2>1. \A t, u \in Tasks : Conflict(t, u)' <=> Conflict(t, u)
    <3>1. \A t, var, types : Declares(t, var, types)' <=> Declares(t, var, types)
      BY <1>1 DEF Declares
    <3> QED
      BY <3>1 DEF Conflict
  <2> QED
    BY <1>1, <2>1 DEF DInv, EdgesDeclared, Edge
<1> QED
  BY <1>1, <1>5, <1>6, <1>7 DEF DInv

\* An edge is there only between tasks with dependences on one variable of
\* types that order them.
THEOREM EdgesDeclaredHolds == Spec => []EdgesDeclared
<1>1. IInv /\ DInv /\ NoneBefore /\ [Next]_vars => DInv' /\ NoneBefore'
  BY DependencesStep, AddDepsDeclared, OthersDeclareNothing DEF Next, Holder
<1>2. DInv => EdgesDeclared
  BY DEF DInv
<1> QED
  BY SpecIInv, InitDInv, <1>1, <1>2, PTL DEF Spec
-----------------------------------------------------------------------------
(* Types, and who registers                                                 *)

LEMMA InitTypes == Init => TypeOK
<1> SUFFICES ASSUME Init PROVE TypeOK
  OBVIOUS
<1> USE DEF Init
<1>1. \A t \in Tasks : lock # t /\ status[t] # "registering"
  BY GraphAssumption
<1>2. <<>> \in Seq(Dependence) /\ <<>> \in Seq(Tasks)
  OBVIOUS
<1> QED
  BY <1>1, <1>2 DEF TypeOK

Statuses == {"new", "created", "registering", "registered"}

\* Creation of a task, and the two ends of its registration.
LEMMA TypesOfTasks ==
  ASSUME TypeOK,
         \/ \E t \in Tasks : TaskCreate(t) \/ \E ds \in DepLists : Dependences(t, ds)
         \/ EndDependences
         \/ UNCHANGED vars
  PROVE  TypeOK'
<1> USE DEF graphVars, searchVars, tasksVars
<1>1. ASSUME NEW t \in Tasks, TaskCreate(t) PROVE TypeOK'
  <2>1. /\ status[t] = "new" /\ status' = [status EXCEPT ![t] = "created"]
        /\ expLocalId' = [expLocalId EXCEPT ![t] = expTaskCount] /\ expTaskCount' = expTaskCount + 1
        /\ UNCHANGED <<isMutexTask, declared, deps, graph, from, to, todo, visited, answer, lock, todoDeps>>
    BY <1>1 DEF TaskCreate
  <2>2. status \in [Tasks -> Statuses] /\ expTaskCount \in Nat /\ expLocalId \in [Tasks -> Nat]
        /\ \A u \in Tasks : lock = u <=> status[u] = "registering"
    BY DEF TypeOK, Statuses
  <2>3. status' \in [Tasks -> Statuses]
    BY <2>1, <2>2 DEF Statuses
  <2>4. expLocalId' \in [Tasks -> Nat] /\ expTaskCount' \in Nat
    BY <2>1, <2>2
  <2>5. \A u \in Tasks : lock' = u <=> status'[u] = "registering"
    BY <2>1, <2>2
  <2> QED
    BY <2>1, <2>3, <2>4, <2>5 DEF TypeOK, Statuses
<1>2. ASSUME NEW t \in Tasks, NEW ds \in DepLists, Dependences(t, ds) PROVE TypeOK'
  <2>1. ds \in Seq(Dependence)
    BY GraphAssumption
  <2>2. \A u \in Tasks : status[u] # "registering"
    BY <1>2, GraphAssumption DEF TypeOK, Dependences
  <2>3. status \in [Tasks -> Statuses] /\ declared \in [Tasks -> Seq(Dependence)]
    BY DEF TypeOK, Statuses
  <2>4. status' = [status EXCEPT ![t] = "registering"] /\ declared' = [declared EXCEPT ![t] = ds]
        /\ lock' = t /\ todoDeps' = ds
    BY <1>2 DEF Dependences
  <2>5. status' \in [Tasks -> Statuses] /\ declared' \in [Tasks -> Seq(Dependence)]
    BY <2>1, <2>3, <2>4 DEF Statuses
  <2>6. \A u \in Tasks : lock' = u <=> status'[u] = "registering"
    BY <2>2, <2>3, <2>4
  <2>7. UNCHANGED <<expTaskCount, expLocalId, isMutexTask, deps, graph, from, to, todo, visited, answer>>
    BY <1>2 DEF Dependences
  <2> QED
    BY <2>1, <2>4, <2>5, <2>6, <2>7 DEF TypeOK, Statuses
<1>3. CASE EndDependences
  <2>1. lock \in Tasks /\ status' = [status EXCEPT ![lock] = "registered"] /\ lock' = None /\ todoDeps = <<>>
        /\ status \in [Tasks -> Statuses]
    BY <1>3 DEF EndDependences, TypeOK, Statuses
  <2>2. status' \in [Tasks -> Statuses]
    BY <2>1 DEF Statuses
  <2>3. \A u \in Tasks : lock' # u /\ status'[u] # "registering"
    BY <2>1, GraphAssumption DEF TypeOK
  <2>4. UNCHANGED <<expTaskCount, expLocalId, isMutexTask, declared, deps, graph, from, to, todo, visited, answer, todoDeps>>
    BY <1>3 DEF EndDependences
  <2> QED
    BY <2>1, <2>2, <2>3, <2>4 DEF TypeOK, Statuses
<1>4. CASE UNCHANGED vars
  BY <1>4 DEF vars, TypeOK
<1> QED
  BY <1>1, <1>2, <1>3, <1>4

LEMMA TypesOfDeps ==
  ASSUME TypeOK, AddDeps
  PROVE  TypeOK'
<1> USE DEF graphVars, searchVars, tasksVars
<1> DEFINE d == Head(todoDeps)
<1>1. /\ d \in Dependence /\ Tail(todoDeps) \in Seq(Dependence) /\ lock \in Tasks
      /\ todoDeps' = Tail(todoDeps)
  BY HeadTailProperties DEF AddDeps, TypeOK
<1>2. d.variable \in Variables /\ d.type \in AllDepTypes
  BY <1>1 DEF Dependence
<1>3. isMutexTask' \in [Tasks -> BOOLEAN]
  <2>1. isMutexTask' = isMutexTask \/ isMutexTask' = [isMutexTask EXCEPT ![lock] = @ \/ d.type = "mutexinoutset"]
    BY DEF AddDeps
  <2>2. isMutexTask \in [Tasks -> BOOLEAN]
    BY DEF TypeOK
  <2> QED
    BY <2>1, <2>2
<1>4. deps' \in [Variables -> SUBSET (Tasks \X AllDepTypes)]
  <2>1. deps' = deps \/ deps' = [deps EXCEPT ![d.variable] = { <<lock, d.type>> }]
    BY DEF AddDeps
  <2>2. deps \in [Variables -> SUBSET (Tasks \X AllDepTypes)]
    BY DEF TypeOK
  <2>3. { <<lock, d.type>> } \in SUBSET (Tasks \X AllDepTypes)
    BY <1>1, <1>2
  <2> QED
    BY <2>1, <2>2, <2>3
<1>5. graph' \in [Tasks -> SUBSET Tasks]
  <2>1. graph' = graph \/ AddEdges(Predecessors(lock, d), lock)
    BY DEF AddDeps
  <2>2. graph \in [Tasks -> SUBSET Tasks]
    BY DEF TypeOK
  <2>3. CASE AddEdges(Predecessors(lock, d), lock)
    BY <1>1, <2>2, <2>3 DEF AddEdges
  <2> QED
    BY <2>1, <2>2, <2>3
<1>6. UNCHANGED <<expTaskCount, expLocalId, status, declared, from, to, todo, visited, answer, lock>>
  BY DEF AddDeps
<1> QED
  BY <1>1, <1>3, <1>4, <1>5, <1>6 DEF TypeOK

\* SetToSeqs: the neighbours that are pushed are those there are, in some order.
LEMMA AllArePushed ==
  ASSUME NEW S, IsFiniteSet(S), NEW s \in SetToSeqs(S)
  PROVE  s \in Seq(S) /\ ToSet(s) = S
<1>1. /\ Cardinality(S) \in Nat /\ s \in [1..Cardinality(S) -> S]
      /\ \A i, j \in 1..Cardinality(S) : i # j => s[i] # s[j]
  BY FS_CardinalityType DEF SetToSeqs
<1> DEFINE D == 1..Cardinality(S)
<1>2. s \in Injection(D, S)
  BY <1>1 DEF Injection, IsInjective
<1>3. IsFiniteSet(D) /\ Cardinality(D) = Cardinality(S)
  BY <1>1, FS_Interval
<1>4. s \in Surjection(D, S)
  BY <1>2, <1>3, FS_Injection
<1> QED
  BY <1>1, <1>4 DEF Surjection, ToSet

\* The top of the stack and what is below it.
LEMMA TopOfStack ==
  ASSUME NEW S, NEW s \in Seq(S), s # <<>>
  PROVE  /\ Last(s) \in S /\ Front(s) \in Seq(S)
         /\ ToSet(s) = ToSet(Front(s)) \cup {Last(s)}
<1>1. Len(s) \in Nat /\ Len(s) >= 1 /\ DOMAIN s = 1..Len(s) /\ \A i \in 1..Len(s) : s[i] \in S
  BY LenProperties, EmptySeq, ElementOfSeq
<1>2. /\ Front(s) \in Seq(S) /\ Len(Front(s)) = Len(s) - 1
      /\ \A i \in 1..Len(s) - 1 : Front(s)[i] = s[i]
  <2>1. \A i \in 1..Len(s) - 1 : s[i] \in S
    BY <1>1
  <2>2. /\ SubSeq(s, 1, Len(s) - 1) \in Seq(S)
        /\ Len(SubSeq(s, 1, Len(s) - 1)) = IF 1 <= Len(s) - 1 THEN Len(s) - 1 - 1 + 1 ELSE 0
        /\ \A i \in 1..Len(s) - 1 - 1 + 1 : SubSeq(s, 1, Len(s) - 1)[i] = s[1 + i - 1]
    BY <1>1, <2>1, SubSeqProperties
  <2> QED
    BY <1>1, <2>2 DEF Front
<1>3. DOMAIN Front(s) = 1..Len(s) - 1
  BY <1>2, LenProperties
<1>4. \A n \in Nat : n >= 1 => 1..n = (1..n - 1) \cup {n}
  OBVIOUS
<1>5. 1..Len(s) = (1..Len(s) - 1) \cup {Len(s)}
  BY <1>1, <1>4
<1> QED
  BY <1>1, <1>2, <1>3, <1>4, <1>5 DEF Last, ToSet

LEMMA JoinedSets ==
  ASSUME NEW S, NEW s \in Seq(S), NEW r \in Seq(S)
  PROVE  s \o r \in Seq(S) /\ ToSet(s \o r) = ToSet(s) \cup ToSet(r)
<1>1. /\ Len(s) \in Nat /\ DOMAIN s = 1..Len(s) /\ Len(r) \in Nat /\ DOMAIN r = 1..Len(r)
  BY LenProperties
<1>2. /\ s \o r \in Seq(S) /\ Len(s \o r) = Len(s) + Len(r)
      /\ \A i \in 1..Len(s) + Len(r) : (s \o r)[i] = IF i <= Len(s) THEN s[i] ELSE r[i - Len(s)]
  BY ConcatProperties
<1>3. DOMAIN (s \o r) = 1..Len(s) + Len(r)
  BY <1>2, LenProperties
<1>4. ASSUME NEW x \in ToSet(s \o r) PROVE x \in ToSet(s) \cup ToSet(r)
  <2>1. PICK i \in 1..Len(s) + Len(r) : x = (s \o r)[i]
    BY <1>3 DEF ToSet
  <2>2. CASE i <= Len(s)
    BY <1>1, <1>2, <2>1, <2>2 DEF ToSet
  <2>3. CASE ~(i <= Len(s))
    <3>1. i - Len(s) \in 1..Len(r)
      BY <1>1, <2>3
    <3> QED
      BY <1>1, <1>2, <2>1, <2>3, <3>1 DEF ToSet
  <2> QED
    BY <2>2, <2>3
<1>5. ASSUME NEW x \in ToSet(s) PROVE x \in ToSet(s \o r)
  <2>1. PICK i \in 1..Len(s) : x = s[i]
    BY <1>1 DEF ToSet
  <2>2. i \in 1..Len(s) + Len(r) /\ i <= Len(s)
    BY <1>1
  <2> QED
    BY <1>2, <1>3, <2>1, <2>2 DEF ToSet
<1>6. ASSUME NEW x \in ToSet(r) PROVE x \in ToSet(s \o r)
  <2>1. PICK i \in 1..Len(r) : x = r[i]
    BY <1>1 DEF ToSet
  <2>2. Len(s) + i \in 1..Len(s) + Len(r) /\ ~(Len(s) + i <= Len(s)) /\ (Len(s) + i) - Len(s) = i
    BY <1>1
  <2>3. (s \o r)[Len(s) + i] = r[i]
    BY <1>2, <2>2
  <2> QED
    BY <1>3, <2>1, <2>2, <2>3 DEF ToSet
<1> QED
  BY <1>2, <1>4, <1>5, <1>6

\* One round of the search, in terms of sets: what it takes from the stack and
\* what it adds.
LEMMA Round ==
  ASSUME TypeOK, Visit
  PROVE  /\ lock = "search" /\ Last(todo) \in Tasks /\ Front(todo) \in Seq(Tasks)
         /\ ToSet(todo) = ToSet(Front(todo)) \cup {Last(todo)}
         /\ UNCHANGED <<tasksVars, graphVars, from, to, todoDeps>>
         /\ \/ Last(todo) = to /\ Answer("path")
            \/ /\ Last(todo) # to /\ Last(todo) \in visited
               /\ todo' = Front(todo) /\ UNCHANGED <<visited, answer, lock>>
            \/ /\ Last(todo) # to /\ Last(todo) \notin visited
               /\ visited' = visited \cup {Last(todo)}
               /\ todo' \in Seq(Tasks)
               /\ ToSet(todo') = ToSet(Front(todo)) \cup (graph[Last(todo)] \ visited')
               /\ UNCHANGED <<answer, lock>>
<1> DEFINE node == Last(todo)
           new == graph[node] \ visited'
<1>1. todo \in Seq(Tasks) /\ todo # <<>> /\ graph \in [Tasks -> SUBSET Tasks]
  BY DEF TypeOK, Visit
<1>2. node \in Tasks /\ Front(todo) \in Seq(Tasks) /\ ToSet(todo) = ToSet(Front(todo)) \cup {node}
  BY <1>1, TopOfStack
<1>3. ASSUME NEW s \in SetToSeqs(new), todo' = Front(todo) \o s
      PROVE  todo' \in Seq(Tasks) /\ ToSet(todo') = ToSet(Front(todo)) \cup new
  <2>1. new \subseteq Tasks /\ IsFiniteSet(new)
    BY <1>1, <1>2, GraphAssumption, FS_Subset
  <2>2. s \in Seq(new) /\ ToSet(s) = new
    <3> HIDE DEF new
    <3> QED
      BY <2>1, AllArePushed
  <2>3. s \in Seq(Tasks)
    <3> HIDE DEF new
    <3> QED
      BY <2>1, <2>2
  <2> QED
    BY <1>2, <1>3, <2>2, <2>3, JoinedSets
<1>4. \/ node = to /\ Answer("path")
      \/ node # to /\ node \in visited /\ todo' = Front(todo) /\ UNCHANGED <<visited, answer, lock>>
      \/ /\ node # to /\ node \notin visited /\ visited' = visited \cup {node}
         /\ \E s \in SetToSeqs(new) : todo' = Front(todo) \o s
         /\ UNCHANGED <<answer, lock>>
  BY DEF Visit
<1>5. lock = "search" /\ UNCHANGED <<tasksVars, graphVars, from, to, todoDeps>>
  BY DEF Visit
<1> HIDE DEF node
<1> QED
  BY <1>2, <1>3, <1>4, <1>5 DEF node

\* The search has the lock, so that no task is being registered.
LEMMA TypesOfSearch ==
  ASSUME TypeOK, (\E h, t \in Tasks : HasPath(h, t)) \/ Visit \/ NoPath
  PROVE  TypeOK'
<1>1. UNCHANGED <<expTaskCount, expLocalId, isMutexTask, status, declared, deps, graph, todoDeps>>
  BY DEF HasPath, Visit, NoPath, tasksVars, graphVars
<1>2. lock \notin Tasks /\ lock' \in {"search", None}
  <2>1. CASE \E h, t \in Tasks : HasPath(h, t)
    BY <2>1, GraphAssumption DEF HasPath
  <2>2. CASE Visit
    BY <2>2, GraphAssumption DEF Visit, Answer
  <2>3. CASE NoPath
    BY <2>3, GraphAssumption DEF NoPath, Answer
  <2> QED
    BY <2>1, <2>2, <2>3
<1>3. {from', to'} \subseteq Tasks \cup {None}
  BY DEF TypeOK, HasPath, Visit, NoPath
<1>4. visited' \subseteq Tasks /\ todo' \in Seq(Tasks) /\ answer' \in {"none", "path", "no path"}
  <2>1. visited \subseteq Tasks /\ answer \in {"none", "path", "no path"}
    BY DEF TypeOK
  <2>2. <<>> \in Seq(Tasks)
    OBVIOUS
  <2>3. CASE \E h, t \in Tasks : HasPath(h, t)
    BY <2>3 DEF HasPath
  <2>4. CASE Visit
    BY <2>1, <2>2, <2>4, Round DEF Answer
  <2>5. CASE NoPath
    BY <2>2, <2>5 DEF NoPath, Answer
  <2> QED
    BY <2>3, <2>4, <2>5
<1>5. \A u \in Tasks : lock' = u <=> status'[u] = "registering"
  <2>1. \A u \in Tasks : lock # u /\ lock' # u
    BY <1>2, GraphAssumption
  <2> QED
    BY <1>1, <2>1 DEF TypeOK
<1>6. todoDeps' # <<>> => lock' \in Tasks
  BY <1>1, <1>2 DEF TypeOK
<1> QED
  BY <1>1, <1>2, <1>3, <1>4, <1>5, <1>6 DEF TypeOK

\* Every variable of the graph keeps its type, and the task being registered
\* is the one that holds the lock.
THEOREM TypeCorrect == Spec => []TypeOK
<1>1. TypeOK /\ [Next]_vars => TypeOK'
  BY TypesOfTasks, TypesOfDeps, TypesOfSearch DEF Next, Holder
<1> QED
  BY InitTypes, <1>1, PTL DEF Spec
-----------------------------------------------------------------------------
(* The search                                                               *)

\* Only a task that has been registered points to others: the one being
\* registered has no edge out, since its number is not below itself.
Sources ==
  /\ \A var \in Variables, t \in Tasks, type \in AllDepTypes :
       <<t, type>> \in deps[var] => status[t] \in {"registering", "registered"}
  /\ \A t, u \in Tasks : Edge(t, u) => status[t] = "registered"

\* The nodes hasPath has come across.
Seen == visited \cup ToSet(todo)

\* While the search runs, every node it came across can be reached, the
\* neighbours of a visited node have been pushed, and the target has not been
\* visited.
Search ==
  /\ answer # "none" \/ lock = "search" =>
       from \in Tasks /\ to \in Tasks /\ status[from] = "registered" /\ status[to] = "registered"
  /\ lock = "search" => /\ answer = "none"
                        /\ from \in Seen /\ to \notin visited
                        /\ \A x \in Seen : Reaches(from, x)
                        /\ \A x \in visited : graph[x] \subseteq Seen
  /\ SearchCorrect

SInv == TypeOK /\ IInv /\ Sources /\ Search

LEMMA InitSInv == Init => SInv
<1> SUFFICES ASSUME Init PROVE Sources /\ Search
  BY InitTypes, InitIInv DEF SInv
<1> QED
  BY GraphAssumption DEF Init, Sources, Search, SearchCorrect, Edge

\* Paths begin where they are and can be continued by an edge.
LEMMA ReachesStep ==
  ASSUME NEW t \in Tasks
  PROVE  /\ Reaches(t, t)
         /\ \A x \in Tasks : \A y \in graph[x] : Reaches(t, x) => Reaches(t, y)
BY DEF Reaches

\* Its own number is not below itself.
LEMMA NotItsOwnPredecessor ==
  ASSUME TypeOK, NEW t \in Tasks, NEW d
  PROVE  t \notin Predecessors(t, d)
<1>1. expLocalId[t] \in Nat
  BY DEF TypeOK
<1>2. ~(expLocalId[t] > expLocalId[t])
  BY <1>1
<1> QED
  BY <1>2 DEF Predecessors

\* What another registration adds leads to the task being registered, and
\* from there nowhere.
LEMMA PathsStay ==
  ASSUME SInv, AddDeps, NEW t \in Tasks, NEW u \in Tasks,
         status[t] = "registered", status[u] = "registered"
  PROVE  Reaches(t, u)' <=> Reaches(t, u)
<1>1. lock \in Tasks /\ status[lock] = "registering" /\ graph \in [Tasks -> SUBSET Tasks]
  BY DEF AddDeps, SInv, TypeOK
<1>2. graph[lock] = {}
  BY <1>1 DEF SInv, Sources, Edge
<1> DEFINE preds == Predecessors(lock, Head(todoDeps))
<1>3. graph' = graph \/ AddEdges(preds, lock)
  BY DEF AddDeps, graphVars
<1>4. lock \notin preds
  BY <1>1, NotItsOwnPredecessor DEF SInv
<1> HIDE DEF preds
<1>5. /\ \A x \in Tasks : graph[x] \subseteq graph'[x] /\ graph'[x] \subseteq graph[x] \cup {lock}
      /\ graph'[lock] = {}
  BY <1>1, <1>2, <1>3, <1>4 DEF AddEdges
<1>6. ASSUME Reaches(t, u) PROVE Reaches(t, u)'
  <2>1. \A S \in SUBSET Tasks : (\A x \in S : graph'[x] \subseteq S) => \A x \in S : graph[x] \subseteq S
    BY <1>5
  <2> QED
    BY <1>6, <2>1 DEF Reaches
<1>7. ASSUME Reaches(t, u)' PROVE Reaches(t, u)
  <2>1. ASSUME NEW S \in SUBSET Tasks, t \in S, \A x \in S : graph[x] \subseteq S PROVE u \in S
    <3>1. S \cup {lock} \in SUBSET Tasks /\ t \in S \cup {lock}
      BY <1>1, <2>1
    <3>2. \A x \in S \cup {lock} : graph'[x] \subseteq S \cup {lock}
      BY <1>5, <2>1
    <3>3. u \in S \cup {lock}
      BY <1>7, <3>1, <3>2 DEF Reaches
    <3> QED
      BY <1>1, <3>3
  <2> QED
    BY <2>1 DEF Reaches
<1> QED
  BY <1>6, <1>7

LEMMA AddDepsSearch ==
  ASSUME SInv, AddDeps
  PROVE  Sources' /\ Search'
<1> DEFINE d == Head(todoDeps)
<1>1. /\ lock \in Tasks /\ status[lock] = "registering" /\ lock # "search"
      /\ UNCHANGED <<status, expLocalId, from, to, todo, visited, answer, lock>>
      /\ d.variable \in Variables
  <2>1. lock \in Tasks /\ todoDeps \in Seq(Dependence) /\ todoDeps # <<>>
    BY DEF AddDeps, SInv, TypeOK
  <2>2. d \in Dependence
    BY <2>1, HeadTailProperties
  <2> QED
    BY <2>1, <2>2, GraphAssumption DEF AddDeps, SInv, TypeOK, searchVars, Dependence
<1>2. Sources'
  <2>1. \A var \in Variables, t \in Tasks, type \in AllDepTypes :
          <<t, type>> \in deps'[var] => <<t, type>> \in deps[var] \/ t = lock
    <3>1. deps' = deps \/ deps' = [deps EXCEPT ![d.variable] = { <<lock, d.type>> }]
      BY DEF AddDeps, graphVars
    <3>2. deps \in [Variables -> SUBSET (Tasks \X AllDepTypes)]
      BY DEF SInv, TypeOK
    <3>3. CASE deps' = [deps EXCEPT ![d.variable] = { <<lock, d.type>> }]
      <4>1. \A var \in Variables : deps'[var] = deps[var] \/ deps'[var] = { <<lock, d.type>> }
        BY <3>2, <3>3
      <4> QED
        BY <4>1
    <3> QED
      BY <3>1, <3>3
  <2>2. \A t, u \in Tasks : Edge(t, u)' => Edge(t, u) \/ t \in Predecessors(lock, d)
    BY DEF AddDeps, AddEdges, graphVars, Edge
  <2>3. ASSUME NEW t \in Tasks, t \in Predecessors(lock, d) PROVE status[t] = "registered"
    <3>1. PICK type \in WaitsFor(d.type) : <<t, type>> \in deps[d.variable]
      BY <2>3 DEF Predecessors
    <3>2. type \in AllDepTypes
      BY DEF WaitsFor, AllDepTypes
    <3>3. status[t] \in {"registering", "registered"}
      BY <1>1, <3>1, <3>2 DEF SInv, Sources
    <3>4. t # lock
      BY <1>1, <2>3, NotItsOwnPredecessor DEF SInv
    <3> QED
      BY <1>1, <3>3, <3>4 DEF SInv, TypeOK
  <2>4. \A t, u \in Tasks : Edge(t, u)' => status[t] = "registered"
    BY <2>2, <2>3 DEF SInv, Sources
  <2> QED
    BY <1>1, <2>1, <2>4 DEF SInv, Sources
<1>3. SearchCorrect'
  <2>1. CASE answer = "none"
    BY <1>1, <2>1 DEF SearchCorrect
  <2>2. CASE answer # "none"
    <3>1. Reaches(from, to)' <=> Reaches(from, to)
      <4>1. from \in Tasks /\ to \in Tasks /\ status[from] = "registered" /\ status[to] = "registered"
        BY <2>2 DEF SInv, Search
      <4>2. \A t, u \in Tasks : status[t] = "registered" /\ status[u] = "registered" =>
              (Reaches(t, u)' <=> Reaches(t, u))
        BY PathsStay
      <4> QED
        BY <1>1, <4>1, <4>2 DEF Reaches
    <3> QED
      BY <1>1, <3>1 DEF SInv, Search, SearchCorrect
  <2> QED
    BY <2>1, <2>2
<1> QED
  BY <1>1, <1>2, <1>3 DEF SInv, Search

\* The threads that create tasks, take the lock or give it back leave the graph
\* and the answer as they are.
LEMMA TasksSearch ==
  ASSUME SInv,
         \/ \E t \in Tasks : TaskCreate(t) \/ \E ds \in DepLists : Dependences(t, ds)
         \/ EndDependences
         \/ UNCHANGED vars
  PROVE  Sources' /\ Search'
<1>1. UNCHANGED <<deps, graph, from, to, todo, visited, answer>>
  BY DEF TaskCreate, Dependences, EndDependences, vars, graphVars, searchVars
<1>2. lock' = "search" => lock = "search"
  BY GraphAssumption DEF TaskCreate, Dependences, EndDependences, vars
<1>3. \A t \in Tasks : /\ status[t] = "registered" => status'[t] = "registered"
                       /\ status[t] = "registering" => status'[t] \in {"registering", "registered"}
  BY DEF TaskCreate, Dependences, EndDependences, vars, tasksVars, SInv, TypeOK
<1>4. Sources'
  BY <1>1, <1>3 DEF SInv, Sources, Edge
<1>5. SearchCorrect'
  BY <1>1 DEF SInv, Search, SearchCorrect, Reaches
<1>6. \A x : Reaches(from, x)' <=> Reaches(from, x)
  BY <1>1 DEF Reaches
<1> QED
  BY <1>1, <1>2, <1>3, <1>4, <1>5, <1>6 DEF SInv, Search, Seen

\* The search begins with the source on the stack.
LEMMA HasPathSearch ==
  ASSUME SInv, NEW h \in Tasks, NEW t \in Tasks, HasPath(h, t)
  PROVE  Sources' /\ Search'
<1>1. /\ from' = h /\ to' = t /\ todo' = <<h>> /\ visited' = {} /\ answer' = "none"
      /\ status[h] = "registered" /\ status[t] = "registered"
      /\ UNCHANGED <<status, deps, graph>>
  BY DEF HasPath, tasksVars, graphVars
<1>2. Sources'
  BY <1>1 DEF SInv, Sources, Edge
<1>3. ToSet(<<h>>) = {h}
  BY DEF ToSet
<1>4. Seen' = {h}
  BY <1>1, <1>3 DEF Seen, ToSet
<1>5. Reaches(h, h)
  BY ReachesStep
<1>6. \A x \in Seen' : Reaches(from, x)'
  BY <1>1, <1>4, <1>5 DEF Reaches
<1> QED
  BY <1>1, <1>2, <1>4, <1>6 DEF Search, SearchCorrect

\* A round keeps what it has come across; at the target it answers.
LEMMA VisitSearch ==
  ASSUME SInv, Visit
  PROVE  Sources' /\ Search'
<1> DEFINE node == Last(todo)
<1>1. /\ lock = "search" /\ node \in Tasks /\ node \in ToSet(todo)
      /\ ToSet(todo) = ToSet(Front(todo)) \cup {node}
      /\ UNCHANGED <<status, deps, graph, from, to>>
  BY Round DEF SInv, tasksVars, graphVars
<1>2. /\ answer = "none" /\ from \in Tasks /\ to \in Tasks
      /\ status[from] = "registered" /\ status[to] = "registered"
      /\ from \in Seen /\ to \notin visited
      /\ \A x \in Seen : Reaches(from, x)
      /\ \A x \in visited : graph[x] \subseteq Seen
  BY <1>1 DEF SInv, Search
<1>3. graph \in [Tasks -> SUBSET Tasks]
  BY DEF SInv, TypeOK
<1>4. Sources'
  BY <1>1 DEF SInv, Sources, Edge
<1>5. \A x : Reaches(from, x)' <=> Reaches(from, x)
  BY <1>1 DEF Reaches
<1>6. Reaches(from, node)
  BY <1>1, <1>2 DEF Seen
<1>7. CASE node = to /\ Answer("path")
  <2>1. answer' = "path" /\ lock' # "search" /\ Reaches(from, to)
    BY <1>6, <1>7, GraphAssumption DEF Answer
  <2>2. SearchCorrect'
    BY <1>1, <2>1 DEF SearchCorrect, Reaches
  <2> QED
    BY <1>1, <1>2, <1>4, <2>1, <2>2 DEF Search
<1>8. CASE node \in visited /\ todo' = Front(todo) /\ UNCHANGED <<visited, answer, lock>>
  <2>1. Seen' = Seen
    BY <1>1, <1>8 DEF Seen, ToSet
  <2> QED
    BY <1>1, <1>2, <1>4, <1>5, <1>8, <2>1 DEF Search, SearchCorrect
<1>9. CASE /\ node # to /\ visited' = visited \cup {node}
           /\ ToSet(todo') = ToSet(Front(todo)) \cup (graph[node] \ visited')
           /\ UNCHANGED <<answer, lock>>
  <2>1. Seen' = Seen \cup graph[node]
    <3>1. Seen' = visited' \cup ToSet(todo')
      BY DEF Seen, ToSet
    <3> HIDE DEF node
    <3> QED
      BY <1>1, <1>9, <3>1 DEF Seen
  <2>2. \A x \in graph[node] : Reaches(from, x)
    BY <1>1, <1>2, <1>6, ReachesStep
  <2>3. \A x \in Seen' : Reaches(from, x)'
    BY <1>2, <1>5, <2>1, <2>2
  <2>4. \A x \in visited' : graph'[x] \subseteq Seen'
    BY <1>1, <1>2, <1>9, <2>1
  <2>5. from' \in Seen' /\ to' \notin visited'
    BY <1>1, <1>2, <1>9, <2>1
  <2> QED
    BY <1>1, <1>2, <1>4, <1>9, <2>3, <2>4, <2>5 DEF Search, SearchCorrect
<1> QED
  BY <1>7, <1>8, <1>9, Round DEF SInv

\* With the stack empty, what was visited is closed under edges and holds the
\* source but not the target.
LEMMA NoPathSearch ==
  ASSUME SInv, NoPath
  PROVE  Sources' /\ Search'
<1>1. /\ lock = "search" /\ todo = <<>> /\ answer' = "no path" /\ lock' = None
      /\ UNCHANGED <<status, deps, graph, from, to>>
  BY DEF NoPath, Answer, tasksVars, graphVars
<1>2. Seen = visited
  <2>1. Len(<<>>) = 0 /\ <<>> \in Seq(Tasks)
    OBVIOUS
  <2>2. DOMAIN <<>> = {}
    BY <2>1, LenProperties
  <2>3. ToSet(todo) = {}
    BY <1>1, <2>2 DEF ToSet
  <2> QED
    BY <2>3 DEF Seen
<1>3. ~Reaches(from, to)
  <2>1. /\ visited \in SUBSET Tasks /\ from \in visited /\ to \notin visited
        /\ \A x \in visited : graph[x] \subseteq visited
    BY <1>1, <1>2 DEF SInv, TypeOK, Search
  <2> QED
    BY <2>1 DEF Reaches
<1>4. SearchCorrect'
  BY <1>1, <1>3 DEF SearchCorrect, Reaches
<1>5. Sources'
  BY <1>1 DEF SInv, Sources, Edge
<1> QED
  BY <1>1, <1>4, <1>5, GraphAssumption DEF SInv, Search

\* hasPath answers whether there is a path, and its answer stays true: what is
\* registered later never connects two tasks that were registered before.
THEOREM SearchCorrectHolds == Spec => []SearchCorrect
<1>1. SInv /\ [Next]_vars => Sources' /\ Search'
  BY TasksSearch, AddDepsSearch, HasPathSearch, VisitSearch, NoPathSearch DEF Next, Holder
<1>2. SInv => SearchCorrect
  BY DEF SInv, Search
<1>3. TypeOK /\ IInv /\ Sources /\ Search => SInv
  BY DEF SInv
<1>4. Init => Sources /\ Search
  BY InitSInv DEF SInv
<1> QED
  BY TypeCorrect, SpecIInv, <1>1, <1>2, <1>3, <1>4, PTL DEF Spec
=============================================================================
