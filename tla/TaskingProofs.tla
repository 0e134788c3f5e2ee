---------------------------- MODULE TaskingProofs ----------------------------
(***************************************************************************)
(* Labels tell the order of a program exactly, whatever the number of its  *)
(* threads, the nesting of its parallel regions and the number of their    *)
(* barriers, as long as no offset wraps: what happens before a task has a  *)
(* label that the detector takes for an earlier one, and everything else   *)
(* is found to be concurrent.                                              *)
(***************************************************************************)
EXTENDS Tasking, SequenceTheorems, WellFoundedInduction, TLAPS

-----------------------------------------------------------------------------
(* Programs of regions and barriers                                         *)

\* Regions of more than one thread, nested to any depth, with any number of
\* barriers, as long as no offset wraps: M bounds the stretches of a task.
ForkJoin(M) == /\ Constructs \subseteq {"barrier", "nested"}
               /\ TeamSizes \subseteq Nat \ {0, 1}
               /\ \A d \in DOMAIN MaxSteps : MaxSteps[d] <= M
               /\ \A size \in TeamSizes \cup {1} : size * (1 + M * (M + 1)) <= OffsetLimit

\* The paths to implicit tasks
Step == Nat \X Nat
Paths == Seq(Step)

\* The segments of such programs
ImplicitSegment == {BaseSegment("eImplicit", offset, span, obj) :
                      offset \in 0..OffsetLimit-1, span \in Nat \ {0}, obj \in Paths \X Nat}

\* The fields that the comparison of labels looks at
Offset(l, i) == l[i].value.offset
Span(l, i) == l[i].value.span

\* The label of a task has one segment for the initial task and one for each
\* task on its path, whose place in its team is the offset modulo the span.
LabelOfPath(t, l) ==
  /\ l \in Seq(ImplicitSegment) /\ Len(l) = Len(t) + 1
  /\ Span(l, 1) = 1
  /\ \A i \in 2..Len(l) : /\ Span(l, i) \in TeamSizes
                          /\ t[i - 1][2] < Span(l, i)
                          /\ Offset(l, i) % Span(l, i) = t[i - 1][2]

-----------------------------------------------------------------------------
(* Comparing labels                                                         *)

\* The labels are equal up to position n.
Agree(l, c, n) == \A i \in 1..n : /\ i <= Len(l) /\ i <= Len(c)
                                  /\ Offset(l, i) = Offset(c, i) /\ Span(l, i) = Span(c, i)

\* l is of something before c: a prefix, or behind at the first position where
\* they differ, in the same place of the team.
Behind(l, c, i) == /\ Agree(l, c, i - 1) /\ Span(l, i) = Span(c, i)
                   /\ Offset(l, i) < Offset(c, i)
                   /\ Offset(l, i) % Span(l, i) = Offset(c, i) % Span(c, i)
Precedes(l, c) == \/ Len(l) < Len(c) /\ Agree(l, c, Len(l))
                  \/ \E i \in 1..Len(l) : i <= Len(c) /\ Behind(l, c, i)

\* b is the label c after a barrier has moved position k, or a part of it.
Ahead(c, b, k) == /\ k <= Len(b) /\ Len(b) <= Len(c)
                  /\ \A i \in 1..Len(b) : /\ Span(b, i) = Span(c, i)
                                          /\ i # k => Offset(b, i) = Offset(c, i)
                  /\ Offset(b, k) = Offset(c, k) + Span(c, k)

\* l and c are equal before position k, and there l is not ahead.
NotAhead(l, c, k) == /\ Agree(l, c, k - 1) /\ Span(l, k) = Span(c, k)
                     /\ Offset(l, k) <= Offset(c, k)

\* p is in the region that u is in at depth n + 1; they part there if they are
\* below two members of its team.
SamePath(p, u, n) == \A i \in 1..n : p[i] = u[i]
Inside(p, u, n) == n < Len(p) /\ SamePath(p, u, n) /\ p[n + 1][1] = u[n + 1][1]
Part(p, u, n) == n < Len(u) /\ Inside(p, u, n) /\ p[n + 1][2] # u[n + 1][2]

\* The labels are of tasks below two members of one team.
Beside(p, t, l, c) == \E n \in 0..Len(p) : /\ Part(p, t, n)
                                           /\ n + 2 <= Len(c) /\ n + 2 <= Len(l)
                                           /\ Agree(l, c, n + 1) /\ Span(l, n + 2) = Span(c, n + 2)

\* The labels agree as far as the paths do, and one further if they part.
Match(t, u, l, c) == \A j \in 0..Len(t) : j <= Len(u) /\ SamePath(t, u, j) =>
                       /\ Agree(l, c, j) /\ Span(l, j + 1) = Span(c, j + 1)
                       /\ j < Len(t) /\ j < Len(u) => /\ Agree(l, c, j + 1)
                                                      /\ Span(l, j + 2) = Span(c, j + 2)

-----------------------------------------------------------------------------
(* The invariant                                                            *)

\* Tasks that are not over; a is above t on its path
Live(t) == t \in Tasks /\ status[t] # "over"
Below(a, t) == Len(a) < Len(t) /\ SamePath(a, t, Len(a))

\* What the label will be when the task that a barrier has released goes on,
\* and what that of the parent will be when the region ends.
Bumped(t) == mutateBarrierEnd(label[t], NextStretch(t))
Moved(t) == IF status[t] \in {"released", "ended"} THEN Bumped(t) ELSE label[t]
Going(t) == IF status[t] = "ended" THEN Front(Bumped(t)) ELSE Moved(t)

\* Tasks are implicit ones, and labels and stretches are those of their paths.
Typed ==
  /\ app \in Programs
  /\ Tasks \subseteq Paths /\ InitialTask \in Tasks
  /\ \A d \in {DOMAIN status, DOMAIN clock, DOMAIN groups, DOMAIN past} : d = Tasks
  /\ \A t \in Tasks : /\ status[t] \in {"running", "forked", "atBarrier", "atEnd", "released", "ended", "over"}
                      /\ clock[t] \in Nat /\ groups[t] = <<>>
                      /\ LabelOfPath(t, label[t])
                      /\ \A s \in past[t] : s[1] \in Tasks /\ s[2] \in Nat /\ s[2] <= clock[s[1]]
  /\ status[InitialTask] \in {"running", "forked"}
  /\ \A s \in DOMAIN recorded : /\ s \in Tasks \X Nat /\ s[1] # InitialTask /\ s[2] <= clock[s[1]]
                                /\ LabelOfPath(s[1], recorded[s])

\* Who is below a task that lives has waited for it at every fork.
Tree ==
  /\ \A t \in Tasks : \A j \in 0..Len(t) : SubSeq(t, 1, j) \in Tasks
  /\ \A a, t \in Tasks : Below(a, t) =>
       /\ t[Len(a) + 1][1] <= clock[a]
       /\ t[Len(a) + 1][1] = clock[a] => status[a] \in {"forked", "over"}
       /\ Live(t) => status[a] = "forked" /\ t[Len(a) + 1][1] = clock[a]
  /\ \A t \in Tasks : status[t] = "ended" => Last(t)[2] = 0 /\ \A u \in Tasks : Live(u) /\ Below(Front(t), u) => u = t

\* The bounds that keep the offsets from wrapping
Counted(M) ==
  /\ \A t \in Tasks : Live(t) =>
       /\ clock[t] <= M
       /\ t # InitialTask => Len(t) + 1 <= Len(MaxSteps)
       /\ status[t] \in {"forked", "atBarrier", "released"} => clock[t] < M
       /\ Offset(label[t], Len(t) + 1) < Span(label[t], Len(t) + 1) * (1 + clock[t] * (M + 1))
  /\ \A t \in Tasks : Live(t) /\ t # InitialTask =>
       /\ Span(label[t], Len(t)) = Span(label[Front(t)], Len(t))
       /\ Offset(label[t], Len(t)) <= Offset(label[Front(t)], Len(t)) + Span(label[Front(t)], Len(t)) * clock[t]

\* Live tasks have the same labels as far as they share their way.
Coherent == \A t, u \in Tasks : Live(t) /\ Live(u) => Match(t, u, Moved(t), Moved(u))

\* p is in the region that u is a member of, or below it.
InRegionOf(p, u) == Inside(p, u, Len(u) - 1)

\* What has happened in a region is not ahead of the members of its team.
RegionBehind ==
  \A s \in DOMAIN recorded, u \in Tasks : Live(u) /\ u # InitialTask /\ InRegionOf(s[1], u) =>
    NotAhead(recorded[s], Moved(u), Len(u))

\* What happened before a task, and outside a region it is in, happened before the fork.
Forked(u, j) == past[SubSeq(u, 1, j)] \cup {<<SubSeq(u, 1, j), u[j + 1][1]>>}
PastOfRegion == \A u \in Tasks : \A j \in 0..Len(u) - 1 : \A s \in past[u] :
                  Inside(s[1], u, j) \/ s \in Forked(u, j)

\* The fork happened before what the team does.
PastOfFork == \A u \in Tasks : Live(u) /\ u # InitialTask => Upto(Front(u)) \subseteq past[u]

\* The label of a live task is recorded for its current stretch.
Current == \A t \in Tasks : Live(t) /\ t # InitialTask =>
             Stretch(t) \in DOMAIN recorded /\ recorded[Stretch(t)] = label[t]

\* Labels tell the order: of what has happened and a task that goes on.
Told(s, t) == IF s \in past[t] THEN Precedes(recorded[s], Going(t))
              ELSE Beside(s[1], t, recorded[s], Going(t))

\* So they do for every record and every live task that has not forked a team.
AllTold == \A s \in DOMAIN recorded, t \in Tasks :
             /\ Live(t) /\ status[t] # "forked"
             /\ s = Stretch(t) => status[t] \in {"released", "ended"}
             => Told(s, t)

\* The inductive invariant
IInv(M) == /\ Typed /\ Tree /\ Counted(M) /\ Coherent /\ RegionBehind
           /\ PastOfRegion /\ PastOfFork /\ Current /\ AllTold

-----------------------------------------------------------------------------
(* Numbers and sequences                                                    *)

\* Adding the span keeps the place in the team.
LEMMA ModAdd ==
  ASSUME NEW a \in Nat, NEW n \in Nat \ {0}
  PROVE  (a + n) % n = a % n
<1> DEFINE q == a \div n
           r == a % n
<1>1. q \in Nat /\ r \in 0..n-1 /\ a = (n * q) + r
  OBVIOUS
<1> HIDE DEF q, r
<1>2. n * (q + 1) = (n * q) + n /\ q + 1 \in Nat
  BY <1>1
<1>3. n * (q + 1) \in Nat /\ a + n = (n * (q + 1)) + r /\ a + n \in Nat
  BY <1>1, <1>2
<1>4. (a + n) % n = r
  BY <1>1, <1>2, <1>3
<1> QED
  BY <1>4 DEF r

\* The offset of a new member is its place in the team.
LEMMA ModSmall ==
  ASSUME NEW a \in Nat, NEW n \in Nat \ {0}, a < n
  PROVE  a % n = a
OBVIOUS

\* A set of numbers that is not empty has a least element.
LEMMA LeastOf ==
  ASSUME NEW T \in SUBSET Nat, T # {}
  PROVE  \E x \in T : \A y \in T : x <= y
<1>1. IsWellFoundedOn({ss \in Nat \X Nat : ss[1] < ss[2]}, Nat)
  BY NatLessThanWellFounded DEF OpToRel
<1>2. \E x \in T : \A y \in T : ~(<<y, x>> \in {ss \in Nat \X Nat : ss[1] < ss[2]})
  <2>1. T \subseteq Nat
    OBVIOUS
  <2> QED
    BY <1>1, <2>1, WFMin, Zenon
<1>3. PICK x \in T : \A y \in T : ~(<<y, x>> \in {ss \in Nat \X Nat : ss[1] < ss[2]})
  BY <1>2
<1>4. ASSUME NEW y \in T PROVE x <= y
  <2>1. x \in Nat /\ y \in Nat /\ <<y, x>> \in Nat \X Nat
    OBVIOUS
  <2> QED
    BY <1>3, <2>1
<1> QED
  BY <1>4

\* What the proofs need of sequences: their length, their elements, the empty one.
LEMMA Sequences ==
  ASSUME NEW S, NEW s \in Seq(S)
  PROVE  /\ Len(s) \in Nat /\ DOMAIN s = 1..Len(s)
         /\ \A i \in 1..Len(s) : s[i] \in S
         /\ s = <<>> <=> Len(s) = 0
BY LenProperties, ElementOfSeq, EmptySeq

\* The initial part of a sequence
LEMMA Initial ==
  ASSUME NEW S, NEW s \in Seq(S), NEW j \in 0..Len(s)
  PROVE  /\ SubSeq(s, 1, j) \in Seq(S)
         /\ Len(SubSeq(s, 1, j)) = j
         /\ \A i \in 1..j : SubSeq(s, 1, j)[i] = s[i]
<1>1. Len(s) \in Nat /\ \A i \in 1..j : s[i] \in S
  BY Sequences
<1> QED
  BY <1>1, SubSeqProperties

\* A sequence without its last element
LEMMA FrontOf ==
  ASSUME NEW S, NEW s \in Seq(S), s # <<>>
  PROVE  /\ Front(s) \in Seq(S)
         /\ Len(Front(s)) = Len(s) - 1
         /\ \A i \in 1..Len(s) - 1 : Front(s)[i] = s[i]
         /\ Front(s) = SubSeq(s, 1, Len(s) - 1)
         /\ Last(s) = s[Len(s)] /\ Last(s) \in S
<1>1. Len(s) \in Nat /\ Len(s) # 0 /\ \A i \in 1..Len(s) : s[i] \in S
  BY Sequences
<1>2. Front(s) = SubSeq(s, 1, Len(s) - 1) /\ Len(s) - 1 \in 0..Len(s)
  BY <1>1 DEF Front
<1>3. /\ Front(s) \in Seq(S) /\ Len(Front(s)) = Len(s) - 1
      /\ \A i \in 1..Len(s) - 1 : Front(s)[i] = s[i]
  BY <1>2, Initial
<1>4. Len(s) \in 1..Len(s) /\ Last(s) = s[Len(s)]
  BY <1>1 DEF Last
<1>5. Last(s) \in S
  BY <1>1, <1>4
<1> QED
  BY <1>2, <1>3, <1>4, <1>5

\* A step on a path is a pair of numbers.
LEMMA StepParts ==
  ASSUME NEW t \in Paths, NEW i \in 1..Len(t)
  PROVE  /\ t[i] \in Step /\ t[i][1] \in Nat /\ t[i][2] \in Nat
         /\ t[i] = <<t[i][1], t[i][2]>>
<1>1. t[i] \in Step
  BY Sequences DEF Paths
<1> QED
  BY <1>1 DEF Step

-----------------------------------------------------------------------------
(* Segments and labels                                                      *)

\* BaseSegment makes a segment of such programs, with the fields it is given.
LEMMA Segments ==
  ASSUME NEW k \in 0..OffsetLimit-1, NEW n \in Nat \ {0}, NEW x \in Paths \X Nat
  PROVE  LET seg == BaseSegment("eImplicit", k, n, x)
         IN  /\ seg \in ImplicitSegment /\ Type(seg) = "eImplicit"
             /\ seg.value.offset = k /\ seg.value.span = n
<1>1. k % OffsetLimit = k
  BY ModSmall, OffsetLimitAssumption
<1>2. BaseSegment("eImplicit", k, n, x) \in ImplicitSegment
  BY DEF ImplicitSegment
<1> QED
  BY <1>1, <1>2 DEF BaseSegment, Type

\* Every segment is made by BaseSegment.
LEMMA SegmentOf ==
  ASSUME NEW seg \in ImplicitSegment
  PROVE  \E k \in 0..OffsetLimit-1, n \in Nat \ {0}, x \in Paths \X Nat :
            seg = BaseSegment("eImplicit", k, n, x)
BY DEF ImplicitSegment

\* The segments of a label are those of implicit tasks.
LEMMA LabelSegments ==
  ASSUME NEW t, NEW l, LabelOfPath(t, l), NEW i \in 1..Len(l)
  PROVE  /\ l[i] \in ImplicitSegment
         /\ Offset(l, i) \in Nat /\ Span(l, i) \in Nat \ {0}
         /\ Type(l[i]) = "eImplicit"
<1>1. l[i] \in ImplicitSegment
  BY Sequences DEF LabelOfPath
<1>2. PICK k \in 0..OffsetLimit-1, n \in Nat \ {0}, x \in Paths \X Nat :
        l[i] = BaseSegment("eImplicit", k, n, x)
  BY <1>1, SegmentOf
<1>3. l[i].value.offset = k /\ l[i].value.span = n /\ Type(l[i]) = "eImplicit"
  BY <1>2, Segments
<1> QED
  BY <1>1, <1>3 DEF Offset, Span

\* Two such segments are the same to operator== if offset and span are.
LEMMA SameSegments ==
  ASSUME NEW a \in ImplicitSegment, NEW b \in ImplicitSegment
  PROVE  SameSegment(a, b) <=> a.value.offset = b.value.offset /\ a.value.span = b.value.span
<1>1. PICK k \in 0..OffsetLimit-1, n \in Nat \ {0}, x \in Paths \X Nat :
        a = BaseSegment("eImplicit", k, n, x)
  BY SegmentOf
<1>2. PICK l \in 0..OffsetLimit-1, m \in Nat \ {0}, y \in Paths \X Nat :
        b = BaseSegment("eImplicit", l, m, y)
  BY SegmentOf
<1>3. k % OffsetLimit = k /\ l % OffsetLimit = l
  BY ModSmall, OffsetLimitAssumption
<1>4. a.value.offset = k /\ a.value.span = n /\ b.value.offset = l /\ b.value.span = m
  BY <1>1, <1>2, <1>3 DEF BaseSegment
<1>5. k = l /\ n = m => a.value = b.value
  BY <1>1, <1>2 DEF BaseSegment
<1>6. a.value.type # "eWorkShare"
  BY <1>1 DEF BaseSegment
<1> QED
  BY <1>4, <1>5, <1>6 DEF SameSegment

\* Changing the offset of a value gives the value with that offset.
LEMMA MovedValue ==
  ASSUME NEW k, NEW n, NEW j, NEW v, NEW w,
         v = [type |-> "eImplicit", offset |-> k, span |-> n,
              taskwait |-> 0, phase |-> 0, loopCount |-> 0, taskcreate |-> 0,
              bit2 |-> FALSE, taskwaited |-> FALSE, taskGroupSync |-> FALSE],
         w = [type |-> "eImplicit", offset |-> j, span |-> n,
              taskwait |-> 0, phase |-> 0, loopCount |-> 0, taskcreate |-> 0,
              bit2 |-> FALSE, taskwaited |-> FALSE, taskGroupSync |-> FALSE]
  PROVE  [v EXCEPT !.offset = j] = w
<1>1. DOMAIN v = DOMAIN w
  OBVIOUS
<1>2. \A f \in DOMAIN v : w[f] = IF f = "offset" THEN j ELSE v[f]
  <2>1. w["offset"] = j
    OBVIOUS
  <2>2. ASSUME NEW f \in DOMAIN v, f # "offset" PROVE w[f] = v[f]
    <3>1. DOMAIN v = {"type", "offset", "span", "taskwait", "phase", "loopCount", "taskcreate",
                      "bit2", "taskwaited", "taskGroupSync"}
      OBVIOUS
    <3>2. CASE f \in {"type", "span", "taskwait", "phase", "loopCount", "taskcreate"}
      BY <3>2
    <3>3. CASE f \in {"bit2", "taskwaited", "taskGroupSync"}
      <4>1. v[f] = FALSE /\ w[f] = FALSE
        BY <3>3
      <4> QED
        BY <4>1
    <3> QED
      BY <2>2, <3>1, <3>2, <3>3
  <2> QED
    BY <2>1, <2>2
<1>3. w = [f \in DOMAIN w |-> w[f]]
  OBVIOUS
<1>4. [v EXCEPT !.offset = j] = [f \in DOMAIN v |-> IF f = "offset" THEN j ELSE v[f]]
  OBVIOUS
<1> QED
  BY <1>1, <1>2, <1>3, <1>4

\* The clone of a segment that a barrier moves
LEMMA MovedSegment ==
  ASSUME NEW seg \in ImplicitSegment, NEW x \in Paths \X Nat,
         seg.value.offset + seg.value.span < OffsetLimit
  PROVE  LET moved == [seg EXCEPT !.value.offset = (seg.value.offset + seg.value.span) % OffsetLimit, !.obj = x]
         IN  /\ moved \in ImplicitSegment
             /\ moved.value.offset = seg.value.offset + seg.value.span
             /\ moved.value.span = seg.value.span
<1>1. PICK k \in 0..OffsetLimit-1, n \in Nat \ {0}, y \in Paths \X Nat :
        seg = BaseSegment("eImplicit", k, n, y)
  BY SegmentOf
<1>2. seg.value.offset = k /\ seg.value.span = n
  BY <1>1, Segments
<1>3. k + n \in 0..OffsetLimit-1
  BY <1>2, OffsetLimitAssumption
<1> DEFINE m == (k + n) % OffsetLimit
           w == [seg.value EXCEPT !.offset = m]
<1>4. w = BaseSegment("eImplicit", k + n, n, x).value
  <2>1. seg.value = [type |-> "eImplicit", offset |-> k, span |-> n,
              taskwait |-> 0, phase |-> 0, loopCount |-> 0, taskcreate |-> 0,
              bit2 |-> FALSE, taskwaited |-> FALSE, taskGroupSync |-> FALSE]
    <3>1. k % OffsetLimit = k
      BY ModSmall, OffsetLimitAssumption
    <3> QED
      BY <1>1, <3>1 DEF BaseSegment
  <2> QED
    BY <2>1, MovedValue DEF BaseSegment
<1> DEFINE moved == [seg EXCEPT !.value.offset = (seg.value.offset + seg.value.span) % OffsetLimit, !.obj = x]
<1>5. moved = [seg EXCEPT !.value = w, !.obj = x]
  BY <1>2
<1> HIDE DEF moved, w
<1>6. moved = BaseSegment("eImplicit", k + n, n, x)
  BY <1>1, <1>4, <1>5 DEF BaseSegment
<1>7. moved \in ImplicitSegment /\ moved.value.offset = k + n /\ moved.value.span = n
  BY <1>3, <1>6, Segments
<1> QED
  BY <1>2, <1>7 DEF moved

\* A barrier moves the second last segment by its span.
LEMMA BumpedLabel ==
  ASSUME NEW t \in Paths, t # InitialTask, NEW l, LabelOfPath(t, l), NEW x \in Paths \X Nat,
         TeamSizes \subseteq Nat \ {0, 1}, Offset(l, Len(t)) + Span(l, Len(t)) < OffsetLimit
  PROVE  LET b == mutateBarrierEnd(l, x)
         IN  /\ LabelOfPath(t, b) /\ Len(b) = Len(l)
             /\ \A i \in 1..Len(l) : /\ Span(b, i) = Span(l, i)
                                     /\ i # Len(t) => Offset(b, i) = Offset(l, i)
             /\ Offset(b, Len(t)) = Offset(l, Len(t)) + Span(l, Len(t))
<1> DEFINE b == mutateBarrierEnd(l, x)
           k == Len(t)
           moved == [l[k] EXCEPT !.value.offset = (l[k].value.offset + l[k].value.span) % OffsetLimit, !.obj = x]
<1>1. /\ Len(t) \in Nat \ {0} /\ Len(l) = Len(t) + 1 /\ l \in Seq(ImplicitSegment)
      /\ DOMAIN l = 1..Len(l) /\ k \in 1..Len(l)
  BY Sequences DEF Paths, LabelOfPath, InitialTask
<1>2. l[k] \in ImplicitSegment /\ Offset(l, k) \in Nat /\ Span(l, k) \in Nat \ {0}
  BY <1>1, LabelSegments
<1>3. l[k].value.offset = Offset(l, k) /\ l[k].value.span = Span(l, k)
  BY DEF Offset, Span
<1>4. b = [l EXCEPT ![k] = moved]
  <2>1. Len(l) - 1 = k
    BY <1>1
  <2> QED
    BY <1>2, <2>1 DEF mutateBarrierEnd
<1>5. moved \in ImplicitSegment /\ moved.value.offset = Offset(l, k) + Span(l, k) /\ moved.value.span = Span(l, k)
  BY <1>2, <1>3, MovedSegment, ZenonT(40)
<1> HIDE DEF b, k, moved
<1>6. /\ b \in Seq(ImplicitSegment) /\ Len(b) = Len(l)
      /\ \A i \in 1..Len(l) : b[i] = IF i = k THEN moved ELSE l[i]
  BY <1>1, <1>4, <1>5, ExceptSeq
<1>7. \A i \in 1..Len(l) : /\ Span(b, i) = Span(l, i)
                           /\ i # k => Offset(b, i) = Offset(l, i)
  BY <1>5, <1>6 DEF Offset, Span
<1>8. Offset(b, k) = Offset(l, k) + Span(l, k)
  BY <1>1, <1>5, <1>6 DEF Offset
<1>9. ASSUME NEW i \in 2..Len(b) PROVE Offset(b, i) % Span(b, i) = t[i - 1][2]
  <2>1. i \in 1..Len(l) /\ i \in 2..Len(l)
    BY <1>1, <1>6
  <2>2. CASE i = k
    <3>1. Offset(b, i) % Span(b, i) = (Offset(l, i) + Span(l, i)) % Span(l, i)
      BY <1>7, <1>8, <2>1, <2>2
    <3> QED
      BY <1>2, <2>1, <2>2, <3>1, ModAdd DEF LabelOfPath
  <2>3. CASE i # k
    BY <1>7, <2>1, <2>3 DEF LabelOfPath
  <2> QED
    BY <2>2, <2>3
<1>10. LabelOfPath(t, b)
  <2>1. Span(b, 1) = 1
    BY <1>1, <1>7 DEF LabelOfPath
  <2>2. ASSUME NEW i \in 2..Len(b) PROVE Span(b, i) \in TeamSizes /\ t[i - 1][2] < Span(b, i)
    <3>1. i \in 1..Len(l) /\ i \in 2..Len(l)
      BY <1>1, <1>6
    <3> QED
      BY <1>7, <3>1 DEF LabelOfPath
  <2> QED
    BY <1>1, <1>6, <1>9, <2>1, <2>2 DEF LabelOfPath
<1> QED
  BY <1>6, <1>7, <1>8, <1>10 DEF b, k

\* The label of the parent, when a region ends
LEMMA FrontLabel ==
  ASSUME NEW t \in Paths, t # InitialTask, NEW l, LabelOfPath(t, l)
  PROVE  /\ LabelOfPath(Front(t), Front(l)) /\ Len(Front(l)) = Len(t)
         /\ \A i \in 1..Len(t) : Offset(Front(l), i) = Offset(l, i) /\ Span(Front(l), i) = Span(l, i)
<1>1. /\ Len(t) \in Nat \ {0} /\ Len(l) = Len(t) + 1 /\ l \in Seq(ImplicitSegment) /\ l # <<>>
      /\ t \in Seq(Step) /\ t # <<>>
  BY Sequences DEF Paths, LabelOfPath, InitialTask
<1>2. /\ Front(l) \in Seq(ImplicitSegment) /\ Len(Front(l)) = Len(t)
      /\ \A i \in 1..Len(t) : Front(l)[i] = l[i]
      /\ Len(Front(t)) = Len(t) - 1 /\ \A i \in 1..Len(t) - 1 : Front(t)[i] = t[i]
  <2>1. /\ Front(l) \in Seq(ImplicitSegment) /\ Len(Front(l)) = Len(l) - 1
        /\ \A i \in 1..Len(l) - 1 : Front(l)[i] = l[i]
    BY <1>1, FrontOf
  <2>2. Len(Front(t)) = Len(t) - 1 /\ \A i \in 1..Len(t) - 1 : Front(t)[i] = t[i]
    BY <1>1, FrontOf
  <2> QED
    BY <1>1, <2>1, <2>2
<1>3. \A i \in 1..Len(t) : Offset(Front(l), i) = Offset(l, i) /\ Span(Front(l), i) = Span(l, i)
  BY <1>2 DEF Offset, Span
<1>4. ASSUME NEW i \in 2..Len(Front(l))
      PROVE  /\ Span(Front(l), i) \in TeamSizes
             /\ Front(t)[i - 1][2] < Span(Front(l), i)
             /\ Offset(Front(l), i) % Span(Front(l), i) = Front(t)[i - 1][2]
  <2>1. i \in 2..Len(l) /\ i \in 1..Len(t) /\ i - 1 \in 1..Len(t) - 1
    BY <1>1, <1>2
  <2> QED
    BY <1>2, <1>3, <2>1 DEF LabelOfPath
<1>5. Span(Front(l), 1) = 1
  BY <1>1, <1>3 DEF LabelOfPath
<1> QED
  BY <1>1, <1>2, <1>3, <1>4, <1>5 DEF LabelOfPath

\* A sequence with one more element
LEMMA Extended ==
  ASSUME NEW S, NEW s \in Seq(S), NEW e \in S
  PROVE  /\ Append(s, e) \in Seq(S) /\ Append(s, e) # <<>>
         /\ Len(Append(s, e)) = Len(s) + 1
         /\ \A i \in 1..Len(s) : Append(s, e)[i] = s[i]
         /\ Append(s, e)[Len(s) + 1] = e
         /\ Front(Append(s, e)) = s /\ Last(Append(s, e)) = e
<1> DEFINE u == Append(s, e)
<1>1. /\ u \in Seq(S) /\ u # <<>> /\ Len(u) = Len(s) + 1
      /\ \A i \in 1..Len(s) : u[i] = s[i]
      /\ u[Len(s) + 1] = e
  BY AppendProperties
<1> HIDE DEF u
<1>2. Last(u) = e
  BY <1>1 DEF Last
<1>3. /\ Front(u) \in Seq(S) /\ Len(Front(u)) = Len(u) - 1
      /\ \A i \in 1..Len(u) - 1 : Front(u)[i] = u[i]
  BY <1>1, FrontOf
<1>4. Len(Front(u)) = Len(s) /\ \A i \in 1..Len(s) : Front(u)[i] = s[i]
  BY <1>1, <1>3, Sequences
<1>5. Front(u) = s
  BY <1>3, <1>4, SeqEqual
<1> QED
  BY <1>1, <1>2, <1>5 DEF u

\* Member k of the team of size n that t forks in stretch c, and its label
Member(t, c, k) == Append(t, <<c, k>>)
MemberLabel(t, l, c, k, n) == genImpTaskLabel(l, k, n, <<Member(t, c, k), 0>>)

\* The path to a member of a team
LEMMA ForkedTask ==
  ASSUME NEW t \in Paths, NEW c \in Nat, NEW k \in Nat
  PROVE  /\ Member(t, c, k) \in Paths /\ Len(Member(t, c, k)) = Len(t) + 1 /\ Member(t, c, k) # InitialTask
         /\ \A i \in 1..Len(t) : Member(t, c, k)[i] = t[i]
         /\ Member(t, c, k)[Len(t) + 1] = <<c, k>> /\ Last(Member(t, c, k)) = <<c, k>> /\ Front(Member(t, c, k)) = t
<1>1. ASSUME NEW e \in Step
      PROVE  /\ Append(t, e) \in Paths /\ Len(Append(t, e)) = Len(t) + 1 /\ Append(t, e) # <<>>
             /\ \A i \in 1..Len(t) : Append(t, e)[i] = t[i]
             /\ Append(t, e)[Len(t) + 1] = e /\ Front(Append(t, e)) = t /\ Last(Append(t, e)) = e
  BY Extended DEF Paths
<1>2. <<c, k>> \in Step
  BY DEF Step
<1> QED
  BY <1>1, <1>2 DEF Member, InitialTask

\* genImpTaskLabel adds a segment for the member and keeps those of the parent.
LEMMA ForkedLabel ==
  ASSUME NEW t \in Paths, NEW l, LabelOfPath(t, l), NEW c \in Nat, NEW n \in TeamSizes, NEW k \in 0..n-1,
         TeamSizes \subseteq Nat \ {0, 1}, n <= OffsetLimit
  PROVE  /\ LabelOfPath(Member(t, c, k), MemberLabel(t, l, c, k, n))
         /\ Len(MemberLabel(t, l, c, k, n)) = Len(t) + 2
         /\ Agree(l, MemberLabel(t, l, c, k, n), Len(t) + 1)
         /\ Offset(MemberLabel(t, l, c, k, n), Len(t) + 2) = k
         /\ Span(MemberLabel(t, l, c, k, n), Len(t) + 2) = n
<1> DEFINE u == Member(t, c, k)
           seg == BaseSegment("eImplicit", k, n, <<u, 0>>)
           b == MemberLabel(t, l, c, k, n)
<1>1. /\ n \in Nat \ {0, 1} /\ k \in Nat /\ k < n /\ k \in 0..OffsetLimit-1
      /\ Len(t) \in Nat /\ Len(l) = Len(t) + 1 /\ l \in Seq(ImplicitSegment)
  BY Sequences, OffsetLimitAssumption DEF Paths, LabelOfPath
<1>2. /\ u \in Paths /\ Len(u) = Len(t) + 1
      /\ \A i \in 1..Len(t) : u[i] = t[i]
      /\ u[Len(t) + 1] = <<c, k>>
  BY <1>1, ForkedTask, SMTT(25)
<1>3. b = Append(l, seg)
  BY DEF MemberLabel, genImpTaskLabel
<1> HIDE DEF u, b
<1>4. seg \in ImplicitSegment /\ seg.value.offset = k /\ seg.value.span = n
  BY <1>1, <1>2, Segments
<1> HIDE DEF seg
<1>5. /\ b \in Seq(ImplicitSegment) /\ Len(b) = Len(l) + 1
      /\ \A i \in 1..Len(l) : b[i] = l[i]
      /\ b[Len(l) + 1] = seg
  BY <1>1, <1>3, <1>4, AppendProperties
<1>6. /\ \A i \in 1..Len(l) : Offset(b, i) = Offset(l, i) /\ Span(b, i) = Span(l, i)
      /\ Offset(b, Len(t) + 2) = k /\ Span(b, Len(t) + 2) = n
  BY <1>1, <1>4, <1>5 DEF Offset, Span
<1>7. ASSUME NEW i \in 2..Len(b)
      PROVE  /\ Span(b, i) \in TeamSizes
             /\ u[i - 1][2] < Span(b, i)
             /\ Offset(b, i) % Span(b, i) = u[i - 1][2]
  <2>1. CASE i = Len(t) + 2
    <3>1. i - 1 = Len(t) + 1 /\ u[i - 1] = <<c, k>> /\ u[i - 1][2] = k
      BY <1>1, <1>2, <2>1
    <3>2. k % n = k
      BY <1>1, ModSmall
    <3> QED
      BY <1>1, <1>6, <2>1, <3>1, <3>2
  <2>2. CASE i # Len(t) + 2
    <3>1. i \in 2..Len(l) /\ i \in 1..Len(l) /\ i - 1 \in 1..Len(t)
      BY <1>1, <1>5, <2>2
    <3> QED
      BY <1>2, <1>6, <3>1 DEF LabelOfPath
  <2> QED
    BY <2>1, <2>2
<1>8. LabelOfPath(u, b)
  <2>1. Span(b, 1) = 1
    BY <1>1, <1>6 DEF LabelOfPath
  <2> QED
    BY <1>1, <1>2, <1>5, <1>7, <2>1 DEF LabelOfPath
<1>9. Agree(l, b, Len(t) + 1) /\ Len(b) = Len(t) + 2
  BY <1>1, <1>5, <1>6 DEF Agree
<1> QED
  BY <1>6, <1>8, <1>9 DEF u, b

-----------------------------------------------------------------------------
(* What the detector reads off two labels                                   *)

\* Of labels that agree the shorter is a prefix of the longer.
LEMMA ComparePrefix ==
  ASSUME NEW p, NEW t, NEW l, NEW c, LabelOfPath(p, l), LabelOfPath(t, c),
         Len(l) < Len(c), Agree(l, c, Len(l))
  PROVE  compareLabels(l, c) = eLeftIsPrefix
<1>1. Len(l) \in Nat /\ Len(c) \in Nat
  BY Sequences DEF LabelOfPath
<1>2. ASSUME NEW i \in 1..Len(l) PROVE SameSegment(l[i], c[i])
  <2>1. i \in 1..Len(c) /\ Offset(l, i) = Offset(c, i) /\ Span(l, i) = Span(c, i)
    BY <1>1 DEF Agree
  <2>2. l[i] \in ImplicitSegment /\ c[i] \in ImplicitSegment
    BY <2>1, LabelSegments
  <2> QED
    BY <2>1, <2>2, SameSegments DEF Offset, Span
<1>3. {i \in 1..Len(l) : ~SameSegment(l[i], c[i])} = {}
  BY <1>2
<1>4. (IF Len(l) < Len(c) THEN Len(l) ELSE Len(c)) = Len(l)
  OBVIOUS
<1> QED
  BY <1>1, <1>3, <1>4 DEF compareLabels

\* They are compared at the first position where they differ.
LEMMA CompareFirst ==
  ASSUME NEW p, NEW t, NEW l, NEW c, LabelOfPath(p, l), LabelOfPath(t, c),
         NEW i \in 1..Len(l), i <= Len(c), Agree(l, c, i - 1), Offset(l, i) # Offset(c, i)
  PROVE  compareLabels(l, c) = i
<1>1. Len(l) \in Nat /\ Len(c) \in Nat
  BY Sequences DEF LabelOfPath
<1> DEFINE common == 1 .. (IF Len(l) < Len(c) THEN Len(l) ELSE Len(c))
           differ == {j \in common : ~SameSegment(l[j], c[j])}
<1>2. \A j \in common : j \in 1..Len(l) /\ j \in 1..Len(c)
  BY <1>1
<1>3. i \in common
  BY <1>1
<1>4. ASSUME NEW j \in common
      PROVE  SameSegment(l[j], c[j]) <=> Offset(l, j) = Offset(c, j) /\ Span(l, j) = Span(c, j)
  <2>1. l[j] \in ImplicitSegment /\ c[j] \in ImplicitSegment
    BY <1>2, LabelSegments
  <2> QED
    BY <2>1, SameSegments DEF Offset, Span
<1>5. i \in differ
  BY <1>3, <1>4
<1>6. ASSUME NEW j \in differ PROVE j >= i /\ j \in Int
  <2>1. j \in common /\ ~(Offset(l, j) = Offset(c, j) /\ Span(l, j) = Span(c, j))
    BY <1>4
  <2>2. ~(j \in 1..i - 1)
    BY <2>1 DEF Agree
  <2> QED
    BY <1>2, <2>1, <2>2
<1>7. compareLabels(l, c) = CHOOSE k \in differ : \A j \in differ : k <= j
  BY <1>5 DEF compareLabels
<1> HIDE DEF differ
<1>8. \A k \in differ : (\A j \in differ : k <= j) => k = i
  BY <1>5, <1>6
<1>9. \A j \in differ : i <= j
  BY <1>6
<1>10. \E k \in differ : \A j \in differ : k <= j
  BY <1>5, <1>9
<1> QED
  BY <1>7, <1>8, <1>10

\* The detector takes what precedes for earlier.
LEMMA PrecedesIsBefore ==
  ASSUME NEW p, NEW t, NEW l, NEW c, LabelOfPath(p, l), LabelOfPath(t, c), Precedes(l, c),
         TeamSizes \subseteq Nat \ {0, 1}
  PROVE  happensBefore(l, c) = "yes" /\ ~IsRace(l, c)
<1>1. CASE Len(l) < Len(c) /\ Agree(l, c, Len(l))
  <2>1. compareLabels(l, c) = -1
    BY <1>1, ComparePrefix DEF eLeftIsPrefix
  <2>2. happensBeforeFrom(l, c, -1) = "yes"
    BY DEF happensBeforeFrom, Answer, eRightIsPrefix
  <2> QED
    BY <2>1, <2>2 DEF happensBefore, IsRace, IsRaceFrom
<1>2. CASE \E i \in 1..Len(l) : i <= Len(c) /\ Behind(l, c, i)
  <2>1. PICK i \in 1..Len(l) : i <= Len(c) /\ Behind(l, c, i)
    BY <1>2
  <2>2. Len(l) \in Nat /\ Len(c) \in Nat /\ i \in 1..Len(c)
    BY <2>1, Sequences DEF LabelOfPath
  <2>3. /\ Offset(l, i) \in Nat /\ Offset(c, i) \in Nat /\ Span(l, i) \in Nat \ {0}
        /\ Type(l[i]) = "eImplicit" /\ Type(c[i]) = "eImplicit"
    BY <2>2, LabelSegments
  <2>4. compareLabels(l, c) = i
    BY <2>1, <2>2, <2>3, CompareFirst DEF Behind
  <2>5. happensBeforeFrom(l, c, i) = "yes"
    <3>1. l[i].value.span = c[i].value.span /\ l[i].value.offset < c[i].value.offset
          /\ l[i].value.offset # c[i].value.offset
          /\ l[i].value.offset % l[i].value.span = c[i].value.offset % l[i].value.span
      BY <2>1, <2>3 DEF Behind, Offset, Span
    <3>2. CASE i = 1
      <4>1. Span(l, 1) = 1
        BY DEF LabelOfPath
      <4> QED
        BY <2>2, <2>3, <3>1, <3>2, <4>1 DEF happensBeforeFrom, AnalyzeSpanOne, Span
    <3>3. CASE i # 1
      <4>1. Span(l, i) # 1
        BY <2>2, <3>3 DEF LabelOfPath
      <4> QED
        BY <2>2, <3>1, <4>1 DEF happensBeforeFrom, AnalyzeTeam, Span
    <3> QED
      BY <3>2, <3>3
  <2> QED
    BY <2>4, <2>5 DEF happensBefore, IsRace, IsRaceFrom
<1> QED
  BY <1>1, <1>2 DEF Precedes

\* It takes labels of tasks below two members of one team for concurrent.
LEMMA BesideIsConcurrent ==
  ASSUME NEW p \in Paths, NEW t \in Paths, NEW l, NEW c, LabelOfPath(p, l), LabelOfPath(t, c),
         Beside(p, t, l, c), TeamSizes \subseteq Nat \ {0, 1}
  PROVE  happensBefore(l, c) = "no" /\ IsRace(l, c)
<1>1. PICK n \in 0..Len(p) : /\ Part(p, t, n) /\ n + 2 <= Len(c) /\ n + 2 <= Len(l)
                             /\ Agree(l, c, n + 1) /\ Span(l, n + 2) = Span(c, n + 2)
  BY DEF Beside
<1> DEFINE i == n + 2
<1>2. Len(p) \in Nat /\ Len(l) \in Nat /\ Len(c) \in Nat /\ n \in Nat
  BY Sequences DEF LabelOfPath, Paths
<1>3. i \in 2..Len(l) /\ i \in 2..Len(c) /\ i - 1 = n + 1 /\ i \in 1..Len(l) /\ i \in 1..Len(c)
  BY <1>1, <1>2
<1>4. /\ Offset(l, i) \in Nat /\ Offset(c, i) \in Nat /\ Span(l, i) \in Nat \ {0}
  BY <1>3, LabelSegments
<1>5. Span(l, i) # 1 /\ Span(c, i) = Span(l, i)
  BY <1>1, <1>3 DEF LabelOfPath
<1>6. Offset(l, i) % Span(l, i) # Offset(c, i) % Span(l, i)
  <2>1. Offset(l, i) % Span(l, i) = p[n + 1][2] /\ Offset(c, i) % Span(c, i) = t[n + 1][2]
    BY <1>3 DEF LabelOfPath
  <2> QED
    BY <1>1, <1>5, <2>1 DEF Part, Inside
<1>7. compareLabels(l, c) = i
  <2>1. Agree(l, c, i - 1) /\ Offset(l, i) # Offset(c, i) /\ i <= Len(c)
    BY <1>1, <1>3, <1>6
  <2> HIDE DEF i
  <2> QED
    BY <1>3, <2>1, CompareFirst
<1> HIDE DEF i
<1>8. analyzeSiblingImpTask(l, c, i) = "no"
  <2>1. CASE i < Len(l)
    <3>1. i + 1 \in 1..Len(l)
      BY <1>2, <1>3, <2>1
    <3>2. Type(l[i + 1]) = "eImplicit"
      BY <3>1, LabelSegments
    <3> QED
      BY <3>2 DEF analyzeSiblingImpTask
  <2>2. CASE ~(i < Len(l))
    BY <2>2 DEF analyzeSiblingImpTask
  <2> QED
    BY <2>1, <2>2
<1>9. happensBeforeFrom(l, c, i) = "no"
  <2>1. /\ l[i].value.span = c[i].value.span /\ l[i].value.span # 1
        /\ l[i].value.offset % l[i].value.span # c[i].value.offset % l[i].value.span
        /\ l[i].value.offset # c[i].value.offset
    BY <1>5, <1>6 DEF Offset, Span
  <2> QED
    BY <1>3, <1>8, <2>1 DEF happensBeforeFrom, AnalyzeTeam
<1> QED
  BY <1>3, <1>7, <1>9 DEF happensBefore, IsRace, IsRaceFrom, eRightIsPrefix

-----------------------------------------------------------------------------
(* Barriers and the order of labels                                         *)

\* What precedes a label precedes it when a barrier has moved it.
LEMMA PrecedesAhead ==
  ASSUME NEW p, NEW t, NEW l, NEW c, NEW b, LabelOfPath(p, l), LabelOfPath(t, c), Precedes(l, c),
         NEW k \in Nat \ {0}, k + 1 = Len(c), Len(b) \in Nat, Ahead(c, b, k)
  PROVE  Precedes(l, b)
<1>1. /\ Len(l) \in Nat /\ Len(c) \in Nat /\ Len(b) \in Nat /\ k \in 1..Len(c) /\ k \in 1..Len(b)
  BY Sequences DEF LabelOfPath, Ahead
<1>2. \A j \in 1..Len(c) : Offset(c, j) \in Nat /\ Span(c, j) \in Nat \ {0}
  BY LabelSegments
<1>3. ASSUME k <= Len(l), Agree(l, c, k) PROVE Behind(l, b, k)
  <2>1. Agree(l, b, k - 1)
    BY <1>1, <1>3 DEF Agree, Ahead
  <2>2. Offset(l, k) = Offset(c, k) /\ Span(l, k) = Span(c, k) /\ Span(b, k) = Span(c, k)
        /\ Offset(b, k) = Offset(c, k) + Span(c, k)
    BY <1>1, <1>3 DEF Agree, Ahead
  <2>3. (Offset(c, k) + Span(c, k)) % Span(c, k) = Offset(c, k) % Span(c, k)
    BY <1>1, <1>2, ModAdd
  <2> QED
    BY <1>1, <1>2, <2>1, <2>2, <2>3 DEF Behind
<1>4. CASE Len(l) < Len(c) /\ Agree(l, c, Len(l))
  <2>1. CASE Len(l) < k
    <3>1. Agree(l, b, Len(l))
      BY <1>1, <1>4, <2>1 DEF Agree, Ahead
    <3> QED
      BY <1>1, <2>1, <3>1 DEF Precedes, Ahead
  <2>2. CASE ~(Len(l) < k)
    <3>1. k \in 1..Len(l) /\ Agree(l, c, k)
      BY <1>1, <1>4, <2>2 DEF Agree
    <3> QED
      BY <1>1, <1>3, <3>1 DEF Precedes
  <2> QED
    BY <2>1, <2>2
<1>5. CASE \E i \in 1..Len(l) : i <= Len(c) /\ Behind(l, c, i)
  <2>1. PICK i \in 1..Len(l) : i <= Len(c) /\ Behind(l, c, i)
    BY <1>5
  <2>2. CASE i > k
    <3>1. k \in 1..Len(l) /\ Agree(l, c, k)
      BY <1>1, <2>1, <2>2 DEF Agree, Behind
    <3> QED
      BY <1>1, <1>3, <3>1 DEF Precedes
  <2>3. CASE i <= k
    <3>1. /\ i \in 1..Len(b) /\ i \in 1..Len(c)
      BY <1>1, <2>1, <2>3
    <3>2. Agree(l, b, i - 1)
      BY <1>1, <2>1, <2>3 DEF Agree, Behind, Ahead
    <3>3. /\ Span(l, i) = Span(c, i) /\ Span(b, i) = Span(c, i)
          /\ Offset(l, i) < Offset(c, i) /\ Offset(l, i) % Span(l, i) = Offset(c, i) % Span(l, i)
      BY <2>1, <3>1 DEF Behind, Ahead
    <3>4. Offset(c, i) \in Nat /\ Span(c, i) \in Nat \ {0} /\ Offset(l, i) \in Nat
      BY <1>2, <3>1, <2>1, LabelSegments
    <3>5. Offset(l, i) < Offset(b, i) /\ Offset(b, i) % Span(l, i) = Offset(c, i) % Span(l, i)
      <4>1. CASE i = k
        <5>1. Offset(b, i) = Offset(c, i) + Span(c, i)
          BY <4>1 DEF Ahead
        <5>2. (Offset(c, i) + Span(c, i)) % Span(c, i) = Offset(c, i) % Span(c, i)
          BY <3>4, ModAdd
        <5>3. Offset(b, i) % Span(l, i) = Offset(c, i) % Span(l, i)
          BY <3>3, <5>1, <5>2
        <5>4. Offset(l, i) < Offset(b, i)
          BY <3>3, <3>4, <5>1
        <5> QED
          BY <5>3, <5>4
      <4>2. CASE i # k
        BY <3>1, <3>3, <4>2 DEF Ahead
      <4> QED
        BY <4>1, <4>2
    <3> QED
      BY <2>1, <3>1, <3>2, <3>3, <3>5 DEF Precedes, Behind
  <2> QED
    BY <1>1, <2>1, <2>2, <2>3
<1> QED
  BY <1>4, <1>5 DEF Precedes

\* What is not ahead at the position that a barrier moves precedes the moved label.
LEMMA BehindAhead ==
  ASSUME NEW p, NEW t, NEW l, NEW c, NEW b, LabelOfPath(p, l), LabelOfPath(t, c),
         NEW k \in Nat \ {0}, k + 1 = Len(c), Len(b) \in Nat, Ahead(c, b, k), k <= Len(l),
         k > 1 => p[k - 1] = t[k - 1],
         Agree(l, c, k - 1), Span(l, k) = Span(c, k), Offset(l, k) <= Offset(c, k)
  PROVE  Precedes(l, b)
<1>1. /\ Len(l) \in Nat /\ Len(c) \in Nat /\ k \in 1..Len(c) /\ k \in 1..Len(b) /\ k \in 1..Len(l)
  BY Sequences DEF LabelOfPath, Ahead
<1>2. Offset(c, k) \in Nat /\ Span(c, k) \in Nat \ {0} /\ Offset(l, k) \in Nat
  BY <1>1, LabelSegments
<1>3. Agree(l, b, k - 1)
  BY <1>1 DEF Agree, Ahead
<1>4. Span(b, k) = Span(l, k) /\ Offset(b, k) = Offset(c, k) + Span(c, k)
  BY <1>1 DEF Ahead
<1>5. Offset(l, k) % Span(l, k) = Offset(c, k) % Span(c, k)
  <2>1. CASE k = 1
    <3>1. Span(c, 1) = 1
      BY DEF LabelOfPath
    <3>2. \A x \in Nat : x % 1 = 0
      OBVIOUS
    <3> QED
      BY <1>2, <2>1, <3>1, <3>2
  <2>2. CASE k # 1
    <3>1. k \in 2..Len(l) /\ k \in 2..Len(c) /\ p[k - 1] = t[k - 1]
      BY <1>1, <2>2
    <3> QED
      BY <3>1 DEF LabelOfPath
  <2> QED
    BY <2>1, <2>2
<1>6. (Offset(c, k) + Span(c, k)) % Span(c, k) = Offset(c, k) % Span(c, k)
  BY <1>2, ModAdd
<1>7. Behind(l, b, k)
  BY <1>2, <1>3, <1>4, <1>5, <1>6 DEF Behind
<1> QED
  BY <1>1, <1>7 DEF Precedes

\* Tasks that part before the position that a barrier moves stay side by side.
LEMMA BesideAhead ==
  ASSUME NEW p \in Paths, NEW t, NEW l, NEW c, NEW b, LabelOfPath(p, l), LabelOfPath(t, c),
         NEW k \in Nat \ {0}, k + 1 = Len(c), Len(b) \in Nat, Ahead(c, b, k),
         NEW n \in 0..Len(p), Part(p, t, n), n + 2 <= k, n + 2 <= Len(l),
         Agree(l, c, n + 1), Span(l, n + 2) = Span(c, n + 2)
  PROVE  Beside(p, t, l, b)
<1>1. Len(p) \in Nat /\ Len(l) \in Nat /\ Len(c) \in Nat /\ n \in Nat
  BY Sequences DEF LabelOfPath, Paths
<1>2. Agree(l, b, n + 1) /\ Span(l, n + 2) = Span(b, n + 2) /\ n + 2 <= Len(b)
  <2>1. n + 2 \in 1..Len(b) /\ n + 2 <= Len(b)
    BY <1>1 DEF Ahead
  <2>2. Agree(l, b, n + 1)
    BY <1>1, <2>1 DEF Agree, Ahead
  <2> QED
    BY <2>1, <2>2 DEF Ahead
<1> QED
  BY <1>2 DEF Beside

-----------------------------------------------------------------------------
(* Paths                                                                    *)

\* Paths of which neither leads to the other part somewhere.
LEMMA Parting ==
  ASSUME NEW t \in Paths, NEW u \in Paths, t # u, ~Below(t, u), ~Below(u, t)
  PROVE  \E n \in Nat : n < Len(t) /\ n < Len(u) /\ SamePath(t, u, n) /\ t[n + 1] # u[n + 1]
<1>1. Len(t) \in Nat /\ Len(u) \in Nat
  BY Sequences DEF Paths
<1> DEFINE T == {i \in Nat : i < Len(t) /\ i < Len(u) /\ t[i + 1] # u[i + 1]}
<1>2. T # {}
  <2> SUFFICES ASSUME T = {} PROVE FALSE
    OBVIOUS
  <2>1. ASSUME NEW i \in 1..Len(t), i <= Len(u) PROVE t[i] = u[i]
    <3>1. i - 1 \in Nat /\ i - 1 < Len(t) /\ i - 1 < Len(u) /\ (i - 1) + 1 = i
      BY <1>1, <2>1
    <3> QED
      BY <3>1
  <2>2. CASE Len(t) = Len(u)
    <3>1. t = u
      BY <1>1, <2>1, <2>2, SeqEqual DEF Paths
    <3> QED
      BY <3>1
  <2>3. CASE Len(t) < Len(u)
    BY <1>1, <2>1, <2>3 DEF Below, SamePath
  <2>4. CASE Len(u) < Len(t)
    BY <1>1, <2>1, <2>4 DEF Below, SamePath
  <2> QED
    BY <1>1, <2>2, <2>3, <2>4
<1>3. PICK n \in T : \A j \in T : n <= j
  BY <1>2, LeastOf
<1>4. ASSUME NEW i \in 1..n PROVE t[i] = u[i]
  <2>1. i - 1 \in Nat /\ i - 1 < n /\ i - 1 < Len(t) /\ i - 1 < Len(u) /\ (i - 1) + 1 = i
    BY <1>1, <1>3, <1>4
  <2>2. i - 1 \notin T
    BY <1>3, <2>1
  <2> QED
    BY <2>1, <2>2
<1> QED
  BY <1>3, <1>4 DEF SamePath

\* The path of the ancestor of t at depth j
LEMMA Ancestor ==
  ASSUME NEW t \in Paths, NEW j \in 0..Len(t)
  PROVE  /\ SubSeq(t, 1, j) \in Paths /\ Len(SubSeq(t, 1, j)) = j
         /\ \A i \in 1..j : SubSeq(t, 1, j)[i] = t[i]
         /\ SamePath(SubSeq(t, 1, j), t, j)
         /\ j < Len(t) => Below(SubSeq(t, 1, j), t)
         /\ j = Len(t) => SubSeq(t, 1, j) = t
<1>1. /\ SubSeq(t, 1, j) \in Paths /\ Len(SubSeq(t, 1, j)) = j
      /\ \A i \in 1..j : SubSeq(t, 1, j)[i] = t[i]
  BY Initial DEF Paths
<1>2. j = Len(t) => SubSeq(t, 1, j) = t
  BY SubSeqFull DEF Paths
<1> QED
  BY <1>1, <1>2 DEF SamePath, Below

\* Equal paths up to position n lead through the same ancestor there.
LEMMA SameAncestor ==
  ASSUME NEW t \in Paths, NEW u \in Paths, NEW n \in Nat, n <= Len(t), n <= Len(u), SamePath(t, u, n)
  PROVE  SubSeq(t, 1, n) = SubSeq(u, 1, n)
<1>1. n \in 0..Len(t) /\ n \in 0..Len(u)
  BY Sequences DEF Paths
<1>2. /\ SubSeq(t, 1, n) \in Paths /\ Len(SubSeq(t, 1, n)) = n
      /\ \A i \in 1..n : SubSeq(t, 1, n)[i] = t[i]
  BY <1>1, Ancestor
<1>3. /\ SubSeq(u, 1, n) \in Paths /\ Len(SubSeq(u, 1, n)) = n
      /\ \A i \in 1..n : SubSeq(u, 1, n)[i] = u[i]
  BY <1>1, Ancestor
<1> QED
  BY <1>2, <1>3, SeqEqual DEF SamePath, Paths

\* The regions of the program are those of InRegionOf.
LEMMA Regions ==
  ASSUME NEW p \in Paths, NEW u \in Paths, u # InitialTask
  PROVE  InRegion(p, Region(u)) <=> InRegionOf(p, u)
<1>1. Len(p) \in Nat /\ Len(u) \in Nat \ {0}
  BY Sequences DEF Paths, InitialTask
<1>2. /\ Front(u) \in Paths /\ Len(Front(u)) = Len(u) - 1 /\ Last(u) = u[Len(u)]
      /\ \A i \in 1..Len(u) - 1 : Front(u)[i] = u[i]
  BY FrontOf DEF Paths, InitialTask
<1>3. ASSUME Len(u) - 1 <= Len(p)
      PROVE  IsPrefix(Front(u), p) <=> SamePath(p, u, Len(u) - 1)
  <2> DEFINE n == Len(u) - 1
  <2>1. n \in 0..Len(p) /\ n \in 0..Len(u) /\ n \in 0..Len(Front(u)) /\ n = Len(Front(u))
    BY <1>1, <1>2, <1>3
  <2> HIDE DEF n
  <2>2. SubSeq(Front(u), 1, n) = Front(u)
    BY <1>2, <2>1, Ancestor
  <2>3. Len(SubSeq(p, 1, n)) = n /\ SubSeq(p, 1, n) \in Paths /\ \A i \in 1..n : SubSeq(p, 1, n)[i] = p[i]
    BY <2>1, Ancestor
  <2>4. SubSeq(p, 1, n) = Front(u) <=> \A i \in 1..n : p[i] = u[i]
    <3>1. ASSUME \A i \in 1..n : p[i] = u[i] PROVE SubSeq(p, 1, n) = Front(u)
      <4>1. \A i \in 1..n : SubSeq(p, 1, n)[i] = Front(u)[i]
        BY <1>2, <2>3, <3>1 DEF n
      <4> QED
        BY <1>2, <2>1, <2>3, <4>1, SeqEqual DEF Paths
    <3>2. ASSUME SubSeq(p, 1, n) = Front(u) PROVE \A i \in 1..n : p[i] = u[i]
      BY <1>2, <2>3, <3>2 DEF n
    <3> QED
      BY <3>1, <3>2
  <2>5. Len(Front(u)) <= Len(p)
    BY <2>1
  <2> QED
    BY <2>1, <2>2, <2>4, <2>5 DEF IsPrefix, SamePath, n
<1>4. InRegion(p, Region(u)) <=> /\ Len(p) > Len(u) - 1 /\ IsPrefix(Front(u), p)
                                /\ p[(Len(u) - 1) + 1][1] = u[Len(u)][1]
  BY <1>2 DEF InRegion, Region
<1>5. (Len(u) - 1) + 1 = Len(u) /\ (Len(p) > Len(u) - 1 <=> Len(u) <= Len(p))
  BY <1>1
<1> QED
  BY <1>1, <1>3, <1>4, <1>5 DEF InRegionOf, Inside

\* The tasks of these programs are implicit.
LEMMA Implicit ==
  ASSUME NEW u \in Paths
  PROVE  ~IsExplicit(u) /\ (u # InitialTask => IsImplicit(u) /\ Last(u)[2] \in Nat)
<1>1. CASE u = InitialTask
  BY <1>1 DEF IsExplicit
<1>2. CASE u # InitialTask
  <2>1. Last(u) \in Step
    BY <1>2, FrontOf DEF Paths, InitialTask
  <2>2. Last(u)[2] \in Nat
    BY <2>1 DEF Step
  <2> QED
    BY <1>2, <2>2 DEF IsExplicit, IsImplicit, NoIndex
<1> QED
  BY <1>1, <1>2

-----------------------------------------------------------------------------
(* What the invariant says of a task                                        *)

\* Labels that agree up to n agree up to any position before.
LEMMA AgreeLess ==
  ASSUME NEW l, NEW c, NEW n \in Nat, NEW m \in Nat, m <= n, Agree(l, c, n)
  PROVE  Agree(l, c, m)
BY DEF Agree

\* The parts of Typed about one task
LEMMA TypedTask ==
  ASSUME Typed, NEW t \in Tasks
  PROVE  /\ t \in Paths /\ Len(t) \in Nat /\ (t # InitialTask => Len(t) \in Nat \ {0})
         /\ LabelOfPath(t, label[t]) /\ Len(label[t]) = Len(t) + 1
         /\ clock[t] \in Nat /\ groups[t] = <<>>
         /\ status[t] \in {"running", "forked", "atBarrier", "atEnd", "released", "ended", "over"}
         /\ Stretch(t) = <<t, clock[t]>> /\ NextStretch(t) = <<t, clock[t] + 1>>
         /\ NextStretch(t) \in Paths \X Nat
         /\ t \in DOMAIN status /\ t \in DOMAIN clock /\ t \in DOMAIN groups /\ t \in DOMAIN past
<1>1. t \in Paths
  BY DEF Typed
<1>2. Len(t) \in Nat /\ (t # InitialTask => Len(t) \in Nat \ {0})
  BY <1>1, Sequences DEF Paths, InitialTask
<1>3. /\ LabelOfPath(t, label[t]) /\ clock[t] \in Nat /\ groups[t] = <<>>
      /\ status[t] \in {"running", "forked", "atBarrier", "atEnd", "released", "ended", "over"}
  BY DEF Typed
<1>4. /\ t \in DOMAIN status /\ t \in DOMAIN clock /\ t \in DOMAIN groups /\ t \in DOMAIN past
  BY DEF Typed
<1> QED
  BY <1>1, <1>2, <1>3, <1>4 DEF LabelOfPath, Stretch, NextStretch

\* The parts of Typed about one record
LEMMA TypedRecord ==
  ASSUME Typed, NEW s \in DOMAIN recorded
  PROVE  /\ s[1] \in Tasks /\ s[1] \in Paths /\ s[1] # InitialTask /\ s[2] \in Nat /\ s = <<s[1], s[2]>>
         /\ s[2] <= clock[s[1]] /\ Len(s[1]) \in Nat \ {0}
         /\ LabelOfPath(s[1], recorded[s]) /\ Len(recorded[s]) = Len(s[1]) + 1
<1>1. s \in Tasks \X Nat /\ s[1] # InitialTask /\ s[2] <= clock[s[1]] /\ LabelOfPath(s[1], recorded[s])
  BY DEF Typed
<1>2. s[1] \in Tasks /\ s[2] \in Nat /\ s = <<s[1], s[2]>>
  BY <1>1
<1>3. s[1] \in Paths /\ Len(s[1]) \in Nat \ {0}
  BY <1>1, <1>2, TypedTask
<1> QED
  BY <1>1, <1>2, <1>3 DEF LabelOfPath

\* A task whose region is not over has a parent that waits for it.
LEMMA Parent ==
  ASSUME Typed, Tree, NEW t \in Tasks, t # InitialTask
  PROVE  /\ Front(t) \in Tasks /\ Len(Front(t)) = Len(t) - 1 /\ Below(Front(t), t)
         /\ \A i \in 1..Len(t) - 1 : Front(t)[i] = t[i]
         /\ Front(t) = SubSeq(t, 1, Len(t) - 1)
         /\ Last(t) = t[Len(t)] /\ t[Len(t)] \in Step
         /\ t[Len(t)][1] \in Nat /\ t[Len(t)][2] \in Nat
         /\ t[Len(t)][1] <= clock[Front(t)]
         /\ Live(t) => status[Front(t)] = "forked" /\ Live(Front(t)) /\ t[Len(t)][1] = clock[Front(t)]
<1>1. t \in Paths /\ Len(t) \in Nat \ {0} /\ t # <<>>
  BY TypedTask DEF InitialTask
<1>2. /\ Len(Front(t)) = Len(t) - 1 /\ \A i \in 1..Len(t) - 1 : Front(t)[i] = t[i]
      /\ Front(t) = SubSeq(t, 1, Len(t) - 1)
      /\ Last(t) = t[Len(t)] /\ Last(t) \in Step
  BY <1>1, FrontOf DEF Paths
<1>3. Front(t) \in Tasks
  <2>1. Len(t) - 1 \in 0..Len(t)
    BY <1>1
  <2> QED
    BY <1>2, <2>1 DEF Tree
<1>4. Below(Front(t), t)
  BY <1>1, <1>2 DEF Below, SamePath
<1>5. (Len(t) - 1) + 1 = Len(t)
  BY <1>1
<1>6. /\ t[Len(t)][1] <= clock[Front(t)]
      /\ Live(t) => status[Front(t)] = "forked" /\ t[Len(t)][1] = clock[Front(t)]
  <2> DEFINE a == Front(t)
  <2>1. Len(a) + 1 = Len(t)
    BY <1>2, <1>5
  <2>2. a \in Tasks /\ Below(a, t)
    BY <1>3, <1>4
  <2> HIDE DEF a
  <2>3. /\ t[Len(a) + 1][1] <= clock[a]
        /\ Live(t) => status[a] = "forked" /\ t[Len(a) + 1][1] = clock[a]
    BY <2>2 DEF Tree
  <2> QED
    BY <2>1, <2>3 DEF a
<1>7. t[Len(t)][1] \in Nat /\ t[Len(t)][2] \in Nat
  BY <1>2 DEF Step
<1> QED
  BY <1>2, <1>3, <1>4, <1>6, <1>7 DEF Live

\* No offset wraps at the next barrier.
LEMMA NoWrap ==
  ASSUME NEW M \in Nat, ForkJoin(M), Typed, Tree, Counted(M), NEW t \in Tasks, Live(t), t # InitialTask
  PROVE  /\ Offset(label[t], Len(t)) + Span(label[t], Len(t)) < OffsetLimit
         /\ Offset(label[t], Len(t)) + Span(label[t], Len(t))
              < Span(label[t], Len(t)) * (1 + (clock[Front(t)] + 1) * (M + 1))
         /\ clock[Front(t)] < M
<1> DEFINE p == Front(t)
           k == Len(t)
           S == Span(label[p], k)
           O == Offset(label[p], k)
<1>1. /\ p \in Tasks /\ Live(p) /\ status[p] = "forked" /\ k = Len(p) + 1 /\ Len(p) \in Nat
      /\ clock[p] \in Nat /\ clock[t] \in Nat
  BY Parent, TypedTask
<1>2. /\ clock[p] < M /\ O < S * (1 + clock[p] * (M + 1)) /\ clock[t] <= M
      /\ Span(label[t], k) = S /\ Offset(label[t], k) <= O + S * clock[t]
  BY <1>1 DEF Counted
<1>3. /\ LabelOfPath(p, label[p]) /\ Len(label[p]) = Len(p) + 1 /\ k \in 1..Len(label[p])
      /\ LabelOfPath(t, label[t]) /\ k \in 1..Len(label[t])
  BY <1>1, TypedTask
<1>4. S \in Nat \ {0} /\ O \in Nat /\ Offset(label[t], k) \in Nat
  BY <1>3, LabelSegments
<1>5. S \in TeamSizes \cup {1}
  <2>1. CASE k = 1
    BY <1>3, <2>1 DEF LabelOfPath
  <2>2. CASE k # 1
    <3>1. k \in 2..Len(label[p])
      BY <1>1, <1>3, <2>2
    <3> QED
      BY <3>1, <1>3 DEF LabelOfPath
  <2> QED
    BY <2>1, <2>2
<1>6. S * (1 + M * (M + 1)) <= OffsetLimit
  BY <1>5 DEF ForkJoin
<1>7. ASSUME NEW c \in Nat, NEW d \in Nat, NEW s \in Nat \ {0}, NEW x \in Nat, NEW y \in Nat,
             c < M, d <= M, y < s * (1 + c * (M + 1)), x <= y + s * d, s * (1 + M * (M + 1)) <= OffsetLimit
      PROVE  x + s < s * (1 + (c + 1) * (M + 1)) /\ x + s < OffsetLimit
  <2>1. s * d <= s * M
    BY <1>7
  <2>2. s * (1 + (c + 1) * (M + 1)) = (s * (1 + c * (M + 1))) + ((s * M) + s)
    BY <1>7
  <2>3. s * (1 + (c + 1) * (M + 1)) <= s * (1 + M * (M + 1))
    <3>1. (c + 1) * (M + 1) <= M * (M + 1)
      BY <1>7
    <3>2. ASSUME NEW e \in Nat, NEW f \in Nat, e <= f PROVE s * (1 + e) <= s * (1 + f)
      BY <3>2
    <3>3. (c + 1) * (M + 1) \in Nat /\ M * (M + 1) \in Nat
      OBVIOUS
    <3> QED
      BY <3>1, <3>2, <3>3
  <2> DEFINE A == s * (1 + c * (M + 1))
             B == s * M
             C == s * (1 + (c + 1) * (M + 1))
             D == s * d
             E == s * (1 + M * (M + 1))
  <2>4. A \in Nat /\ B \in Nat /\ C \in Nat /\ D \in Nat /\ E \in Nat
    OBVIOUS
  <2>5. y < A /\ x <= y + D /\ D <= B /\ C = A + (B + s) /\ C <= E /\ E <= OffsetLimit
    BY <1>7, <2>1, <2>2, <2>3
  <2> HIDE DEF A, B, C, D, E
  <2>6. x + s < C /\ x + s < OffsetLimit
    BY <2>4, <2>5, OffsetLimitAssumption
  <2> QED
    BY <2>6 DEF C
<1> HIDE DEF p, k, S, O
<1>8. /\ Offset(label[t], k) + S < S * (1 + (clock[p] + 1) * (M + 1))
      /\ Offset(label[t], k) + S < OffsetLimit
  BY <1>1, <1>2, <1>4, <1>6, <1>7
<1> QED
  BY <1>2, <1>8 DEF p, k

\* The label that a barrier gives, and that of the parent after it
LEMMA Bumping ==
  ASSUME NEW M \in Nat, ForkJoin(M), Typed, Tree, Counted(M), NEW t \in Tasks, Live(t), t # InitialTask
  PROVE  /\ LabelOfPath(t, Bumped(t)) /\ Len(Bumped(t)) = Len(t) + 1
         /\ Ahead(label[t], Bumped(t), Len(t))
         /\ LabelOfPath(Front(t), Front(Bumped(t))) /\ Len(Front(Bumped(t))) = Len(t)
         /\ Ahead(label[t], Front(Bumped(t)), Len(t))
         /\ Agree(Bumped(t), Front(Bumped(t)), Len(t))
<1> DEFINE b == Bumped(t)
           f == Front(b)
           k == Len(t)
<1>1. /\ t \in Paths /\ k \in Nat \ {0} /\ LabelOfPath(t, label[t]) /\ Len(label[t]) = k + 1
      /\ NextStretch(t) \in Paths \X Nat
  BY TypedTask
<1>2. Offset(label[t], k) + Span(label[t], k) < OffsetLimit
  BY NoWrap
<1>3. /\ LabelOfPath(t, b) /\ Len(b) = Len(label[t])
      /\ \A i \in 1..Len(label[t]) : /\ Span(b, i) = Span(label[t], i)
                                     /\ i # k => Offset(b, i) = Offset(label[t], i)
      /\ Offset(b, k) = Offset(label[t], k) + Span(label[t], k)
  BY <1>1, <1>2, BumpedLabel DEF Bumped, ForkJoin
<1> HIDE DEF b
<1>4. /\ LabelOfPath(Front(t), f) /\ Len(f) = k
      /\ \A i \in 1..k : Offset(f, i) = Offset(b, i) /\ Span(f, i) = Span(b, i)
  BY <1>1, <1>3, FrontLabel
<1> HIDE DEF f
<1>5. Ahead(label[t], b, k)
  BY <1>1, <1>3 DEF Ahead
<1>6. Ahead(label[t], f, k)
  BY <1>1, <1>3, <1>4 DEF Ahead
<1>7. Agree(b, f, k)
  BY <1>1, <1>3, <1>4 DEF Agree
<1> QED
  BY <1>1, <1>3, <1>4, <1>5, <1>6, <1>7 DEF b, f

\* The label a task will go on with is a label of its path.
LEMMA Moving ==
  ASSUME NEW M \in Nat, ForkJoin(M), Typed, Tree, Counted(M), NEW t \in Tasks, Live(t)
  PROVE  /\ LabelOfPath(t, Moved(t)) /\ Len(Moved(t)) = Len(t) + 1
         /\ status[t] \in {"released", "ended"} => t # InitialTask
         /\ Len(Going(t)) = IF status[t] = "ended" THEN Len(t) ELSE Len(t) + 1
         /\ Agree(Moved(t), Going(t), Len(Going(t)))
<1>1. status[t] \in {"released", "ended"} => t # InitialTask
  BY DEF Typed
<1>2. Len(t) \in Nat /\ LabelOfPath(t, label[t]) /\ Len(label[t]) = Len(t) + 1
  BY TypedTask
<1>3. LabelOfPath(t, Moved(t)) /\ Len(Moved(t)) = Len(t) + 1
  BY <1>1, <1>2, Bumping DEF Moved
<1>4. CASE status[t] = "ended"
  <2>1. Going(t) = Front(Bumped(t)) /\ Moved(t) = Bumped(t)
    BY <1>4 DEF Going, Moved
  <2> QED
    BY <1>1, <1>3, <1>4, <2>1, Bumping
<1>5. CASE status[t] # "ended"
  <2>1. Going(t) = Moved(t)
    BY <1>5 DEF Going
  <2>2. Agree(Moved(t), Moved(t), Len(t) + 1)
    BY <1>2, <1>3 DEF Agree
  <2> QED
    BY <1>1, <1>3, <1>5, <2>1, <2>2
<1> QED
  BY <1>4, <1>5

\* Tasks that live, neither below the other, part in one team.
LEMMA LiveParts ==
  ASSUME Typed, Tree, NEW t \in Tasks, NEW u \in Tasks, Live(t), Live(u), t # u,
         ~Below(t, u), ~Below(u, t)
  PROVE  \E n \in 0..Len(t) : Part(t, u, n)
<1>1. t \in Paths /\ u \in Paths /\ Len(t) \in Nat /\ Len(u) \in Nat
  BY TypedTask
<1>2. PICK n \in Nat : n < Len(t) /\ n < Len(u) /\ SamePath(t, u, n) /\ t[n + 1] # u[n + 1]
  BY <1>1, Parting
<1> DEFINE a == SubSeq(t, 1, n)
<1>3. a = SubSeq(u, 1, n) /\ n \in 0..Len(t) /\ n \in 0..Len(u)
  BY <1>1, <1>2, SameAncestor
<1>4. a \in Tasks /\ Len(a) = n /\ Below(a, t)
  BY <1>1, <1>2, <1>3, Ancestor DEF Tree
<1>5. Below(a, u)
  BY <1>1, <1>2, <1>3, Ancestor
<1> HIDE DEF a
<1>6. t[n + 1][1] = clock[a] /\ u[n + 1][1] = clock[a]
  BY <1>4, <1>5 DEF Tree
<1>7. t[n + 1] = <<t[n + 1][1], t[n + 1][2]>> /\ u[n + 1] = <<u[n + 1][1], u[n + 1][2]>>
  <2>1. n + 1 \in 1..Len(t) /\ n + 1 \in 1..Len(u)
    BY <1>1, <1>2
  <2> QED
    BY <1>1, <2>1, StepParts
<1>8. t[n + 1][2] # u[n + 1][2]
  BY <1>2, <1>6, <1>7
<1> QED
  BY <1>2, <1>3, <1>6, <1>8 DEF Part, Inside

\* Those that wait for nobody are side by side.
LEMMA LiveBeside ==
  ASSUME NEW M \in Nat, ForkJoin(M), Typed, Tree, Counted(M), Coherent,
         NEW t \in Tasks, NEW v \in Tasks, Live(t), Live(v), t # v, status[t] # "forked", status[v] # "forked"
  PROVE  Beside(t, v, Moved(t), Going(v))
<1>1. ~Below(t, v) /\ ~Below(v, t)
  BY DEF Tree
<1>2. PICK n \in 0..Len(t) : Part(t, v, n)
  BY <1>1, LiveParts
<1>3. Len(t) \in Nat /\ Len(v) \in Nat /\ n \in Nat /\ n < Len(t) /\ n < Len(v) /\ SamePath(t, v, n)
      /\ t \in Paths /\ v \in Paths
  BY <1>2, TypedTask DEF Part, Inside
<1>4. Agree(Moved(t), Moved(v), n + 1) /\ Span(Moved(t), n + 2) = Span(Moved(v), n + 2)
  <2>1. Match(t, v, Moved(t), Moved(v))
    BY DEF Coherent
  <2> QED
    BY <1>3, <2>1 DEF Match
<1>5. /\ Len(Moved(t)) = Len(t) + 1
      /\ Len(Going(v)) = IF status[v] = "ended" THEN Len(v) ELSE Len(v) + 1
      /\ Agree(Moved(v), Going(v), Len(Going(v)))
      /\ status[v] \in {"released", "ended"} => v # InitialTask
  BY Moving
<1>6. n + 2 <= Len(Going(v))
  <2>1. CASE status[v] = "ended"
    <3>1. ~Below(Front(v), t)
      BY <2>1 DEF Tree
    <3>2. Len(Front(v)) = Len(v) - 1 /\ \A i \in 1..Len(v) - 1 : Front(v)[i] = v[i]
      BY <1>5, <2>1, Parent
    <3>3. ASSUME n = Len(v) - 1 PROVE FALSE
      <4>1. Below(Front(v), t)
        BY <1>3, <3>2, <3>3 DEF Below, SamePath
      <4> QED
        BY <3>1, <4>1
    <3> QED
      BY <1>3, <1>5, <2>1, <3>3
  <2>2. CASE status[v] # "ended"
    BY <1>3, <1>5, <2>2
  <2> QED
    BY <2>1, <2>2
<1>7. Agree(Moved(t), Going(v), n + 1) /\ Span(Moved(t), n + 2) = Span(Going(v), n + 2)
  <2>1. Len(Going(v)) \in Nat /\ n + 2 \in 1..Len(Going(v)) /\ \A i \in 1..n + 1 : i \in 1..Len(Going(v))
    BY <1>3, <1>5, <1>6
  <2>2. Span(Moved(v), n + 2) = Span(Going(v), n + 2)
    BY <1>5, <2>1 DEF Agree
  <2>3. Agree(Moved(t), Going(v), n + 1)
    BY <1>4, <1>5, <2>1 DEF Agree
  <2> QED
    BY <1>4, <2>2, <2>3
<1>8. n + 2 <= Len(Moved(t))
  BY <1>3, <1>5
<1> QED
  BY <1>2, <1>6, <1>7, <1>8 DEF Beside

-----------------------------------------------------------------------------
(* Longer labels and paths                                                  *)

\* What precedes a label precedes a longer one.
LEMMA PrecedesLonger ==
  ASSUME NEW l, NEW c, NEW b, Len(l) \in Nat, Len(c) \in Nat, Len(b) \in Nat,
         Precedes(l, c), Len(c) <= Len(b), Agree(c, b, Len(c))
  PROVE  Precedes(l, b)
<1>1. ASSUME NEW n \in Nat, n <= Len(c), Agree(l, c, n) PROVE Agree(l, b, n)
  BY <1>1 DEF Agree
<1>2. CASE Len(l) < Len(c) /\ Agree(l, c, Len(l))
  BY <1>1, <1>2 DEF Precedes
<1>3. CASE \E i \in 1..Len(l) : i <= Len(c) /\ Behind(l, c, i)
  <2>1. PICK i \in 1..Len(l) : i <= Len(c) /\ Behind(l, c, i)
    BY <1>3
  <2>2. i - 1 \in Nat /\ i - 1 <= Len(c) /\ i \in 1..Len(c) /\ i <= Len(b)
    BY <2>1
  <2>3. Offset(c, i) = Offset(b, i) /\ Span(c, i) = Span(b, i)
    BY <2>2 DEF Agree
  <2>4. Agree(l, b, i - 1)
    BY <1>1, <2>1, <2>2 DEF Behind
  <2>5. Behind(l, b, i)
    BY <2>1, <2>3, <2>4 DEF Behind
  <2> QED
    BY <2>2, <2>5 DEF Precedes
<1> QED
  BY <1>2, <1>3 DEF Precedes

\* What is beside a task is beside what is below the task.
LEMMA BesideLonger ==
  ASSUME NEW p, NEW t, NEW u, NEW l, NEW c, NEW b, Len(p) \in Nat, Len(t) \in Nat, Len(u) \in Nat,
         Len(c) \in Nat, Len(b) \in Nat, Len(l) \in Nat,
         Beside(p, t, l, c), Len(c) <= Len(b), Agree(c, b, Len(c)), SamePath(t, u, Len(t)), Len(t) <= Len(u)
  PROVE  Beside(p, u, l, b)
<1>1. PICK n \in 0..Len(p) : /\ Part(p, t, n) /\ n + 2 <= Len(c) /\ n + 2 <= Len(l)
                             /\ Agree(l, c, n + 1) /\ Span(l, n + 2) = Span(c, n + 2)
  BY DEF Beside
<1>2. n \in Nat /\ n + 1 \in 1..Len(t) /\ \A i \in 1..n : i \in 1..Len(t)
  BY <1>1 DEF Part
<1>3. t[n + 1] = u[n + 1] /\ \A i \in 1..n : t[i] = u[i]
  BY <1>2 DEF SamePath
<1>4. Part(p, u, n)
  BY <1>1, <1>2, <1>3 DEF Part, Inside, SamePath
<1>5. Agree(l, b, n + 1) /\ n + 2 <= Len(b)
  BY <1>1, <1>2 DEF Agree
<1>6. n + 2 \in 1..Len(c)
  BY <1>1, <1>2
<1>7. Span(c, n + 2) = Span(b, n + 2)
  BY <1>6 DEF Agree
<1> QED
  BY <1>1, <1>4, <1>5, <1>7 DEF Beside

\* What is below a task is beside what the task is beside.
LEMMA LongerBeside ==
  ASSUME NEW t, NEW v, NEW w, NEW l, NEW c, NEW b, Len(w) \in Nat, Len(t) \in Nat, Len(v) \in Nat,
         Len(c) \in Nat, Len(b) \in Nat, Len(l) \in Nat,
         Beside(t, v, l, c), Len(l) <= Len(b), Agree(l, b, Len(l)), SamePath(t, w, Len(t)), Len(t) <= Len(w)
  PROVE  Beside(w, v, b, c)
<1>1. PICK n \in 0..Len(t) : /\ Part(t, v, n) /\ n + 2 <= Len(c) /\ n + 2 <= Len(l)
                             /\ Agree(l, c, n + 1) /\ Span(l, n + 2) = Span(c, n + 2)
  BY DEF Beside
<1>2. n \in Nat /\ n + 1 \in 1..Len(t) /\ \A i \in 1..n : i \in 1..Len(t)
  BY <1>1 DEF Part, Inside
<1>3. t[n + 1] = w[n + 1] /\ \A i \in 1..n : t[i] = w[i]
  BY <1>2 DEF SamePath
<1>4. Part(w, v, n) /\ n \in 0..Len(w)
  BY <1>1, <1>2, <1>3 DEF Part, Inside, SamePath
<1>5. Agree(b, c, n + 1) /\ n + 2 <= Len(b)
  BY <1>1, <1>2 DEF Agree
<1>6. n + 2 \in 1..Len(l)
  BY <1>1, <1>2
<1>7. Span(l, n + 2) = Span(b, n + 2)
  BY <1>6 DEF Agree
<1> QED
  BY <1>1, <1>4, <1>5, <1>7 DEF Beside

\* Two tasks match each other.
LEMMA MatchSymmetric ==
  ASSUME NEW t, NEW u, NEW l, NEW c, Len(t) \in Nat, Len(u) \in Nat, Match(t, u, l, c)
  PROVE  Match(u, t, c, l)
<1> SUFFICES ASSUME NEW j \in 0..Len(u), j <= Len(t), SamePath(u, t, j)
             PROVE  /\ Agree(c, l, j) /\ Span(c, j + 1) = Span(l, j + 1)
                    /\ j < Len(u) /\ j < Len(t) => Agree(c, l, j + 1) /\ Span(c, j + 2) = Span(l, j + 2)
  BY DEF Match
<1>1. j \in 0..Len(t) /\ SamePath(t, u, j)
  BY DEF SamePath
<1>2. /\ Agree(l, c, j) /\ Span(l, j + 1) = Span(c, j + 1)
      /\ j < Len(t) /\ j < Len(u) => Agree(l, c, j + 1) /\ Span(l, j + 2) = Span(c, j + 2)
  BY <1>1 DEF Match
<1> QED
  BY <1>2 DEF Agree

\* Regions are told by the paths to them.
LEMMA InsideSame ==
  ASSUME NEW p, NEW t, NEW u, NEW n \in Nat, \A i \in 1..n + 1 : t[i] = u[i], n < Len(t), n < Len(u)
  PROVE  /\ Inside(p, t, n) <=> Inside(p, u, n)
         /\ Inside(t, p, n) <=> Inside(u, p, n)
<1>1. t[n + 1] = u[n + 1] /\ \A i \in 1..n : t[i] = u[i]
  OBVIOUS
<1> QED
  BY <1>1 DEF Inside, SamePath

\* The path above another is the beginning of it.
LEMMA BelowIs ==
  ASSUME NEW a \in Paths, NEW v \in Paths, Below(a, v)
  PROVE  a = SubSeq(v, 1, Len(a)) /\ Len(a) \in Nat /\ Len(v) \in Nat /\ Len(a) \in 0..Len(v)
<1>1. Len(a) \in Nat /\ Len(v) \in Nat
  BY Sequences DEF Paths
<1>2. Len(a) <= Len(v) /\ SamePath(a, v, Len(a)) /\ Len(a) \in 0..Len(a)
  BY <1>1 DEF Below
<1>3. SubSeq(a, 1, Len(a)) = SubSeq(v, 1, Len(a))
  BY <1>1, <1>2, SameAncestor
<1>4. SubSeq(a, 1, Len(a)) = a
  BY <1>1, <1>2, Ancestor
<1> QED
  BY <1>1, <1>2, <1>3, <1>4

\* What is above a child of a task is the task or above it.
LEMMA BelowChild ==
  ASSUME NEW a \in Paths, NEW t \in Paths, NEW u \in Paths, Len(u) = Len(t) + 1, \A i \in 1..Len(t) : u[i] = t[i],
         Below(a, u), a # t
  PROVE  Below(a, t)
<1>1. Len(a) \in Nat /\ Len(t) \in Nat /\ Len(a) <= Len(t) /\ \A i \in 1..Len(a) : a[i] = t[i]
  <2>1. Len(a) \in Nat /\ Len(t) \in Nat
    BY Sequences DEF Paths
  <2> QED
    BY <2>1 DEF Below, SamePath
<1>2. Len(a) # Len(t)
  <2>1. ASSUME Len(a) = Len(t) PROVE a = t
    BY <1>1, <2>1, SeqEqual DEF Paths
  <2> QED
    BY <2>1
<1> QED
  BY <1>1, <1>2 DEF Below, SamePath

\* Below a task that waits for nobody nothing is in its current stretch or lives.
LEMMA NoneBelow ==
  ASSUME Tree, NEW t \in Tasks, status[t] \notin {"forked", "over"}, NEW v \in Tasks, Below(t, v)
  PROVE  v[Len(t) + 1][1] # clock[t] /\ ~Live(v)
BY DEF Tree

\* Extend: the domain, the new values and the old ones
LEMMA Extending ==
  ASSUME NEW f, NEW g
  PROVE  /\ DOMAIN Extend(f, g) = DOMAIN f \cup DOMAIN g
         /\ \A x \in DOMAIN g : Extend(f, g)[x] = g[x]
         /\ \A x \in DOMAIN f : x \notin DOMAIN g => Extend(f, g)[x] = f[x]
BY DEF Extend

\* A task that a step leaves alone has the label it had.
LEMMA SameMoved ==
  ASSUME NEW v, label'[v] = label[v], clock'[v] = clock[v],
         \/ status'[v] = status[v]
         \/ status'[v] \notin {"released", "ended"} /\ status[v] \notin {"released", "ended"}
  PROVE  Moved(v)' = Moved(v) /\ Going(v)' = Going(v) /\ Stretch(v)' = Stretch(v)
BY DEF Moved, Going, Bumped, NextStretch, Stretch

-----------------------------------------------------------------------------
(* The fork of a team                                                       *)

\* What parallel_begin of t changes: the team N is new, all else stays.
Forks(t, size, N) ==
  /\ status[t] = "running" /\ t \in Tasks /\ Tasks' = Tasks \cup N /\ N \cap Tasks = {}
  /\ app' = app
  /\ \A d \in {DOMAIN status', DOMAIN clock', DOMAIN groups', DOMAIN past'} : d = Tasks'
  /\ \A v \in Tasks : /\ label'[v] = label[v] /\ clock'[v] = clock[v] /\ past'[v] = past[v]
                      /\ groups'[v] = groups[v]
                      /\ status'[v] = IF v = t THEN "forked" ELSE status[v]
  /\ \A u \in N : /\ status'[u] = "running" /\ clock'[u] = 0 /\ groups'[u] = <<>>
                  /\ past'[u] = Upto(t)
                  /\ u \in Paths /\ u # InitialTask /\ Len(u) = Len(t) + 1 /\ Front(u) = t
                  /\ \A i \in 1..Len(t) : u[i] = t[i]
                  /\ u[Len(t) + 1][1] = clock[t]
                  /\ LabelOfPath(u, label'[u]) /\ Len(label'[u]) = Len(t) + 2
                  /\ Agree(label[t], label'[u], Len(t) + 1)
                  /\ Offset(label'[u], Len(t) + 2) < size /\ Span(label'[u], Len(t) + 2) = size
                  /\ recorded'[<<u, 0>>] = label'[u]
  /\ \A u, w \in N : u # w => u[Len(t) + 1][2] # w[Len(t) + 1][2]
  /\ DOMAIN recorded' = DOMAIN recorded \cup {<<u, 0>> : u \in N}
  /\ \A s \in DOMAIN recorded : recorded'[s] = recorded[s]

\* ParallelBegin does what Forks says, with the team that is forked for N.
LEMMA ForksIfParallelBegin ==
  ASSUME NEW M \in Nat, ForkJoin(M), IInv(M), NEW t \in Tasks, NEW size \in TeamSizes, ParallelBegin(t, size)
  PROVE  \E N : Forks(t, size, N) /\ clock[t] < M /\ Len(t) + 1 < Len(MaxSteps)
<1> USE DEF IInv
<1> DEFINE N == {Append(t, <<clock[t], k>>) : k \in 0..size-1}
           LabelOf(u) == genImpTaskLabel(label[t], Last(u)[2], size, <<u, 0>>)
<1>1. /\ t \in Paths /\ Len(t) \in Nat /\ LabelOfPath(t, label[t]) /\ Len(label[t]) = Len(t) + 1
      /\ clock[t] \in Nat
  BY TypedTask
<1> DEFINE forked == [status EXCEPT ![t] = "forked"]
           labels == [u \in N |-> LabelOf(u)]
           running == [u \in N |-> "running"]
           zeros == [u \in N |-> 0]
           upto == [u \in N |-> Upto(t)]
           none == [u \in N |-> <<>>]
           records == [s \in {<<u, 0>> : u \in N} |-> LabelOf(s[1])]
<1>2. status[t] = "running" /\ clock[t] < MaxSteps[Len(t) + 1] /\ Len(t) + 1 < Len(MaxSteps) /\ app' = app
  BY DEF ParallelBegin, CanHaveTasks, CanStep, Running
<1>21. /\ label' = Extend(label, labels)
      /\ status' = Extend(forked, running)
      /\ clock' = Extend(clock, zeros)
      /\ past' = Extend(past, upto)
      /\ recorded' = Extend(recorded, records)
      /\ groups' = Extend(groups, none)
  BY DEF ParallelBegin, CanHaveTasks, CanStep, Running, Birth
<1> HIDE DEF forked
<1>19. /\ DOMAIN labels = N /\ DOMAIN running = N /\ DOMAIN zeros = N /\ DOMAIN upto = N /\ DOMAIN none = N
       /\ DOMAIN records = {<<u, 0>> : u \in N}
  OBVIOUS
<1>20. \A u \in N : /\ labels[u] = LabelOf(u) /\ running[u] = "running" /\ zeros[u] = 0 /\ upto[u] = Upto(t)
                    /\ none[u] = <<>> /\ records[<<u, 0>>] = LabelOf(u)
  <2> HIDE DEF N, LabelOf
  <2> QED
    OBVIOUS
<1> HIDE DEF labels, running, zeros, upto, none, records
<1>3. clock[t] < M
  <2>1. MaxSteps \in Seq(Nat)
    BY BoundsAssumption DEF Typed, MaxSteps
  <2>2. Len(t) + 1 \in DOMAIN MaxSteps /\ MaxSteps[Len(t) + 1] \in Nat
    BY <1>1, <1>2, <2>1, Sequences
  <2>3. MaxSteps[Len(t) + 1] <= M
    BY <2>2 DEF ForkJoin
  <2> QED
    BY <1>1, <1>2, <2>2, <2>3
<1>4. size \in Nat \ {0, 1} /\ size <= OffsetLimit /\ TeamSizes \subseteq Nat \ {0, 1}
  <2>1. app \in Programs
    BY DEF Typed
  <2>2. TeamSizes \subseteq 1..OffsetLimit
    BY <2>1, BoundsAssumption DEF TeamSizes
  <2> QED
    BY <2>2 DEF ForkJoin
<1>5. N = {Member(t, clock[t], k) : k \in 0..size-1}
  BY DEF Member
<1>6. ASSUME NEW u \in N
      PROVE  /\ u \in Paths /\ u # InitialTask /\ Len(u) = Len(t) + 1 /\ Front(u) = t
             /\ \A i \in 1..Len(t) : u[i] = t[i]
             /\ u[Len(t) + 1][1] = clock[t]
             /\ LabelOfPath(u, LabelOf(u)) /\ Len(LabelOf(u)) = Len(t) + 2
             /\ Agree(label[t], LabelOf(u), Len(t) + 1)
             /\ Offset(LabelOf(u), Len(t) + 2) < size /\ Span(LabelOf(u), Len(t) + 2) = size
  <2>1. PICK k \in 0..size-1 : u = Member(t, clock[t], k)
    BY <1>5
  <2>2. k \in Nat /\ k < size
    BY <1>4
  <2>3. /\ u \in Paths /\ u # InitialTask /\ Len(u) = Len(t) + 1 /\ Front(u) = t
        /\ \A i \in 1..Len(t) : u[i] = t[i]
        /\ u[Len(t) + 1] = <<clock[t], k>> /\ Last(u) = <<clock[t], k>>
    <3> DEFINE c == clock[t]
               w == Member(t, c, k)
    <3>1. t \in Paths /\ c \in Nat /\ k \in Nat
      BY <1>1, <2>2
    <3> HIDE DEF c
    <3>2. /\ w \in Paths /\ Len(w) = Len(t) + 1 /\ w # InitialTask
          /\ \A i \in 1..Len(t) : w[i] = t[i]
          /\ w[Len(t) + 1] = <<c, k>> /\ Last(w) = <<c, k>> /\ Front(w) = t
      BY <3>1, ForkedTask
    <3>3. u = w
      BY <2>1 DEF c
    <3> HIDE DEF w
    <3> QED
      BY <3>2, <3>3 DEF c
  <2>4. LabelOf(u) = MemberLabel(t, label[t], clock[t], k, size)
    BY <2>1, <2>3 DEF MemberLabel
  <2> DEFINE b == LabelOf(u)
  <2> HIDE DEF LabelOf, N, b
  <2>5. /\ LabelOfPath(u, b) /\ Len(b) = Len(t) + 2
        /\ Agree(label[t], b, Len(t) + 1)
        /\ Offset(b, Len(t) + 2) = k /\ Span(b, Len(t) + 2) = size
    BY <1>1, <1>4, <2>1, <2>4, ForkedLabel DEF b
  <2> QED
    BY <2>2, <2>3, <2>5 DEF b
<1>7. ASSUME NEW u \in N, NEW w \in N, u # w PROVE u[Len(t) + 1][2] # w[Len(t) + 1][2]
  <2>1. PICK j \in 0..size-1 : u = Member(t, clock[t], j)
    BY <1>5
  <2>2. PICK k \in 0..size-1 : w = Member(t, clock[t], k)
    BY <1>5
  <2>3. j # k
    BY <1>7, <2>1, <2>2
  <2>4. j \in Nat /\ k \in Nat
    BY <1>4
  <2>5. u[Len(t) + 1] = <<clock[t], j>>
    BY <1>1, <2>1, <2>4, ForkedTask
  <2>6. w[Len(t) + 1] = <<clock[t], k>>
    BY <1>1, <2>2, <2>4, ForkedTask
  <2> QED
    BY <2>3, <2>5, <2>6
<1> HIDE DEF N, LabelOf
<1>8. ASSUME NEW u \in N PROVE u \notin Tasks
  <2>1. Below(t, u)
    BY <1>1, <1>6 DEF Below, SamePath
  <2> QED
    BY <1>2, <1>6, <2>1, NoneBelow
<1>9. t \notin N
  BY <1>8
<1>10. \A u \in N : <<u, 0>> \notin DOMAIN recorded
  BY <1>8 DEF Typed
<1>11. Tasks = DOMAIN label /\ DOMAIN status = Tasks /\ DOMAIN clock = Tasks /\ DOMAIN groups = Tasks /\ DOMAIN past = Tasks
  BY DEF Typed, Tasks
<1>12. DOMAIN forked = Tasks /\ \A v \in Tasks : forked[v] = IF v = t THEN "forked" ELSE status[v]
  BY <1>11 DEF forked
<1>31. /\ DOMAIN label' = Tasks \cup N
       /\ \A v \in Tasks : label'[v] = label[v]
       /\ \A u \in N : label'[u] = LabelOf(u)
  <2>1. label' = Extend(label, labels)
    BY <1>21
  <2>2. DOMAIN label' = DOMAIN label \cup DOMAIN labels
    BY <2>1, Extending
  <2>3. \A u \in DOMAIN labels : label'[u] = labels[u]
    BY <2>1 DEF Extend
  <2>4. \A v \in DOMAIN label : v \notin DOMAIN labels => label'[v] = label[v]
    BY <2>1, Extending
  <2>5. DOMAIN labels = N /\ (\A u \in N : labels[u] = LabelOf(u)) /\ DOMAIN label = Tasks
    BY <1>11, <1>12, <1>19, <1>20
  <2> QED
    BY <1>8, <2>2, <2>3, <2>4, <2>5
<1>32. /\ DOMAIN status' = Tasks \cup N
       /\ \A v \in Tasks : status'[v] = forked[v]
       /\ \A u \in N : status'[u] = "running"
  <2>1. status' = Extend(forked, running)
    BY <1>21
  <2>2. DOMAIN status' = DOMAIN forked \cup DOMAIN running
    BY <2>1, Extending
  <2>3. \A u \in DOMAIN running : status'[u] = running[u]
    BY <2>1 DEF Extend
  <2>4. \A v \in DOMAIN forked : v \notin DOMAIN running => status'[v] = forked[v]
    BY <2>1, Extending
  <2>5. DOMAIN running = N /\ (\A u \in N : running[u] = "running") /\ DOMAIN forked = Tasks
    BY <1>11, <1>12, <1>19, <1>20
  <2> QED
    BY <1>8, <2>2, <2>3, <2>4, <2>5
<1>33. /\ DOMAIN clock' = Tasks \cup N
       /\ \A v \in Tasks : clock'[v] = clock[v]
       /\ \A u \in N : clock'[u] = 0
  <2>1. clock' = Extend(clock, zeros)
    BY <1>21
  <2>2. DOMAIN clock' = DOMAIN clock \cup DOMAIN zeros
    BY <2>1, Extending
  <2>3. \A u \in DOMAIN zeros : clock'[u] = zeros[u]
    BY <2>1 DEF Extend
  <2>4. \A v \in DOMAIN clock : v \notin DOMAIN zeros => clock'[v] = clock[v]
    BY <2>1, Extending
  <2>5. DOMAIN zeros = N /\ (\A u \in N : zeros[u] = 0) /\ DOMAIN clock = Tasks
    BY <1>11, <1>12, <1>19, <1>20
  <2> QED
    BY <1>8, <2>2, <2>3, <2>4, <2>5
<1>34. /\ DOMAIN past' = Tasks \cup N
       /\ \A v \in Tasks : past'[v] = past[v]
       /\ \A u \in N : past'[u] = Upto(t)
  <2>1. past' = Extend(past, upto)
    BY <1>21
  <2>2. DOMAIN past' = DOMAIN past \cup DOMAIN upto
    BY <2>1, Extending
  <2>3. \A u \in DOMAIN upto : past'[u] = upto[u]
    BY <2>1 DEF Extend
  <2>4. \A v \in DOMAIN past : v \notin DOMAIN upto => past'[v] = past[v]
    BY <2>1, Extending
  <2>5. DOMAIN upto = N /\ (\A u \in N : upto[u] = Upto(t)) /\ DOMAIN past = Tasks
    BY <1>11, <1>12, <1>19, <1>20
  <2> QED
    BY <1>8, <2>2, <2>3, <2>4, <2>5
<1>35. /\ DOMAIN groups' = Tasks \cup N
       /\ \A v \in Tasks : groups'[v] = groups[v]
       /\ \A u \in N : groups'[u] = <<>>
  <2>1. groups' = Extend(groups, none)
    BY <1>21
  <2>2. DOMAIN groups' = DOMAIN groups \cup DOMAIN none
    BY <2>1, Extending
  <2>3. \A u \in DOMAIN none : groups'[u] = none[u]
    BY <2>1 DEF Extend
  <2>4. \A v \in DOMAIN groups : v \notin DOMAIN none => groups'[v] = groups[v]
    BY <2>1, Extending
  <2>5. DOMAIN none = N /\ (\A u \in N : none[u] = <<>>) /\ DOMAIN groups = Tasks
    BY <1>11, <1>12, <1>19, <1>20
  <2> QED
    BY <1>8, <2>2, <2>3, <2>4, <2>5
<1>13. Tasks' = Tasks \cup N
  BY <1>31 DEF Tasks
<1>14. \A d \in {DOMAIN status', DOMAIN clock', DOMAIN groups', DOMAIN past'} : d = Tasks'
  BY <1>13, <1>32, <1>33, <1>34, <1>35
<1>15. ASSUME NEW v \in Tasks
       PROVE  /\ label'[v] = label[v] /\ clock'[v] = clock[v] /\ past'[v] = past[v] /\ groups'[v] = groups[v]
              /\ status'[v] = IF v = t THEN "forked" ELSE status[v]
  BY <1>12, <1>31, <1>32, <1>33, <1>34, <1>35
<1>17. /\ DOMAIN recorded' = DOMAIN recorded \cup {<<u, 0>> : u \in N}
       /\ \A s \in DOMAIN recorded : recorded'[s] = recorded[s]
       /\ \A u \in N : recorded'[<<u, 0>>] = LabelOf(u)
  <2>1. recorded' = Extend(recorded, records)
    BY <1>21
  <2>2. DOMAIN recorded' = DOMAIN recorded \cup DOMAIN records
    BY <2>1, Extending
  <2>3. \A s \in DOMAIN records : recorded'[s] = records[s]
    BY <2>1 DEF Extend
  <2>4. \A s \in DOMAIN recorded : s \notin DOMAIN records => recorded'[s] = recorded[s]
    BY <2>1, Extending
  <2>5. DOMAIN records = {<<u, 0>> : u \in N}
    BY <1>19
  <2>6. \A s \in DOMAIN recorded : s \notin DOMAIN records
    BY <1>10, <2>5
  <2>7. ASSUME NEW u \in N PROVE recorded'[<<u, 0>>] = LabelOf(u)
    <3>1. <<u, 0>> \in DOMAIN records
      BY <2>5
    <3>2. records[<<u, 0>>] = LabelOf(u)
      BY <1>20
    <3> QED
      BY <2>3, <3>1, <3>2
  <2> QED
    BY <2>2, <2>4, <2>5, <2>6, <2>7
<1>16. ASSUME NEW u \in N
       PROVE  /\ status'[u] = "running" /\ clock'[u] = 0 /\ groups'[u] = <<>> /\ past'[u] = Upto(t)
              /\ label'[u] = LabelOf(u) /\ recorded'[<<u, 0>>] = LabelOf(u)
  BY <1>17, <1>31, <1>32, <1>33, <1>34, <1>35
<1>18. Forks(t, size, N)
  <2>1. \A u \in N : /\ status'[u] = "running" /\ clock'[u] = 0 /\ groups'[u] = <<>>
                     /\ past'[u] = Upto(t)
                     /\ u \in Paths /\ u # InitialTask /\ Len(u) = Len(t) + 1 /\ Front(u) = t
                     /\ \A i \in 1..Len(t) : u[i] = t[i]
                     /\ u[Len(t) + 1][1] = clock[t]
                     /\ LabelOfPath(u, label'[u]) /\ Len(label'[u]) = Len(t) + 2
                     /\ Agree(label[t], label'[u], Len(t) + 1)
                     /\ Offset(label'[u], Len(t) + 2) < size /\ Span(label'[u], Len(t) + 2) = size
                     /\ recorded'[<<u, 0>>] = label'[u]
    BY <1>6, <1>16, ZenonT(40)
  <2>2. N \cap Tasks = {}
    BY <1>8
  <2>3. status[t] = "running" /\ app' = app
    BY <1>2
  <2>4. /\ DOMAIN recorded' = DOMAIN recorded \cup {<<u, 0>> : u \in N}
        /\ \A s \in DOMAIN recorded : recorded'[s] = recorded[s]
    BY <1>17
  <2> HIDE DEF IInv
  <2> QED
    BY <1>7, <1>13, <1>14, <1>15, <2>1, <2>2, <2>3, <2>4, Zenon DEF Forks
<1>40. clock[t] < M /\ Len(t) + 1 < Len(MaxSteps)
  BY <1>2, <1>3
<1> QED
  BY <1>18, <1>40

\* Agree is symmetric,
LEMMA AgreeSymmetric ==
  ASSUME NEW l, NEW c, NEW n, Agree(l, c, n)
  PROVE  Agree(c, l, n)
BY DEF Agree

\* and transitive.
LEMMA AgreeTransfer ==
  ASSUME NEW l, NEW c, NEW b, NEW n, Agree(l, c, n), Agree(c, b, n)
  PROVE  Agree(l, b, n)
BY DEF Agree

\* Labels that agree have the same offset and span at each position.
LEMMA AgreeAt ==
  ASSUME NEW l, NEW c, NEW n \in Nat, NEW m \in Nat \ {0}, m <= n, Agree(l, c, n)
  PROVE  Offset(l, m) = Offset(c, m) /\ Span(l, m) = Span(c, m) /\ m <= Len(l) /\ m <= Len(c)
<1>1. m \in 1..n
  OBVIOUS
<1> QED
  BY <1>1 DEF Agree

\* A new task under t, with a label that continues its label, matches what t matches.
LEMMA MatchLonger ==
  ASSUME NEW v, NEW t, NEW u, NEW l, NEW c, NEW b, Len(v) \in Nat, Len(t) \in Nat, Len(u) = Len(t) + 1,
         Match(v, t, l, c), Agree(c, b, Len(t) + 1), \A i \in 1..Len(t) : u[i] = t[i],
         ~(Len(v) > Len(t) /\ \A i \in 1..Len(t) : v[i] = t[i])
  PROVE  Match(v, u, l, b)
<1> SUFFICES ASSUME NEW j \in 0..Len(v), j <= Len(u), SamePath(v, u, j)
             PROVE  /\ Agree(l, b, j) /\ Span(l, j + 1) = Span(b, j + 1)
                    /\ j < Len(v) /\ j < Len(u) => Agree(l, b, j + 1) /\ Span(l, j + 2) = Span(b, j + 2)
  BY DEF Match
<1>1. j \in Nat /\ j <= Len(t) /\ j + 1 \in Nat \ {0} /\ j + 2 \in Nat \ {0} /\ Len(t) + 1 \in Nat
  <2>1. ASSUME j > Len(t) PROVE FALSE
    <3>1. \A i \in 1..Len(t) : v[i] = t[i]
      BY <2>1 DEF SamePath
    <3> QED
      BY <2>1, <3>1
  <2> QED
    BY <2>1
<1>2. SamePath(v, t, j)
  BY <1>1 DEF SamePath
<1>3. /\ Agree(l, c, j) /\ Span(l, j + 1) = Span(c, j + 1)
      /\ j < Len(v) /\ j < Len(t) => Agree(l, c, j + 1) /\ Span(l, j + 2) = Span(c, j + 2)
  BY <1>1, <1>2 DEF Match
<1>4. Agree(l, b, j) /\ Span(l, j + 1) = Span(b, j + 1)
  <2>1. Agree(c, b, j)
    BY <1>1, AgreeLess
  <2>2. Span(c, j + 1) = Span(b, j + 1)
    BY <1>1, AgreeAt
  <2> QED
    BY <1>3, <2>1, <2>2, AgreeTransfer
<1>5. ASSUME j < Len(v), j < Len(u) PROVE Agree(l, b, j + 1) /\ Span(l, j + 2) = Span(b, j + 2)
  <2>1. j < Len(t)
    <3>1. ASSUME j = Len(t) PROVE FALSE
      BY <1>2, <1>5, <3>1 DEF SamePath
    <3> QED
      BY <1>1, <3>1
  <2>2. Agree(l, c, j + 1) /\ Span(l, j + 2) = Span(c, j + 2)
    BY <1>3, <1>5, <2>1
  <2>3. Agree(c, b, j + 1)
    BY <1>1, AgreeLess
  <2>4. Span(c, j + 2) = Span(b, j + 2)
    BY <1>1, <2>1, AgreeAt
  <2> QED
    BY <2>2, <2>3, <2>4, AgreeTransfer
<1> QED
  BY <1>4, <1>5

\* Typed in the next state, from facts about the next values
LEMMA TypedNext ==
  ASSUME app' = app, app \in Programs, Tasks' \subseteq Paths, InitialTask \in Tasks',
         \A d \in {DOMAIN status', DOMAIN clock', DOMAIN groups', DOMAIN past'} : d = Tasks',
         \A v \in Tasks' : /\ status'[v] \in {"running", "forked", "atBarrier", "atEnd", "released", "ended", "over"}
                           /\ clock'[v] \in Nat /\ groups'[v] = <<>> /\ LabelOfPath(v, label'[v])
                           /\ \A s \in past'[v] : s[1] \in Tasks' /\ s[2] \in Nat /\ s[2] <= clock'[s[1]],
         status'[InitialTask] \in {"running", "forked"},
         \A s \in DOMAIN recorded' : /\ s \in Tasks' \X Nat /\ s[1] # InitialTask /\ s[2] <= clock'[s[1]]
                                     /\ LabelOfPath(s[1], recorded'[s])
  PROVE  Typed'
<1>1. TeamSizes' = TeamSizes
  BY DEF TeamSizes
<1>2. ASSUME NEW v \in Tasks' PROVE LabelOfPath(v, label[v])'
  <2>1. LabelOfPath(v, label'[v])
    OBVIOUS
  <2> QED
    BY <1>1, <2>1 DEF LabelOfPath
<1>3. ASSUME NEW s \in DOMAIN recorded' PROVE LabelOfPath(s[1], recorded[s])'
  <2>1. LabelOfPath(s[1], recorded'[s])
    OBVIOUS
  <2> QED
    BY <1>1, <2>1 DEF LabelOfPath
<1> QED
  BY <1>2, <1>3 DEF Typed

\* The fork of a team preserves the invariant.
LEMMA ForksKeep ==
  ASSUME NEW M \in Nat, ForkJoin(M), IInv(M), NEW t, NEW size \in TeamSizes, NEW N, Forks(t, size, N),
         clock[t] < M, Len(t) + 1 < Len(MaxSteps)
  PROVE  IInv(M)'
<1>1. /\ Typed /\ Tree /\ Counted(M) /\ Coherent /\ RegionBehind
      /\ PastOfRegion /\ PastOfFork /\ Current /\ AllTold
  BY DEF IInv
<1>2. /\ t \in Tasks /\ status[t] = "running" /\ Live(t) /\ Tasks' = Tasks \cup N /\ N \cap Tasks = {} /\ app' = app
  BY DEF Forks, Live
<1>3. /\ t \in Paths /\ Len(t) \in Nat /\ LabelOfPath(t, label[t]) /\ Len(label[t]) = Len(t) + 1
      /\ clock[t] \in Nat /\ Stretch(t) = <<t, clock[t]>>
  BY <1>1, <1>2, TypedTask
<1>4. ASSUME NEW v \in Tasks
      PROVE  /\ label'[v] = label[v] /\ clock'[v] = clock[v] /\ past'[v] = past[v]
             /\ groups'[v] = groups[v] /\ status'[v] = IF v = t THEN "forked" ELSE status[v]
             /\ v \in Tasks' /\ v \notin N
  BY <1>2 DEF Forks
<1>5. ASSUME NEW u \in N
      PROVE  /\ status'[u] = "running" /\ clock'[u] = 0 /\ groups'[u] = <<>> /\ past'[u] = Upto(t)
             /\ u \in Paths /\ u # InitialTask /\ Len(u) = Len(t) + 1 /\ Front(u) = t
             /\ \A i \in 1..Len(t) : u[i] = t[i]
             /\ u[Len(t) + 1][1] = clock[t] /\ Len(u) \in Nat
             /\ u \in Tasks' /\ u \notin Tasks
  <2>1. /\ status'[u] = "running" /\ clock'[u] = 0 /\ groups'[u] = <<>> /\ past'[u] = Upto(t)
        /\ u \in Paths /\ u # InitialTask /\ Len(u) = Len(t) + 1 /\ Front(u) = t
        /\ \A i \in 1..Len(t) : u[i] = t[i]
        /\ u[Len(t) + 1][1] = clock[t]
    BY DEF Forks
  <2>2. Len(u) \in Nat
    BY <1>3, <2>1
  <2>3. u \in Tasks' /\ u \notin Tasks
    BY <1>2
  <2> QED
    BY <2>1, <2>2, <2>3
<1>6. ASSUME NEW u \in N
      PROVE  /\ LabelOfPath(u, label'[u]) /\ Len(label'[u]) = Len(t) + 2
             /\ Agree(label[t], label'[u], Len(t) + 1)
             /\ Offset(label'[u], Len(t) + 2) < size /\ Span(label'[u], Len(t) + 2) = size
  BY DEF Forks
<1>7. /\ DOMAIN recorded' = DOMAIN recorded \cup {<<u, 0>> : u \in N}
      /\ \A s \in DOMAIN recorded : recorded'[s] = recorded[s]
      /\ \A u \in N : recorded'[<<u, 0>>] = label'[u]
  BY DEF Forks
<1>8. ASSUME NEW v \in Tasks
      PROVE  /\ Moved(v)' = Moved(v) /\ Going(v)' = Going(v) /\ Stretch(v)' = Stretch(v)
             /\ Live(v)' <=> Live(v)
  <2>1. \/ status'[v] = status[v]
        \/ status'[v] \notin {"released", "ended"} /\ status[v] \notin {"released", "ended"}
    <3>1. CASE v = t
      BY <1>2, <1>4, <3>1
    <3>2. CASE v # t
      BY <1>4, <3>2
    <3> QED
      BY <3>1, <3>2
  <2>2. label'[v] = label[v] /\ clock'[v] = clock[v]
    BY <1>4
  <2>3. Moved(v)' = Moved(v) /\ Going(v)' = Going(v) /\ Stretch(v)' = Stretch(v)
    BY <2>1, <2>2, SameMoved
  <2>4. Live(v)' <=> Live(v)
    BY <1>2, <1>4 DEF Live
  <2> QED
    BY <2>3, <2>4
<1>9. ASSUME NEW u \in N
      PROVE  Moved(u)' = label'[u] /\ Going(u)' = label'[u] /\ Live(u)' /\ Stretch(u)' = <<u, 0>>
  BY <1>5 DEF Moved, Going, Live, Stretch
<1>10. Moved(t) = label[t] /\ Going(t) = label[t]
  BY <1>2 DEF Moved, Going
\* Below t there is nothing in its current stretch, and nothing that lives.
<1>11. ASSUME NEW v \in Tasks, Below(t, v) PROVE v[Len(t) + 1][1] # clock[t] /\ ~Live(v)
  BY <1>1, <1>2, <1>11, NoneBelow
<1>12. ASSUME NEW v \in Tasks, Len(v) > Len(t), \A i \in 1..Len(t) : v[i] = t[i]
       PROVE  v[Len(t) + 1][1] # clock[t] /\ ~Live(v)
  BY <1>11, <1>12 DEF Below, SamePath
\* What is above the team is t or above t.
<1>13. ASSUME NEW a \in Tasks, NEW u \in N, Below(a, u) PROVE a = t \/ Below(a, t)
  BY <1>1, <1>3, <1>5, <1>13, BelowChild, TypedTask
<1>14. ASSUME NEW u \in N, NEW j \in 0..Len(u), j <= Len(t)
       PROVE  SubSeq(u, 1, j) = SubSeq(t, 1, j) /\ SubSeq(u, 1, j) \in Tasks
  <2>1. SamePath(u, t, j) /\ j <= Len(u) /\ j \in Nat
    BY <1>3, <1>5, <1>14 DEF SamePath
  <2>2. SubSeq(u, 1, j) = SubSeq(t, 1, j)
    BY <1>3, <1>5, <1>14, <2>1, SameAncestor
  <2>3. SubSeq(t, 1, j) \in Tasks
    BY <1>1, <1>2, <1>3, <1>14 DEF Tree
  <2> QED
    BY <2>2, <2>3
<1>15. Typed'
  <2>1. app' \in Programs /\ Tasks' \subseteq Paths /\ InitialTask \in Tasks'
    BY <1>1, <1>2, <1>5 DEF Typed
  <2>2. \A d \in {DOMAIN status', DOMAIN clock', DOMAIN groups', DOMAIN past'} : d = Tasks'
    BY DEF Forks
  <2>3. ASSUME NEW s, s[1] \in Tasks, s[2] \in Nat, s[2] <= clock[s[1]]
        PROVE  s[1] \in Tasks' /\ s[2] \in Nat /\ s[2] <= clock'[s[1]]
    BY <1>4, <2>3
  <2>4. ASSUME NEW v \in Tasks'
        PROVE  /\ status'[v] \in {"running", "forked", "atBarrier", "atEnd", "released", "ended", "over"}
               /\ clock'[v] \in Nat /\ groups'[v] = <<>>
               /\ LabelOfPath(v, label'[v])
               /\ \A s \in past'[v] : s[1] \in Tasks' /\ s[2] \in Nat /\ s[2] <= clock'[s[1]]
    <3>2. CASE v \in Tasks
      <4>1. /\ status[v] \in {"running", "forked", "atBarrier", "atEnd", "released", "ended", "over"}
            /\ clock[v] \in Nat /\ groups[v] = <<>> /\ LabelOfPath(v, label[v])
            /\ \A s \in past[v] : s[1] \in Tasks /\ s[2] \in Nat /\ s[2] <= clock[s[1]]
        BY <1>1, <3>2 DEF Typed
      <4> QED
        BY <1>4, <2>3, <3>2, <4>1
    <3>3. CASE v \in N
      <4>1. ASSUME NEW s \in past'[v] PROVE s[1] \in Tasks' /\ s[2] \in Nat /\ s[2] <= clock'[s[1]]
        <5>1. s \in past[t] \/ s = <<t, clock[t]>>
          BY <1>3, <1>5, <3>3, <4>1 DEF Upto
        <5>2. s[1] \in Tasks /\ s[2] \in Nat /\ s[2] <= clock[s[1]]
          BY <1>1, <1>2, <1>3, <5>1 DEF Typed
        <5> QED
          BY <2>3, <5>2
      <4> QED
        BY <1>5, <1>6, <3>3, <4>1
    <3> QED
      BY <1>2, <3>2, <3>3
  <2>5. status'[InitialTask] \in {"running", "forked"}
    BY <1>1, <1>4 DEF Typed
  <2>6. ASSUME NEW s \in DOMAIN recorded'
        PROVE  /\ s \in Tasks' \X Nat /\ s[1] # InitialTask /\ s[2] <= clock'[s[1]]
               /\ LabelOfPath(s[1], recorded'[s])
    <3>2. CASE s \in DOMAIN recorded
      <4>1. s \in Tasks \X Nat /\ s[1] # InitialTask /\ s[2] <= clock[s[1]] /\ LabelOfPath(s[1], recorded[s])
        BY <1>1, <3>2 DEF Typed
      <4> QED
        BY <1>2, <1>7, <2>3, <3>2, <4>1
    <3>3. CASE s \notin DOMAIN recorded
      <4>1. PICK u \in N : s = <<u, 0>>
        BY <1>7, <3>3
      <4> QED
        BY <1>5, <1>6, <1>7, <4>1
    <3> QED
      BY <3>2, <3>3
  <2> QED
    BY <1>1, <1>2, <2>1, <2>2, <2>4, <2>5, <2>6, TypedNext DEF Typed
<1>16. Tree'
  <2>1. ASSUME NEW v \in Tasks', NEW j \in 0..Len(v) PROVE SubSeq(v, 1, j) \in Tasks'
    <3>1. CASE v \in Tasks
      BY <1>1, <1>2, <3>1 DEF Tree
    <3>2. CASE v \in N /\ j <= Len(t)
      BY <1>2, <1>14, <3>2
    <3>3. CASE v \in N /\ ~(j <= Len(t))
      <4>1. j = Len(v)
        BY <1>3, <1>5, <3>3
      <4>2. SubSeq(v, 1, j) = v
        BY <1>5, <3>3, <4>1, Ancestor
      <4> QED
        BY <4>2
    <3> QED
      BY <1>2, <3>1, <3>2, <3>3
  <2>2. ASSUME NEW a \in Tasks', NEW v \in Tasks', Below(a, v)
        PROVE  /\ v[Len(a) + 1][1] <= clock'[a]
               /\ v[Len(a) + 1][1] = clock'[a] => status'[a] \in {"forked", "over"}
               /\ Live(v)' => status'[a] = "forked" /\ v[Len(a) + 1][1] = clock'[a]
    <3>1. a \in Paths /\ v \in Paths
      BY <1>1, <1>2, <1>5, TypedTask
    <3>2. a = SubSeq(v, 1, Len(a)) /\ Len(a) \in 0..Len(v) /\ Len(a) < Len(v) /\ Len(v) \in Nat /\ Len(a) \in Nat
      BY <2>2, <3>1, BelowIs DEF Below
    <3>3. a \in Tasks
      <4>1. CASE v \in Tasks
        BY <1>1, <3>2, <4>1 DEF Tree
      <4>2. CASE v \in N
        <5>1. a \notin N
          BY <1>5, <3>2, <4>2
        <5> QED
          BY <1>2, <5>1
      <4> QED
        BY <1>2, <4>1, <4>2
    <3>4. CASE v \in Tasks
      <4>1. /\ v[Len(a) + 1][1] <= clock[a]
            /\ v[Len(a) + 1][1] = clock[a] => status[a] \in {"forked", "over"}
            /\ Live(v) => status[a] = "forked" /\ v[Len(a) + 1][1] = clock[a]
        BY <1>1, <2>2, <3>3, <3>4 DEF Tree
      <4> QED
        BY <1>2, <1>4, <1>8, <3>3, <3>4, <4>1
    <3>5. CASE v \in N /\ a = t
      BY <1>3, <1>4, <1>5, <3>3, <3>5
    <3>6. CASE v \in N /\ a # t
      <4>1. Below(a, t)
        BY <1>13, <2>2, <3>3, <3>6
      <4>2. Len(a) < Len(t)
        BY <4>1 DEF Below
      <4>3. v[Len(a) + 1] = t[Len(a) + 1]
        BY <1>3, <1>5, <3>2, <3>6, <4>2
      <4>4. status[a] = "forked" /\ t[Len(a) + 1][1] = clock[a]
        BY <1>1, <1>2, <3>3, <4>1 DEF Tree
      <4>5. clock[a] \in Nat
        BY <1>1, <3>3, TypedTask
      <4> QED
        BY <1>4, <3>3, <3>6, <4>3, <4>4, <4>5
    <3> QED
      BY <1>2, <3>4, <3>5, <3>6
  <2>3. ASSUME NEW v \in Tasks', status'[v] = "ended"
        PROVE  Last(v)[2] = 0 /\ \A u \in Tasks' : Live(u)' /\ Below(Front(v), u) => u = v
    <3>1. v \in Tasks /\ status[v] = "ended" /\ v # t
      BY <1>2, <1>4, <1>5, <2>3
    <3>2. Last(v)[2] = 0 /\ \A u \in Tasks : Live(u) /\ Below(Front(v), u) => u = v
      BY <1>1, <3>1 DEF Tree
    <3>3. v # InitialTask
      BY <1>1, <3>1 DEF Typed
    <3>4. Front(v) \in Tasks /\ Below(Front(v), v)
      BY <1>1, <3>1, <3>3, Parent
    <3>5. ASSUME NEW u \in N, Below(Front(v), u) PROVE FALSE
      <4>1. CASE Below(Front(v), t)
        BY <1>2, <3>1, <3>2, <4>1
      <4>2. CASE Front(v) = t
        <5>1. Below(t, v) /\ Live(v)
          BY <3>1, <3>4, <4>2 DEF Live
        <5> QED
          BY <1>11, <3>1, <5>1
      <4> QED
        BY <1>13, <3>4, <3>5, <4>1, <4>2
    <3> QED
      BY <1>2, <1>8, <3>2, <3>5
  <2> QED
    BY <2>1, <2>2, <2>3 DEF Tree
<1>17. Counted(M)'
  <2>1. MaxSteps' = MaxSteps
    BY <1>2 DEF MaxSteps
  <2>2. size \in Nat \ {0}
    BY DEF ForkJoin
  <2>3. ASSUME NEW v \in Tasks', Live(v)'
        PROVE  /\ clock'[v] <= M
               /\ v # InitialTask => Len(v) + 1 <= Len(MaxSteps)
               /\ status'[v] \in {"forked", "atBarrier", "released"} => clock'[v] < M
               /\ Offset(label'[v], Len(v) + 1) < Span(label'[v], Len(v) + 1) * (1 + clock'[v] * (M + 1))
    <3>1. CASE v \in Tasks
      <4>1. /\ clock[v] <= M
            /\ v # InitialTask => Len(v) + 1 <= Len(MaxSteps)
            /\ status[v] \in {"forked", "atBarrier", "released"} => clock[v] < M
            /\ Offset(label[v], Len(v) + 1) < Span(label[v], Len(v) + 1) * (1 + clock[v] * (M + 1))
        BY <1>1, <1>8, <2>3, <3>1 DEF Counted
      <4>2. status'[v] \in {"forked", "atBarrier", "released"} => clock'[v] < M
        BY <1>4, <3>1, <4>1
      <4>3. label'[v] = label[v] /\ clock'[v] = clock[v]
        BY <1>4, <3>1
      <4> QED
        BY <4>1, <4>2, <4>3
    <3>2. CASE v \in N
      <4>1. /\ clock'[v] = 0 /\ status'[v] = "running" /\ Len(v) = Len(t) + 1
        BY <1>5, <3>2
      <4>2. Len(v) + 1 = Len(t) + 2 /\ Len(MaxSteps) \in Nat
        <5>1. MaxSteps \in Seq(Nat)
          BY <1>1, BoundsAssumption DEF Typed, MaxSteps
        <5> QED
          BY <1>3, <4>1, <5>1, Sequences
      <4>3. Offset(label'[v], Len(v) + 1) < size /\ Span(label'[v], Len(v) + 1) = size
        BY <1>6, <3>2, <4>2
      <4>4. size * (1 + 0 * (M + 1)) = size
        BY <2>2
      <4>5. Len(v) + 1 <= Len(MaxSteps)
        BY <1>3, <4>2
      <4>6. Span(label'[v], Len(v) + 1) * (1 + clock'[v] * (M + 1)) = size
        BY <4>1, <4>3, <4>4
      <4>7. Offset(label'[v], Len(v) + 1) < Span(label'[v], Len(v) + 1) * (1 + clock'[v] * (M + 1))
        BY <4>3, <4>6, Zenon
      <4>8. clock'[v] <= M
        BY <4>1
      <4>9. status'[v] \notin {"forked", "atBarrier", "released"}
        BY <4>1
      <4> QED
        BY <4>5, <4>7, <4>8, <4>9, Zenon
    <3> QED
      BY <1>2, <3>1, <3>2
  <2>4. ASSUME NEW v \in Tasks', Live(v)', v # InitialTask
        PROVE  /\ Span(label'[v], Len(v)) = Span(label'[Front(v)], Len(v))
               /\ Offset(label'[v], Len(v)) <= Offset(label'[Front(v)], Len(v)) + Span(label'[Front(v)], Len(v)) * clock'[v]
    <3>1. CASE v \in Tasks
      <4>1. Live(v) /\ Front(v) \in Tasks
        BY <1>1, <1>8, <2>4, <3>1, Parent
      <4>2. /\ Span(label[v], Len(v)) = Span(label[Front(v)], Len(v))
            /\ Offset(label[v], Len(v)) <= Offset(label[Front(v)], Len(v)) + Span(label[Front(v)], Len(v)) * clock[v]
        BY <1>1, <2>4, <3>1, <4>1 DEF Counted
      <4>3. label'[v] = label[v] /\ label'[Front(v)] = label[Front(v)] /\ clock'[v] = clock[v]
        BY <1>4, <3>1, <4>1
      <4> QED
        BY <4>2, <4>3
    <3>2. CASE v \in N
      <4>1. Front(v) = t /\ Len(v) = Len(t) + 1 /\ clock'[v] = 0 /\ label'[t] = label[t]
        BY <1>2, <1>4, <1>5, <3>2
      <4>2. Agree(label[t], label'[v], Len(v)) /\ Len(v) \in 1..Len(v)
        BY <1>3, <1>6, <3>2, <4>1
      <4>3. Span(label'[v], Len(v)) = Span(label[t], Len(v)) /\ Offset(label'[v], Len(v)) = Offset(label[t], Len(v))
        BY <4>2 DEF Agree
      <4>4. Span(label[t], Len(v)) \in Nat /\ Offset(label[t], Len(v)) \in Nat
        BY <1>3, <4>1, LabelSegments
      <4> QED
        BY <4>1, <4>3, <4>4
    <3> QED
      BY <1>2, <3>1, <3>2
  <2> QED
    BY <2>1, <2>3, <2>4 DEF Counted
\* The labels of two members of the team
<1>18. ASSUME NEW u \in N, NEW w \in N
       PROVE  /\ Agree(label'[u], label'[w], Len(t) + 1)
              /\ Span(label'[u], Len(t) + 2) = Span(label'[w], Len(t) + 2)
  <2>1. Agree(label'[u], label[t], Len(t) + 1)
    BY <1>6, AgreeSymmetric
  <2> QED
    BY <1>6, <2>1, AgreeTransfer
<1>19. Coherent'
  <2>1. ASSUME NEW v \in Tasks, NEW u \in N, Live(v) PROVE Match(v, u, Moved(v), label'[u])
    <3>1. Match(v, t, Moved(v), label[t])
      BY <1>1, <1>2, <1>10, <2>1 DEF Coherent
    <3>2. Len(v) \in Nat
      BY <1>1, TypedTask
    <3>3. Agree(label[t], label'[u], Len(t) + 1)
      BY <1>6
    <3>4. Len(u) = Len(t) + 1 /\ \A i \in 1..Len(t) : u[i] = t[i]
      BY <1>5
    <3>5. ~(Len(v) > Len(t) /\ \A i \in 1..Len(t) : v[i] = t[i])
      BY <1>12, <2>1
    <3> QED
      BY <1>3, <3>1, <3>2, <3>3, <3>4, <3>5, MatchLonger
  <2>2. ASSUME NEW v \in N, NEW u \in N PROVE Match(v, u, label'[v], label'[u])
    <3> SUFFICES ASSUME NEW j \in 0..Len(v), j <= Len(u)
                 PROVE  /\ Agree(label'[v], label'[u], j) /\ Span(label'[v], j + 1) = Span(label'[u], j + 1)
                        /\ j < Len(v) /\ j < Len(u) =>
                             Agree(label'[v], label'[u], j + 1) /\ Span(label'[v], j + 2) = Span(label'[u], j + 2)
      BY DEF Match
    <3>1. j \in Nat /\ j <= Len(t) + 1 /\ Len(t) + 1 \in Nat /\ Len(v) = Len(t) + 1 /\ Len(u) = Len(t) + 1
      BY <1>3, <1>5
    <3>2. Agree(label'[v], label'[u], Len(t) + 1) /\ Span(label'[v], Len(t) + 2) = Span(label'[u], Len(t) + 2)
      BY <1>18
    <3>3. ASSUME NEW i \in Nat \ {0}, i <= Len(t) + 2 PROVE Span(label'[v], i) = Span(label'[u], i)
      <4>1. CASE i = Len(t) + 2
        BY <3>2, <4>1
      <4>2. CASE i # Len(t) + 2
        <5>1. i <= Len(t) + 1
          BY <1>3, <3>3, <4>2
        <5> QED
          BY <3>1, <3>2, <5>1, AgreeAt
      <4> QED
        BY <4>1, <4>2
    <3>4. Agree(label'[v], label'[u], j)
      BY <3>1, <3>2, AgreeLess
    <3>5. j < Len(v) => Agree(label'[v], label'[u], j + 1)
      BY <3>1, <3>2, AgreeLess
    <3>6. /\ j + 1 \in Nat \ {0} /\ j + 1 <= Len(t) + 2
          /\ j < Len(v) => j + 2 \in Nat \ {0} /\ j + 2 <= Len(t) + 2
      BY <1>3, <3>1
    <3> QED
      BY <3>3, <3>4, <3>5, <3>6
  <2>3. ASSUME NEW v \in Tasks', NEW u \in Tasks', Live(v)', Live(u)'
        PROVE  Match(v, u, Moved(v)', Moved(u)')
    <3>1. CASE v \in Tasks /\ u \in Tasks
      <4>1. Match(v, u, Moved(v), Moved(u))
        BY <1>1, <1>8, <2>3, <3>1 DEF Coherent
      <4>2. Moved(v)' = Moved(v) /\ Moved(u)' = Moved(u)
        BY <1>8, <3>1
      <4> QED
        BY <4>1, <4>2
    <3>2. CASE v \in Tasks /\ u \in N
      <4>1. Live(v) /\ Moved(v)' = Moved(v) /\ Moved(u)' = label'[u]
        BY <1>8, <1>9, <2>3, <3>2
      <4> QED
        BY <2>1, <3>2, <4>1
    <3>3. CASE v \in N /\ u \in Tasks
      <4>1. Live(u) /\ Moved(u)' = Moved(u) /\ Moved(v)' = label'[v]
        BY <1>8, <1>9, <2>3, <3>3
      <4>2. Match(u, v, Moved(u), label'[v])
        BY <2>1, <3>3, <4>1
      <4>3. Len(u) \in Nat /\ Len(v) \in Nat
        BY <1>1, <1>5, <3>3, TypedTask
      <4>4. Match(v, u, label'[v], Moved(u))
        BY <4>2, <4>3, MatchSymmetric
      <4> QED
        BY <4>1, <4>4
    <3>4. CASE v \in N /\ u \in N
      <4>1. Moved(u)' = label'[u] /\ Moved(v)' = label'[v]
        BY <1>9, <3>4
      <4> QED
        BY <2>2, <3>4, <4>1
    <3> QED
      BY <1>2, <3>1, <3>2, <3>3, <3>4
  <2> QED
    BY <2>3 DEF Coherent
\* Nothing has happened in the stretch of t below it.
<1>20. ASSUME NEW s \in DOMAIN recorded PROVE s[1] \in Tasks /\ s[1] # InitialTask /\ Len(s[1]) \in Nat
  BY <1>1, <1>20, TypedRecord
<1>21. ASSUME NEW s \in DOMAIN recorded', s \notin DOMAIN recorded
       PROVE  \E w \in N : s = <<w, 0>> /\ s[1] = w /\ recorded'[s] = label'[w]
  BY <1>7, <1>21
<1>22. RegionBehind'
  <2>1. ASSUME NEW s \in DOMAIN recorded', NEW u \in Tasks', Live(u)', u # InitialTask, InRegionOf(s[1], u)
        PROVE  NotAhead(recorded'[s], Moved(u)', Len(u))
    <3>1. CASE s \in DOMAIN recorded /\ u \in Tasks
      <4>1. NotAhead(recorded[s], Moved(u), Len(u))
        BY <1>1, <1>8, <2>1, <3>1 DEF RegionBehind
      <4>2. recorded'[s] = recorded[s] /\ Moved(u)' = Moved(u)
        BY <1>7, <1>8, <3>1
      <4> QED
        BY <4>1, <4>2
    <3>2. CASE s \in DOMAIN recorded /\ u \in N
      <4>1. /\ Len(u) - 1 = Len(t) /\ u[Len(t) + 1][1] = clock[t] /\ \A i \in 1..Len(t) : u[i] = t[i]
        BY <1>3, <1>5, <3>2
      <4>2. Len(t) < Len(s[1]) /\ SamePath(s[1], u, Len(t)) /\ s[1][Len(t) + 1][1] = clock[t]
        BY <2>1, <4>1 DEF InRegionOf, Inside
      <4>3. \A i \in 1..Len(t) : s[1][i] = t[i]
        BY <4>1, <4>2 DEF SamePath
      <4>4. s[1] \in Tasks /\ Len(s[1]) > Len(t)
        BY <1>3, <1>20, <3>2, <4>2
      <4> QED
        BY <1>12, <4>2, <4>3, <4>4
    <3>3. CASE s \notin DOMAIN recorded /\ u \in Tasks
      <4>1. PICK w \in N : s[1] = w /\ recorded'[s] = label'[w]
        BY <1>21, <3>3
      <4>2. /\ Len(w) = Len(t) + 1 /\ w[Len(t) + 1][1] = clock[t]
            /\ \A i \in 1..Len(t) : w[i] = t[i]
        BY <1>5
      <4>3. /\ Len(u) \in Nat \ {0} /\ Len(u) - 1 < Len(w) /\ SamePath(w, u, Len(u) - 1)
            /\ w[Len(u)][1] = u[Len(u)][1]
        <5>1. Len(u) \in Nat \ {0}
          BY <1>1, <2>1, <3>3, TypedTask
        <5>2. (Len(u) - 1) + 1 = Len(u)
          BY <5>1
        <5> QED
          BY <2>1, <4>1, <5>1, <5>2 DEF InRegionOf, Inside
      <4>4. Live(u) /\ Moved(u)' = Moved(u)
        BY <1>8, <2>1, <3>3
      <4>5. Len(u) <= Len(t)
        <5>1. ASSUME Len(u) > Len(t) PROVE FALSE
          <6>1. Len(u) = Len(t) + 1
            BY <1>3, <4>2, <4>3, <5>1
          <6>2. \A i \in 1..Len(t) : u[i] = t[i]
            BY <1>3, <4>2, <4>3, <6>1 DEF SamePath
          <6>3. u[Len(t) + 1][1] = clock[t]
            BY <4>2, <4>3, <6>1
          <6> QED
            BY <1>12, <3>3, <4>4, <5>1, <6>2, <6>3
        <5> QED
          BY <1>3, <4>3, <5>1
      <4>6. InRegionOf(t, u)
        <5>1. Len(u) - 1 < Len(t) /\ (Len(u) - 1) + 1 = Len(u) /\ Len(u) \in 1..Len(t)
          BY <1>3, <4>3, <4>5
        <5>2. SamePath(t, u, Len(u) - 1)
          BY <4>2, <4>3, <5>1 DEF SamePath
        <5>3. t[Len(u)] = w[Len(u)]
          BY <4>2, <5>1
        <5> QED
          BY <4>3, <5>1, <5>2, <5>3 DEF InRegionOf, Inside
      <4>7. t # InitialTask
        BY <1>3, <4>3, <4>5 DEF InitialTask
      <4>8. Stretch(t) \in DOMAIN recorded /\ recorded[Stretch(t)] = label[t] /\ Stretch(t)[1] = t
        BY <1>1, <1>2, <1>3, <4>7 DEF Current
      <4>9. NotAhead(label[t], Moved(u), Len(u))
        BY <1>1, <2>1, <3>3, <4>4, <4>6, <4>8 DEF RegionBehind
      <4>10. Agree(label[t], label'[w], Len(t) + 1)
        BY <1>6
      <4>11. /\ Agree(label'[w], label[t], Len(u) - 1) /\ Offset(label[t], Len(u)) = Offset(label'[w], Len(u))
             /\ Span(label[t], Len(u)) = Span(label'[w], Len(u))
        <5>1. Agree(label'[w], label[t], Len(t) + 1)
          BY <4>10, AgreeSymmetric
        <5>2. Len(t) + 1 \in Nat /\ Len(u) - 1 \in Nat /\ Len(u) - 1 <= Len(t) + 1 /\ Len(u) <= Len(t) + 1
          BY <1>3, <4>3, <4>5
        <5>3. Agree(label'[w], label[t], Len(u) - 1)
          BY <5>1, <5>2, AgreeLess
        <5> QED
          BY <4>3, <4>10, <5>2, <5>3, AgreeAt
      <4>12. NotAhead(label'[w], Moved(u), Len(u))
        BY <4>9, <4>11, AgreeTransfer DEF NotAhead
      <4> QED
        BY <4>1, <4>4, <4>12
    <3>4. CASE s \notin DOMAIN recorded /\ u \in N
      <4>1. PICK w \in N : s[1] = w /\ recorded'[s] = label'[w]
        BY <1>21, <3>4
      <4>2. Len(u) = Len(t) + 1 /\ Moved(u)' = label'[u]
        BY <1>5, <1>9, <3>4
      <4>3. Agree(label'[w], label'[u], Len(u))
        BY <1>18, <3>4, <4>2
      <4>4. Len(u) \in Nat \ {0} /\ Len(u) - 1 \in Nat /\ Len(u) - 1 <= Len(u)
        BY <1>3, <4>2
      <4>5. /\ Agree(label'[w], label'[u], Len(u) - 1) /\ Offset(label'[w], Len(u)) = Offset(label'[u], Len(u))
            /\ Span(label'[w], Len(u)) = Span(label'[u], Len(u))
        BY <4>3, <4>4, AgreeAt, AgreeLess
      <4>6. Offset(label'[u], Len(u)) \in Nat
        <5>1. LabelOfPath(u, label'[u]) /\ Len(u) \in 1..Len(label'[u])
          BY <1>3, <1>6, <3>4, <4>2
        <5> QED
          BY <5>1, LabelSegments
      <4> QED
        BY <4>1, <4>2, <4>5, <4>6 DEF NotAhead
    <3> QED
      BY <1>2, <3>1, <3>2, <3>3, <3>4
  <2> QED
    BY <2>1 DEF RegionBehind
<1>23. PastOfRegion'
  <2>1. ASSUME NEW u \in Tasks', NEW j \in 0..Len(u) - 1, NEW s \in past'[u]
        PROVE  Inside(s[1], u, j) \/ s \in past'[SubSeq(u, 1, j)] \cup {<<SubSeq(u, 1, j), u[j + 1][1]>>}
    <3>1. CASE u \in Tasks
      <4>1. s \in past[u] /\ Len(u) \in Nat
        BY <1>1, <1>4, <2>1, <3>1, TypedTask
      <4>2. Inside(s[1], u, j) \/ s \in past[SubSeq(u, 1, j)] \cup {<<SubSeq(u, 1, j), u[j + 1][1]>>}
        BY <1>1, <2>1, <3>1, <4>1 DEF PastOfRegion, Forked
      <4>3. SubSeq(u, 1, j) \in Tasks
        <5>1. j \in 0..Len(u)
          BY <4>1
        <5> QED
          BY <1>1, <3>1, <5>1 DEF Tree
      <4>4. past'[SubSeq(u, 1, j)] = past[SubSeq(u, 1, j)]
        BY <1>4, <4>3
      <4> QED
        BY <4>2, <4>4
    <3>2. CASE u \in N
      <4>1. /\ Len(u) = Len(t) + 1 /\ past'[u] = Upto(t) /\ u[Len(t) + 1][1] = clock[t]
            /\ \A i \in 1..Len(t) : u[i] = t[i]
        BY <1>5, <3>2
      <4>2. j \in Nat /\ j <= Len(t) /\ j \in 0..Len(u)
        BY <1>3, <4>1
      <4>3. SubSeq(u, 1, j) = SubSeq(t, 1, j) /\ SubSeq(u, 1, j) \in Tasks
        BY <1>14, <3>2, <4>2
      <4>4. past'[SubSeq(u, 1, j)] = past[SubSeq(t, 1, j)]
        BY <1>4, <4>3
      <4>5. s \in past[t] \/ s = <<t, clock[t]>>
        BY <1>3, <2>1, <4>1 DEF Upto
      <4>6. CASE j = Len(t)
        <5>1. SubSeq(t, 1, j) = t
          BY <1>3, <4>2, <4>6, Ancestor
        <5> QED
          BY <4>1, <4>3, <4>4, <4>5, <4>6, <5>1
      <4>7. CASE j < Len(t)
        <5>1. j \in 0..Len(t) - 1 /\ j < Len(u) /\ \A i \in 1..j + 1 : t[i] = u[i]
          BY <1>3, <4>1, <4>2, <4>7
        <5>2. t[j + 1] = u[j + 1]
          BY <5>1, <4>2
        <5>3. CASE s \in past[t]
          <6>1. Inside(s[1], t, j) \/ s \in past[SubSeq(t, 1, j)] \cup {<<SubSeq(t, 1, j), t[j + 1][1]>>}
            BY <1>1, <1>2, <5>1, <5>3 DEF PastOfRegion, Forked
          <6>2. Inside(s[1], t, j) => Inside(s[1], u, j)
            BY <4>2, <4>7, <5>1, InsideSame
          <6> QED
            BY <4>3, <4>4, <5>2, <6>1, <6>2
        <5>4. CASE s = <<t, clock[t]>>
          <6>1. Inside(t, u, j)
            BY <4>1, <4>2, <4>7, <5>1, <5>2 DEF Inside, SamePath
          <6> QED
            BY <5>4, <6>1
        <5> QED
          BY <4>5, <5>3, <5>4
      <4> QED
        BY <1>3, <4>2, <4>6, <4>7
    <3> QED
      BY <1>2, <3>1, <3>2
  <2> QED
    BY <2>1 DEF PastOfRegion, Forked
<1>24. PastOfFork'
  <2>1. ASSUME NEW u \in Tasks', Live(u)', u # InitialTask
        PROVE  past'[Front(u)] \cup {<<Front(u), clock'[Front(u)]>>} \subseteq past'[u]
    <3>1. CASE u \in Tasks
      <4>1. Live(u) /\ Front(u) \in Tasks
        BY <1>1, <1>8, <2>1, <3>1, Parent
      <4>2. past[Front(u)] \cup {<<Front(u), clock[Front(u)]>>} \subseteq past[u]
        BY <1>1, <2>1, <3>1, <4>1 DEF PastOfFork, Upto, Stretch
      <4>3. past'[u] = past[u] /\ past'[Front(u)] = past[Front(u)] /\ clock'[Front(u)] = clock[Front(u)]
        BY <1>4, <3>1, <4>1
      <4> QED
        BY <4>2, <4>3
    <3>2. CASE u \in N
      <4>1. Front(u) = t /\ past'[u] = Upto(t) /\ past'[t] = past[t] /\ clock'[t] = clock[t]
        BY <1>2, <1>4, <1>5, <3>2
      <4> QED
        BY <4>1 DEF Upto, Stretch
    <3> QED
      BY <1>2, <3>1, <3>2
  <2> QED
    BY <2>1 DEF PastOfFork, Upto, Stretch
<1>25. Current'
  <2>1. ASSUME NEW u \in Tasks', Live(u)', u # InitialTask
        PROVE  <<u, clock'[u]>> \in DOMAIN recorded' /\ recorded'[<<u, clock'[u]>>] = label'[u]
    <3>1. CASE u \in Tasks
      <4>1. Live(u) /\ clock'[u] = clock[u] /\ label'[u] = label[u]
        BY <1>4, <1>8, <2>1, <3>1
      <4>2. <<u, clock[u]>> \in DOMAIN recorded /\ recorded[<<u, clock[u]>>] = label[u]
        BY <1>1, <2>1, <3>1, <4>1 DEF Current, Stretch
      <4> QED
        BY <1>7, <4>1, <4>2
    <3>2. CASE u \in N
      BY <1>5, <1>7, <3>2
    <3> QED
      BY <1>2, <3>1, <3>2
  <2> QED
    BY <2>1 DEF Current, Stretch
\* The label of t, once more
<1>26. /\ Len(label[t]) \in Nat /\ \A u \in N : Len(label'[u]) = Len(t) + 2 /\ Len(label'[u]) \in Nat
       /\ \A u \in N : Agree(label[t], label'[u], Len(label[t])) /\ Len(label[t]) <= Len(label'[u])
  BY <1>3, <1>6
<1>27. \A u \in N : SamePath(t, u, Len(t)) /\ Len(t) <= Len(u) /\ Len(u) \in Nat
  BY <1>3, <1>5 DEF SamePath
<1>28. ASSUME NEW u \in Tasks, NEW s \in past[u] PROVE s[1] \in Tasks
  BY <1>1, <1>28 DEF Typed
<1>29. AllTold'
  <2>1. ASSUME NEW s \in DOMAIN recorded', NEW v \in Tasks', Live(v)', status'[v] # "forked",
               s = Stretch(v)' => status'[v] \in {"released", "ended"}
        PROVE  IF s \in past'[v] THEN Precedes(recorded'[s], Going(v)')
               ELSE Beside(s[1], v, recorded'[s], Going(v)')
    <3>1. CASE s \in DOMAIN recorded /\ v \in Tasks
      <4>1. v # t /\ status'[v] = status[v] /\ Live(v) /\ Stretch(v)' = Stretch(v) /\ Going(v)' = Going(v)
        BY <1>2, <1>4, <1>8, <2>1, <3>1
      <4>2. past'[v] = past[v] /\ recorded'[s] = recorded[s]
        BY <1>4, <1>7, <3>1
      <4>3. Told(s, v)
        BY <1>1, <2>1, <3>1, <4>1 DEF AllTold
      <4> QED
        BY <4>1, <4>2, <4>3 DEF Told
    <3>2. CASE s \in DOMAIN recorded /\ v \in N
      <4>1. Going(v)' = label'[v] /\ past'[v] = Upto(t) /\ recorded'[s] = recorded[s]
        BY <1>5, <1>7, <1>9, <3>2
      <4>2. s[1] # InitialTask /\ Len(recorded[s]) \in Nat /\ Len(s[1]) \in Nat /\ s[1] \in Tasks
        <5>1. Len(recorded[s]) = Len(s[1]) + 1 /\ Len(s[1]) \in Nat \ {0} /\ s[1] # InitialTask
          BY <1>1, <3>2, TypedRecord
        <5> QED
          BY <1>20, <3>2, <5>1
      <4>3. CASE s = Stretch(t)
        <5>1. t # InitialTask
          BY <1>3, <4>2, <4>3
        <5>2. recorded[s] = label[t]
          BY <1>1, <1>2, <4>3, <5>1 DEF Current
        <5>3. s \in past'[v]
          BY <4>1, <4>3 DEF Upto
        <5>4. Precedes(label[t], label'[v])
          BY <1>3, <1>6, <1>26, <3>2 DEF Precedes
        <5> QED
          BY <4>1, <5>2, <5>3, <5>4
      <4>4. CASE s # Stretch(t)
        <5>1. Told(s, t) /\ Going(t) = label[t]
          BY <1>1, <1>2, <1>10, <3>2, <4>4 DEF AllTold
        <5>2. s \in past'[v] <=> s \in past[t]
          BY <4>1, <4>4 DEF Upto
        <5>3. CASE s \in past[t]
          <6>1. Precedes(recorded[s], label[t])
            BY <5>1, <5>3 DEF Told
          <6>2. Precedes(recorded[s], label'[v])
            BY <1>26, <3>2, <4>2, <6>1, PrecedesLonger
          <6> QED
            BY <4>1, <5>2, <5>3, <6>2
        <5>4. CASE s \notin past[t]
          <6>1. Beside(s[1], t, recorded[s], label[t])
            BY <5>1, <5>4 DEF Told
          <6>2. Beside(s[1], v, recorded[s], label'[v])
            BY <1>3, <1>26, <1>27, <3>2, <4>2, <6>1, BesideLonger
          <6> QED
            BY <4>1, <5>2, <5>4, <6>2
        <5> QED
          BY <5>3, <5>4
      <4> QED
        BY <4>3, <4>4
    <3>3. CASE s \notin DOMAIN recorded /\ v \in Tasks
      <4>1. v # t /\ status'[v] = status[v] /\ Live(v) /\ Going(v)' = Going(v) /\ past'[v] = past[v]
        BY <1>2, <1>4, <1>8, <2>1, <3>3
      <4>2. PICK w \in N : s[1] = w /\ recorded'[s] = label'[w]
        BY <1>21, <3>3
      <4>3. s \notin past'[v]
        BY <1>5, <1>28, <3>3, <4>1, <4>2
      <4>4. Beside(t, v, label[t], Going(v))
        BY <1>1, <1>2, <1>10, <2>1, <3>3, <4>1, LiveBeside
      <4>5. Len(v) \in Nat /\ Len(Going(v)) \in Nat
        <5>1. Len(v) \in Nat /\ (v # InitialTask => Len(v) \in Nat \ {0})
          BY <1>1, <3>3, TypedTask
        <5>2. /\ Len(Going(v)) = IF status[v] = "ended" THEN Len(v) ELSE Len(v) + 1
          BY <1>1, <3>3, <4>1, Moving
        <5> QED
          BY <5>1, <5>2
      <4>6. Beside(w, v, label'[w], Going(v))
        BY <1>3, <1>26, <1>27, <4>4, <4>5, LongerBeside
      <4> QED
        BY <4>1, <4>2, <4>3, <4>6
    <3>4. CASE s \notin DOMAIN recorded /\ v \in N
      <4>1. PICK w \in N : s = <<w, 0>> /\ s[1] = w /\ recorded'[s] = label'[w]
        BY <1>21, <3>4
      <4>2. Going(v)' = label'[v] /\ past'[v] = Upto(t) /\ status'[v] = "running" /\ Stretch(v)' = <<v, 0>>
        BY <1>5, <1>9, <3>4
      <4>3. w # v
        BY <2>1, <4>1, <4>2
      <4>4. s \notin past'[v]
        <5>1. w \notin Tasks
          BY <1>5
        <5>2. s # Stretch(t)
          BY <1>2, <1>3, <4>1, <5>1
        <5> QED
          BY <1>2, <1>28, <4>1, <4>2, <5>1, <5>2 DEF Upto
      <4>5. w[Len(t) + 1][2] # v[Len(t) + 1][2]
        BY <3>4, <4>3 DEF Forks
      <4>6. /\ Len(w) = Len(t) + 1 /\ Len(v) = Len(t) + 1
            /\ w[Len(t) + 1][1] = clock[t] /\ v[Len(t) + 1][1] = clock[t]
            /\ \A i \in 1..Len(t) : w[i] = t[i] /\ v[i] = t[i]
        BY <1>5, <3>4
      <4>7. Part(w, v, Len(t)) /\ Len(t) \in 0..Len(w)
        BY <1>3, <4>5, <4>6 DEF Part, Inside, SamePath
      <4>8. Len(t) + 2 <= Len(label'[w]) /\ Len(t) + 2 <= Len(label'[v])
        BY <1>3, <1>26, <3>4
      <4>9. Beside(w, v, label'[w], label'[v])
        BY <1>18, <3>4, <4>7, <4>8 DEF Beside
      <4> QED
        BY <4>1, <4>2, <4>4, <4>9
    <3> QED
      BY <1>2, <3>1, <3>2, <3>3, <3>4
  <2> QED
    BY <2>1 DEF AllTold, Told
<1> QED
  BY <1>15, <1>16, <1>17, <1>19, <1>22, <1>23, <1>24, <1>25, <1>29 DEF IInv

-----------------------------------------------------------------------------
(* The arrival at a barrier                                                 *)

\* So does the arrival of a thread at a barrier.
LEMMA BarrierBeginKeeps ==
  ASSUME NEW M \in Nat, ForkJoin(M), IInv(M), NEW t \in Tasks,
         NEW kind \in {"atBarrier", "atEnd"}, BarrierBegin(t, kind)
  PROVE  IInv(M)'
<1>1. /\ Typed /\ Tree /\ Counted(M) /\ Coherent /\ RegionBehind
      /\ PastOfRegion /\ PastOfFork /\ Current /\ AllTold
  BY DEF IInv
<1>2. /\ label' = label /\ clock' = clock /\ past' = past /\ recorded' = recorded /\ groups' = groups /\ app' = app
      /\ Tasks' = Tasks
  BY DEF BarrierBegin, data, truth, Tasks
<1>3. /\ status[t] = "running" /\ IsImplicit(t) /\ status' = [status EXCEPT ![t] = kind]
      /\ kind = "atBarrier" => CanStep(t)
  BY DEF BarrierBegin, Running
<1>4. t # InitialTask /\ Live(t) /\ DOMAIN status = Tasks
  BY <1>1, <1>3 DEF IsImplicit, Live, Typed
<1>5. ASSUME NEW v \in Tasks PROVE status'[v] = IF v = t THEN kind ELSE status[v]
  BY <1>3, <1>4
<1>6. ASSUME NEW v \in Tasks
      PROVE  /\ Moved(v)' = Moved(v) /\ Going(v)' = Going(v) /\ Stretch(v)' = Stretch(v)
             /\ Live(v)' <=> Live(v)
             /\ status'[v] \in {"forked", "over"} <=> status[v] \in {"forked", "over"}
             /\ status'[v] \in {"released", "ended"} <=> status[v] \in {"released", "ended"}
             /\ status'[v] = "forked" <=> status[v] = "forked"
             /\ status'[v] = "ended" <=> status[v] = "ended"
  <2>1. \/ status'[v] = status[v]
        \/ status'[v] \in {"atBarrier", "atEnd"} /\ status[v] = "running"
    BY <1>3, <1>5
  <2>2. \/ status'[v] = status[v]
        \/ status'[v] \notin {"released", "ended"} /\ status[v] \notin {"released", "ended"}
    BY <2>1
  <2>3. label'[v] = label[v] /\ clock'[v] = clock[v]
    BY <1>2
  <2>4. Moved(v)' = Moved(v) /\ Going(v)' = Going(v) /\ Stretch(v)' = Stretch(v)
    BY <2>2, <2>3, SameMoved
  <2>5. Live(v)' <=> Live(v)
    BY <1>2, <2>1 DEF Live
  <2> QED
    BY <2>1, <2>4, <2>5
<1>7. Typed'
  <2>1. /\ app \in Programs /\ Tasks \subseteq Paths /\ InitialTask \in Tasks
        /\ \A d \in {DOMAIN status', DOMAIN clock', DOMAIN groups', DOMAIN past'} : d = Tasks
    BY <1>1, <1>2, <1>3 DEF Typed
  <2>2. ASSUME NEW v \in Tasks
        PROVE  /\ status'[v] \in {"running", "forked", "atBarrier", "atEnd", "released", "ended", "over"}
               /\ clock'[v] \in Nat /\ groups'[v] = <<>> /\ LabelOfPath(v, label'[v])
               /\ \A s \in past'[v] : s[1] \in Tasks /\ s[2] \in Nat /\ s[2] <= clock'[s[1]]
    <3>1. /\ status[v] \in {"running", "forked", "atBarrier", "atEnd", "released", "ended", "over"}
          /\ clock[v] \in Nat /\ groups[v] = <<>> /\ LabelOfPath(v, label[v])
          /\ \A s \in past[v] : s[1] \in Tasks /\ s[2] \in Nat /\ s[2] <= clock[s[1]]
      BY <1>1 DEF Typed
    <3>2. status'[v] \in {"running", "forked", "atBarrier", "atEnd", "released", "ended", "over"}
      BY <1>5, <3>1
    <3> QED
      BY <1>2, <3>1, <3>2
  <2>3. status'[InitialTask] \in {"running", "forked"}
    BY <1>1, <1>4, <1>5 DEF Typed
  <2>4. ASSUME NEW s \in DOMAIN recorded'
        PROVE  /\ s \in Tasks \X Nat /\ s[1] # InitialTask /\ s[2] <= clock'[s[1]]
               /\ LabelOfPath(s[1], recorded'[s])
    BY <1>1, <1>2 DEF Typed
  <2> QED
    BY <1>2, <2>1, <2>2, <2>3, <2>4, TypedNext
<1>8. Tree'
  <2>1. \A v \in Tasks : \A j \in 0..Len(v) : SubSeq(v, 1, j) \in Tasks
    BY <1>1 DEF Tree
  <2>2. ASSUME NEW a \in Tasks, NEW v \in Tasks, Below(a, v)
        PROVE  /\ v[Len(a) + 1][1] <= clock[a]
               /\ v[Len(a) + 1][1] = clock[a] => status'[a] \in {"forked", "over"}
               /\ Live(v)' => status'[a] = "forked" /\ v[Len(a) + 1][1] = clock[a]
    <3>1. /\ v[Len(a) + 1][1] <= clock[a]
          /\ v[Len(a) + 1][1] = clock[a] => status[a] \in {"forked", "over"}
          /\ Live(v) => status[a] = "forked" /\ v[Len(a) + 1][1] = clock[a]
      BY <1>1, <2>2 DEF Tree
    <3> QED
      BY <1>6, <3>1
  <2>3. ASSUME NEW v \in Tasks, status'[v] = "ended"
        PROVE  Last(v)[2] = 0 /\ \A u \in Tasks : Live(u)' /\ Below(Front(v), u) => u = v
    BY <1>1, <1>6, <2>3 DEF Tree
  <2> QED
    BY <1>2, <2>1, <2>2, <2>3 DEF Tree
<1>9. Counted(M)'
  <2>1. MaxSteps' = MaxSteps
    BY <1>2 DEF MaxSteps
  <2>2. kind = "atBarrier" => clock[t] < M
    <3>1. Len(t) + 1 <= Len(MaxSteps) /\ Len(t) \in Nat /\ clock[t] \in Nat
      BY <1>1, <1>4, TypedTask DEF Counted
    <3>2. MaxSteps \in Seq(Nat)
      BY <1>1, BoundsAssumption DEF Typed, MaxSteps
    <3>3. Len(t) + 1 \in DOMAIN MaxSteps /\ MaxSteps[Len(t) + 1] \in Nat
      BY <3>1, <3>2, Sequences
    <3>4. MaxSteps[Len(t) + 1] <= M
      BY <3>3 DEF ForkJoin
    <3>5. kind = "atBarrier" => clock[t] < MaxSteps[Len(t) + 1]
      BY <1>3 DEF CanStep
    <3> QED
      BY <3>1, <3>3, <3>4, <3>5
  <2>3. ASSUME NEW v \in Tasks, Live(v)', status'[v] \in {"forked", "atBarrier", "released"}
        PROVE  clock[v] < M
    <3>1. CASE v = t
      BY <1>5, <2>2, <2>3, <3>1
    <3>2. CASE v # t
      <4>1. status'[v] = status[v]
        BY <1>5, <3>2
      <4> QED
        BY <1>1, <1>6, <2>3, <4>1 DEF Counted
    <3> QED
      BY <3>1, <3>2
  <2>4. ASSUME NEW v \in Tasks, Live(v)'
        PROVE  /\ clock[v] <= M
               /\ v # InitialTask => Len(v) + 1 <= Len(MaxSteps)
               /\ Offset(label[v], Len(v) + 1) < Span(label[v], Len(v) + 1) * (1 + clock[v] * (M + 1))
               /\ v # InitialTask =>
                    /\ Span(label[v], Len(v)) = Span(label[Front(v)], Len(v))
                    /\ Offset(label[v], Len(v)) <= Offset(label[Front(v)], Len(v)) + Span(label[Front(v)], Len(v)) * clock[v]
    <3>1. Live(v)
      BY <1>6, <2>4
    <3> QED
      BY <1>1, <3>1 DEF Counted
  <2> QED
    BY <1>2, <2>1, <2>3, <2>4 DEF Counted
<1>10. Coherent'
  <2>1. ASSUME NEW v \in Tasks, NEW u \in Tasks, Live(v)', Live(u)' PROVE Match(v, u, Moved(v)', Moved(u)')
    <3>1. Match(v, u, Moved(v), Moved(u))
      BY <1>1, <1>6, <2>1 DEF Coherent
    <3>2. Moved(v)' = Moved(v) /\ Moved(u)' = Moved(u)
      BY <1>6
    <3> QED
      BY <3>1, <3>2
  <2> QED
    BY <1>2, <2>1 DEF Coherent
<1>11. RegionBehind'
  <2>1. ASSUME NEW s \in DOMAIN recorded, NEW u \in Tasks, Live(u)', u # InitialTask, InRegionOf(s[1], u)
        PROVE  NotAhead(recorded[s], Moved(u)', Len(u))
    <3>1. NotAhead(recorded[s], Moved(u), Len(u))
      BY <1>1, <1>6, <2>1 DEF RegionBehind
    <3>2. Moved(u)' = Moved(u)
      BY <1>6
    <3> QED
      BY <3>1, <3>2
  <2> QED
    BY <1>2, <2>1 DEF RegionBehind
<1>12. PastOfRegion'
  BY <1>1, <1>2 DEF PastOfRegion, Forked
<1>13. PastOfFork'
  <2>1. ASSUME NEW u \in Tasks, Live(u)', u # InitialTask PROVE Upto(Front(u)) \subseteq past[u]
    BY <1>1, <1>6, <2>1 DEF PastOfFork
  <2> QED
    BY <1>2, <2>1 DEF PastOfFork, Upto, Stretch
<1>14. Current'
  <2>1. ASSUME NEW u \in Tasks, Live(u)', u # InitialTask
        PROVE  Stretch(u) \in DOMAIN recorded /\ recorded[Stretch(u)] = label[u]
    BY <1>1, <1>6, <2>1 DEF Current
  <2> QED
    BY <1>2, <2>1 DEF Current, Stretch
<1>15. AllTold'
  <2>1. ASSUME NEW s \in DOMAIN recorded, NEW v \in Tasks, Live(v)', status'[v] # "forked",
               s = Stretch(v)' => status'[v] \in {"released", "ended"}
        PROVE  IF s \in past[v] THEN Precedes(recorded[s], Going(v)') ELSE Beside(s[1], v, recorded[s], Going(v)')
    <3>1. Told(s, v)
      BY <1>1, <1>6, <2>1 DEF AllTold
    <3>2. Going(v)' = Going(v)
      BY <1>6
    <3> QED
      BY <3>1, <3>2 DEF Told
  <2> QED
    BY <1>2, <2>1 DEF AllTold, Told
<1> QED
  BY <1>7, <1>8, <1>9, <1>10, <1>11, <1>12, <1>13, <1>14, <1>15 DEF IInv

-----------------------------------------------------------------------------
(* The barrier opens                                                        *)

\* A task is in the region of u if it goes through the fork of u's team.
LEMMA InRegionIs ==
  ASSUME NEW p \in Paths, NEW u \in Paths, u # InitialTask
  PROVE  InRegionOf(p, u) <=> /\ Len(u) <= Len(p) /\ p[Len(u)][1] = u[Len(u)][1]
                              /\ \A i \in 1..Len(u) - 1 : p[i] = u[i]
<1>1. Len(p) \in Nat /\ Len(u) \in Nat \ {0}
  BY Sequences DEF Paths, InitialTask
<1>2. (Len(u) - 1) + 1 = Len(u)
  BY <1>1
<1> QED
  BY <1>1, <1>2 DEF InRegionOf, Inside, SamePath

\* The team that q is in, and what has happened in its region or before
TeamOf(q) == {u \in Tasks : Len(u) = Len(q) /\ InRegionOf(u, q)}
RegionTasks(q) == {u \in Tasks : InRegionOf(u, q)}
Everything(q) == (UNION {Upto(u) : u \in RegionTasks(q)}) \cup {s \in DOMAIN recorded : s[1] \in RegionTasks(q)}

\* What the end of the barrier changes
Opens(q, kind) ==
  /\ q \in Tasks /\ q # InitialTask /\ kind \in {"atBarrier", "atEnd"}
  /\ label' = label /\ clock' = clock /\ recorded' = recorded /\ groups' = groups /\ app' = app
  /\ DOMAIN status' = Tasks /\ DOMAIN past' = Tasks
  /\ \A u \in TeamOf(q) : status[u] = kind
  /\ \A u \in Tasks : status'[u] = IF u \notin TeamOf(q) THEN status[u]
                                   ELSE IF kind = "atBarrier" THEN "released"
                                   ELSE IF Last(u)[2] = 0 THEN "ended"
                                   ELSE "over"
  /\ \A u \in Tasks : past'[u] = IF u \in TeamOf(q) THEN Everything(q) ELSE past[u]

\* BarrierComplete does what Opens says.
LEMMA OpensIfComplete ==
  ASSUME Typed, Tree, NEW q \in Tasks, IsImplicit(q), BarrierComplete(Region(q))
  PROVE  \E kind : Opens(q, kind)
<1> DEFINE region == {u \in Tasks : InRegion(u, Region(q))}
           everything == (UNION {Upto(u) : u \in region}) \cup {s \in DOMAIN recorded : s[1] \in region}
<1>1. q # InitialTask /\ q \in Paths /\ Len(q) \in Nat \ {0}
  BY TypedTask DEF IsImplicit
<1>2. ASSUME NEW u \in Tasks PROVE InRegion(u, Region(q)) <=> InRegionOf(u, q)
  BY <1>1, Regions, TypedTask
<1>3. Len(Region(q)[1]) + 1 = Len(q)
  <2>1. Region(q)[1] = Front(q)
    BY DEF Region
  <2>2. Len(Front(q)) = Len(q) - 1
    BY <1>1, Parent
  <2> QED
    BY <1>1, <2>1, <2>2
<1>4. Team(Region(q)) = TeamOf(q)
  <2>1. ASSUME NEW u \in Tasks, Len(u) = Len(q) PROVE IsImplicit(u)
    <3>1. u # InitialTask
      BY <1>1, <2>1 DEF InitialTask
    <3> QED
      BY <3>1, TypedTask, Implicit
  <2> QED
    BY <1>2, <1>3, <2>1 DEF Team, TeamOf
<1>5. region = RegionTasks(q)
  BY <1>2 DEF RegionTasks
<1>6. everything = Everything(q)
  BY <1>5 DEF Everything
<1> HIDE DEF everything
<1>7. PICK kind \in {"atBarrier", "atEnd"} :
        /\ \A u \in Team(Region(q)) : status[u] = kind
        /\ status' = [u \in Tasks |->
                IF u \notin Team(Region(q)) THEN status[u]
                ELSE IF kind = "atBarrier" THEN "released"
                ELSE IF Last(u)[2] = 0 THEN "ended"
                ELSE "over"]
  BY DEF BarrierComplete
<1>8. past' = [u \in Tasks |-> IF u \in Team(Region(q)) THEN everything ELSE past[u]]
  BY DEF BarrierComplete, everything
<1>9. label' = label /\ clock' = clock /\ recorded' = recorded /\ groups' = groups /\ app' = app
  BY DEF BarrierComplete, data
<1>10. Opens(q, kind)
  BY <1>1, <1>4, <1>6, <1>7, <1>8, <1>9 DEF Opens
<1> QED
  BY <1>10

\* The tasks on the path to a task
LEMMA AncestorIsTask ==
  ASSUME Typed, Tree, NEW u \in Tasks, NEW n \in Nat, n <= Len(u)
  PROVE  /\ SubSeq(u, 1, n) \in Tasks /\ Len(SubSeq(u, 1, n)) = n /\ \A i \in 1..n : SubSeq(u, 1, n)[i] = u[i]
         /\ n < Len(u) => Below(SubSeq(u, 1, n), u)
<1>1. u \in Paths /\ Len(u) \in Nat /\ n \in 0..Len(u)
  BY TypedTask
<1> QED
  BY <1>1, Ancestor DEF Tree

\* What is in Everything
LEMMA InEverything ==
  ASSUME NEW q, NEW s
  PROVE  s \in Everything(q) <=> \/ \E w \in Tasks : InRegionOf(w, q) /\ s \in Upto(w)
                                 \/ s \in DOMAIN recorded /\ s[1] \in Tasks /\ InRegionOf(s[1], q)
<1>1. s \in Everything(q) <=> \/ \E w \in RegionTasks(q) : s \in Upto(w)
                              \/ s \in DOMAIN recorded /\ s[1] \in RegionTasks(q)
  <2> DEFINE A == UNION {Upto(u) : u \in RegionTasks(q)}
             B == {x \in DOMAIN recorded : x[1] \in RegionTasks(q)}
  <2>1. s \in A <=> \E w \in RegionTasks(q) : s \in Upto(w)
    OBVIOUS
  <2>2. s \in B <=> s \in DOMAIN recorded /\ s[1] \in RegionTasks(q)
    OBVIOUS
  <2>3. Everything(q) = A \cup B
    BY DEF Everything
  <2> HIDE DEF A, B
  <2> QED
    BY <2>1, <2>2, <2>3
<1> QED
  BY <1>1 DEF RegionTasks

\* The opening of a barrier preserves the invariant.
LEMMA OpensKeeps ==
  ASSUME NEW M \in Nat, ForkJoin(M), IInv(M), NEW q, NEW kind, Opens(q, kind)
  PROVE  IInv(M)'
<1>1. /\ Typed /\ Tree /\ Counted(M) /\ Coherent /\ RegionBehind
      /\ PastOfRegion /\ PastOfFork /\ Current /\ AllTold
  BY DEF IInv
<1>2. /\ label' = label /\ clock' = clock /\ recorded' = recorded /\ groups' = groups /\ app' = app
      /\ Tasks' = Tasks /\ DOMAIN status' = Tasks /\ DOMAIN past' = Tasks
      /\ kind \in {"atBarrier", "atEnd"}
  BY DEF Opens, Tasks
<1>3. /\ q \in Tasks /\ q # InitialTask /\ q \in Paths /\ Len(q) \in Nat \ {0}
  BY <1>1, TypedTask DEF Opens
<1> DEFINE k == Len(q)
<1>4. ASSUME NEW u \in Tasks
      PROVE  /\ u \in Paths /\ Len(u) \in Nat /\ LabelOfPath(u, label[u]) /\ Len(label[u]) = Len(u) + 1
             /\ InRegionOf(u, q) <=> /\ k <= Len(u) /\ u[k][1] = q[k][1]
                                     /\ \A i \in 1..k - 1 : u[i] = q[i]
  BY <1>1, <1>3, InRegionIs, TypedTask
<1>5. q \in TeamOf(q)
  BY <1>3, <1>4 DEF TeamOf
<1>6. ASSUME NEW u \in TeamOf(q)
      PROVE  /\ u \in Tasks /\ Len(u) = k /\ status[u] = kind /\ u # InitialTask /\ Live(u) /\ Moved(u) = label[u]
             /\ Going(u) = label[u] /\ InRegionOf(u, q) /\ u[k][1] = q[k][1] /\ \A i \in 1..k - 1 : u[i] = q[i]
             /\ Front(u) = Front(q)
  <2>1. u \in Tasks /\ Len(u) = k /\ InRegionOf(u, q)
    BY DEF TeamOf
  <2>2. u[k][1] = q[k][1] /\ \A i \in 1..k - 1 : u[i] = q[i]
    BY <1>4, <2>1
  <2>3. status[u] = kind
    BY DEF Opens
  <2>4. u # InitialTask
    BY <1>3, <2>1 DEF InitialTask
  <2>5. Live(u) /\ Moved(u) = label[u] /\ Going(u) = label[u]
    BY <1>2, <2>1, <2>3 DEF Live, Moved, Going
  <2>6. Front(u) = Front(q)
    <3>1. k - 1 \in Nat /\ k - 1 <= Len(u) /\ k - 1 <= Len(q)
      BY <1>3, <2>1
    <3>2. SubSeq(u, 1, k - 1) = SubSeq(q, 1, k - 1)
      BY <1>3, <1>4, <2>1, <2>2, <3>1, SameAncestor DEF SamePath
    <3> QED
      BY <1>1, <1>3, <2>1, <2>4, <3>2, Parent
  <2> QED
    BY <2>1, <2>2, <2>3, <2>4, <2>5, <2>6
\* Who lives in the region is in the team.
<1>7. ASSUME NEW u \in Tasks, Live(u), InRegionOf(u, q) PROVE u \in TeamOf(q)
  <2>1. k <= Len(u) /\ u[k][1] = q[k][1] /\ \A i \in 1..k - 1 : u[i] = q[i]
    BY <1>4, <1>7
  <2>2. ASSUME k < Len(u) PROVE FALSE
    <3> DEFINE a == SubSeq(u, 1, k)
    <3>1. a \in Tasks /\ Len(a) = k /\ Below(a, u) /\ \A i \in 1..k : a[i] = u[i]
      BY <1>1, <1>3, <2>2, AncestorIsTask
    <3> HIDE DEF a
    <3>2. a[k] = u[k] /\ \A i \in 1..k - 1 : a[i] = q[i]
      BY <1>3, <2>1, <3>1
    <3>3. a \in TeamOf(q)
      BY <1>3, <1>4, <2>1, <3>1, <3>2 DEF TeamOf
    <3>4. status[a] = "forked"
      BY <1>1, <1>7, <3>1 DEF Tree
    <3> QED
      BY <1>2, <1>6, <3>3, <3>4
  <2> QED
    BY <1>3, <1>4, <1>7, <2>1, <2>2 DEF TeamOf
<1>8. ASSUME NEW u \in Tasks, u \notin TeamOf(q)
      PROVE  /\ status'[u] = status[u] /\ past'[u] = past[u] /\ Moved(u)' = Moved(u) /\ Going(u)' = Going(u)
             /\ Live(u)' <=> Live(u)
  <2>1. status'[u] = status[u] /\ past'[u] = past[u]
    BY <1>8 DEF Opens
  <2> QED
    BY <1>2, <2>1, SameMoved DEF Live
<1>9. ASSUME NEW u \in TeamOf(q)
      PROVE  /\ past'[u] = Everything(q) /\ status'[u] \in {"released", "ended", "over"}
             /\ kind = "atBarrier" => status'[u] = "released"
             /\ kind = "atEnd" => status'[u] = IF Last(u)[2] = 0 THEN "ended" ELSE "over"
             /\ Live(u)' => Moved(u)' = Bumped(u) /\ status'[u] \in {"released", "ended"}
             /\ Live(u)' => Going(u)' = IF status'[u] = "ended" THEN Front(Bumped(u)) ELSE Bumped(u)
  <2>1. u \in Tasks
    BY <1>6
  <2>2. /\ past'[u] = Everything(q) /\ status'[u] \in {"released", "ended", "over"}
        /\ kind = "atBarrier" => status'[u] = "released"
        /\ kind = "atEnd" => status'[u] = IF Last(u)[2] = 0 THEN "ended" ELSE "over"
    BY <1>2, <2>1 DEF Opens
  <2>3. Bumped(u)' = Bumped(u)
    BY <1>2 DEF Bumped, NextStretch
  <2> QED
    BY <2>2, <2>3 DEF Live, Moved, Going
<1>10. ASSUME NEW u \in Tasks PROVE Stretch(u)' = Stretch(u) /\ (Live(u)' => Live(u))
  BY <1>2, <1>6, <1>8, <1>10 DEF Stretch
\* What is outside the region happened before the fork.
<1>11. ASSUME NEW u \in TeamOf(q), NEW s \in Everything(q)
       PROVE  /\ s[1] \in Tasks /\ s[2] \in Nat /\ s[2] <= clock[s[1]]
              /\ InRegionOf(s[1], q) \/ s \in past[u]
  <2>1. CASE s \in DOMAIN recorded /\ s[1] \in Tasks /\ InRegionOf(s[1], q)
    BY <1>1, <2>1, TypedRecord
  <2>2. CASE ~(s \in DOMAIN recorded /\ s[1] \in Tasks /\ InRegionOf(s[1], q))
    <3>1. PICK w \in Tasks : InRegionOf(w, q) /\ s \in Upto(w)
      BY <1>11, <2>2, InEverything
    <3>2. CASE s = Stretch(w)
      <4>1. s[1] = w /\ s[2] = clock[w] /\ clock[w] \in Nat
        BY <1>1, <3>2, TypedTask
      <4> QED
        BY <3>1, <4>1
    <3>3. CASE s \in past[w]
      <4>1. s[1] \in Tasks /\ s[2] \in Nat /\ s[2] <= clock[s[1]]
        BY <1>1, <3>3 DEF Typed
      <4>2. k <= Len(w) /\ w[k][1] = q[k][1] /\ \A i \in 1..k - 1 : w[i] = q[i]
        BY <1>4, <3>1
      <4>3. k - 1 \in 0..Len(w) - 1 /\ (k - 1) + 1 = k /\ k - 1 \in Nat
        BY <1>3, <1>4, <4>2
      <4>4. Inside(s[1], w, k - 1) \/ s \in Forked(w, k - 1)
        BY <1>1, <3>3, <4>3 DEF PastOfRegion
      <4>5. Inside(s[1], w, k - 1) => InRegionOf(s[1], q)
        BY <4>2, <4>3 DEF Inside, InRegionOf, SamePath
      <4>6. s \in Forked(w, k - 1) => s \in past[u]
        <5>1. SubSeq(w, 1, k - 1) = SubSeq(q, 1, k - 1)
          <6>1. k - 1 <= Len(w) /\ k - 1 <= Len(q)
            BY <1>3, <1>4, <4>2
          <6> QED
            BY <1>3, <1>4, <4>2, <4>3, <6>1, SameAncestor DEF SamePath
        <5>2. Front(q) = SubSeq(q, 1, k - 1) /\ q[k][1] = clock[Front(q)] /\ Front(q) \in Tasks
          BY <1>1, <1>3, <1>5, <1>6, Parent
        <5>3. Upto(Front(q)) \subseteq past[u]
          BY <1>1, <1>6 DEF PastOfFork
        <5>4. Forked(w, k - 1) = Upto(Front(q))
          BY <4>2, <4>3, <5>1, <5>2 DEF Forked, Upto, Stretch
        <5> QED
          BY <5>3, <5>4
      <4> QED
        BY <4>1, <4>4, <4>5, <4>6
    <3> QED
      BY <3>1, <3>2, <3>3 DEF Upto
  <2> QED
    BY <2>1, <2>2
<1>12. ASSUME NEW u \in Tasks PROVE past[u] \subseteq past'[u]
  <2>1. CASE u \in TeamOf(q)
    <3>1. Upto(u) \subseteq Everything(q)
      BY <1>6, <2>1 DEF Everything, RegionTasks
    <3> QED
      BY <1>9, <2>1, <3>1 DEF Upto
  <2>2. CASE u \notin TeamOf(q)
    BY <1>8, <2>2
  <2> QED
    BY <2>1, <2>2
<1>13. Typed'
  <2>1. /\ app \in Programs /\ Tasks \subseteq Paths /\ InitialTask \in Tasks
        /\ \A d \in {DOMAIN status', DOMAIN clock', DOMAIN groups', DOMAIN past'} : d = Tasks
    BY <1>1, <1>2 DEF Typed
  <2>2. ASSUME NEW v \in Tasks
        PROVE  /\ status'[v] \in {"running", "forked", "atBarrier", "atEnd", "released", "ended", "over"}
               /\ clock'[v] \in Nat /\ groups'[v] = <<>> /\ LabelOfPath(v, label'[v])
               /\ \A s \in past'[v] : s[1] \in Tasks /\ s[2] \in Nat /\ s[2] <= clock'[s[1]]
    <3>1. /\ status[v] \in {"running", "forked", "atBarrier", "atEnd", "released", "ended", "over"}
          /\ clock[v] \in Nat /\ groups[v] = <<>> /\ LabelOfPath(v, label[v])
          /\ \A s \in past[v] : s[1] \in Tasks /\ s[2] \in Nat /\ s[2] <= clock[s[1]]
      BY <1>1 DEF Typed
    <3>2. status'[v] \in {"running", "forked", "atBarrier", "atEnd", "released", "ended", "over"}
      BY <1>8, <1>9, <3>1
    <3>3. \A s \in past'[v] : s[1] \in Tasks /\ s[2] \in Nat /\ s[2] <= clock[s[1]]
      BY <1>8, <1>9, <1>11, <3>1
    <3> QED
      BY <1>2, <3>1, <3>2, <3>3
  <2>3. status'[InitialTask] \in {"running", "forked"}
    BY <1>1, <1>6, <1>8 DEF Typed
  <2>4. ASSUME NEW s \in DOMAIN recorded'
        PROVE  /\ s \in Tasks \X Nat /\ s[1] # InitialTask /\ s[2] <= clock'[s[1]]
               /\ LabelOfPath(s[1], recorded'[s])
    BY <1>1, <1>2 DEF Typed
  <2> QED
    BY <1>2, <2>1, <2>2, <2>3, <2>4, TypedNext
<1>14. Tree'
  <2>1. \A v \in Tasks : \A j \in 0..Len(v) : SubSeq(v, 1, j) \in Tasks
    BY <1>1 DEF Tree
  <2>2. ASSUME NEW a \in Tasks, NEW v \in Tasks, Below(a, v)
        PROVE  /\ v[Len(a) + 1][1] <= clock[a]
               /\ v[Len(a) + 1][1] = clock[a] => status'[a] \in {"forked", "over"}
               /\ Live(v)' => status'[a] = "forked" /\ v[Len(a) + 1][1] = clock[a]
    <3>1. /\ v[Len(a) + 1][1] <= clock[a]
          /\ v[Len(a) + 1][1] = clock[a] => status[a] \in {"forked", "over"}
          /\ Live(v) => status[a] = "forked" /\ v[Len(a) + 1][1] = clock[a]
      BY <1>1, <2>2 DEF Tree
    <3>2. CASE a \in TeamOf(q)
      <4>1. status[a] \notin {"forked", "over"}
        BY <1>2, <1>6, <3>2
      <4> QED
        BY <1>10, <3>1, <4>1
    <3>3. CASE a \notin TeamOf(q)
      BY <1>8, <1>10, <3>1, <3>3
    <3> QED
      BY <3>2, <3>3
  <2>3. ASSUME NEW v \in Tasks, status'[v] = "ended"
        PROVE  Last(v)[2] = 0 /\ \A u \in Tasks : Live(u)' /\ Below(Front(v), u) => u = v
    <3>1. CASE v \notin TeamOf(q)
      <4>1. Last(v)[2] = 0 /\ \A u \in Tasks : Live(u) /\ Below(Front(v), u) => u = v
        BY <1>1, <1>8, <2>3, <3>1 DEF Tree
      <4> QED
        BY <1>10, <4>1
    <3>2. CASE v \in TeamOf(q)
      <4>1. kind = "atEnd" /\ Last(v)[2] = 0
        BY <1>2, <1>9, <2>3, <3>2
      <4>2. v \in Paths /\ Len(v) = k /\ Last(v) = v[k] /\ v[k][1] = clock[Front(v)] /\ Front(v) \in Tasks
            /\ Len(Front(v)) = k - 1 /\ \A i \in 1..k - 1 : Front(v)[i] = v[i]
        BY <1>1, <1>4, <1>6, <3>2, Parent
      <4>3. ASSUME NEW u \in Tasks, Live(u)', Below(Front(v), u) PROVE u = v
        <5>1. Live(u) /\ u \in Paths /\ Len(u) \in Nat
          BY <1>4, <1>10, <4>3
        <5>2. k <= Len(u) /\ (\A i \in 1..k - 1 : u[i] = v[i]) /\ (k - 1) + 1 = k
          BY <1>3, <4>2, <4>3, <5>1 DEF Below, SamePath
        <5>3. u[k][1] = v[k][1]
          <6>1. u[Len(Front(v)) + 1][1] = clock[Front(v)]
            BY <1>1, <4>2, <4>3, <5>1 DEF Tree
          <6> QED
            BY <4>2, <5>2, <6>1
        <5>4. u \in TeamOf(q)
          <6>1. v[k][1] = q[k][1] /\ \A i \in 1..k - 1 : v[i] = q[i]
            BY <1>6, <3>2
          <6>2. InRegionOf(u, q)
            BY <1>4, <5>2, <5>3, <6>1
          <6> QED
            BY <1>7, <5>1, <6>2
        <5>5. Last(u)[2] = 0 /\ Last(u) = u[k] /\ Len(u) = k
          <6>1. status'[u] # "over" /\ u # InitialTask /\ Len(u) = k
            BY <1>2, <1>6, <4>3, <5>4 DEF Live
          <6>2. Last(u)[2] = 0
            BY <1>9, <4>1, <5>4, <6>1
          <6> QED
            BY <1>1, <6>1, <6>2, Parent
        <5>6. u[k] = v[k]
          <6>1. k \in 1..Len(u) /\ k \in 1..Len(v)
            BY <1>3, <4>2, <5>5
          <6>2. u[k] = <<u[k][1], u[k][2]>> /\ v[k] = <<v[k][1], v[k][2]>>
            BY <4>2, <5>1, <6>1, StepParts
          <6> QED
            BY <4>1, <4>2, <5>3, <5>5, <6>2
        <5>7. \A i \in 1..Len(u) : u[i] = v[i]
          BY <1>3, <5>2, <5>5, <5>6
        <5> QED
          BY <4>2, <5>1, <5>5, <5>7, SeqEqual DEF Paths
      <4> QED
        BY <4>1, <4>3
    <3> QED
      BY <3>1, <3>2
  <2> QED
    BY <1>2, <2>1, <2>2, <2>3 DEF Tree
<1>15. Counted(M)'
  <2>1. MaxSteps' = MaxSteps
    BY <1>2 DEF MaxSteps
  <2>3. ASSUME NEW v \in Tasks, Live(v)', status'[v] \in {"forked", "atBarrier", "released"}
        PROVE  clock[v] < M
    <3>1. CASE v \in TeamOf(q)
      <4>1. kind = "atBarrier"
        BY <1>2, <1>9, <2>3, <3>1
      <4> QED
        BY <1>1, <1>6, <3>1, <4>1 DEF Counted
    <3>2. CASE v \notin TeamOf(q)
      BY <1>1, <1>8, <2>3, <3>2 DEF Counted
    <3> QED
      BY <3>1, <3>2
  <2>4. ASSUME NEW v \in Tasks, Live(v)'
        PROVE  /\ clock[v] <= M
               /\ v # InitialTask => Len(v) + 1 <= Len(MaxSteps)
               /\ Offset(label[v], Len(v) + 1) < Span(label[v], Len(v) + 1) * (1 + clock[v] * (M + 1))
               /\ v # InitialTask =>
                    /\ Span(label[v], Len(v)) = Span(label[Front(v)], Len(v))
                    /\ Offset(label[v], Len(v)) <= Offset(label[Front(v)], Len(v)) + Span(label[Front(v)], Len(v)) * clock[v]
    <3>1. Live(v)
      BY <1>10, <2>4
    <3> QED
      BY <1>1, <3>1 DEF Counted
  <2> QED
    BY <1>2, <2>1, <2>3, <2>4 DEF Counted
\* The label that the barrier gives to a member of the team, and that of the parent
<1>16. ASSUME NEW u \in TeamOf(q)
       PROVE  /\ LabelOfPath(u, Bumped(u)) /\ Len(Bumped(u)) = k + 1 /\ Ahead(label[u], Bumped(u), k)
              /\ Len(Front(Bumped(u))) = k /\ Ahead(label[u], Front(Bumped(u)), k)
  <2>1. u \in Tasks /\ Live(u) /\ u # InitialTask /\ Len(u) = k
    BY <1>6
  <2> QED
    BY <1>1, <2>1, Bumping
\* A barrier leaves what is before position k and every span.
<1>17. ASSUME NEW u \in TeamOf(q), NEW l, NEW n \in Nat, n < k, Agree(l, label[u], n)
       PROVE  Agree(l, Bumped(u), n)
  <2>1. Ahead(label[u], Bumped(u), k) /\ Len(Bumped(u)) = k + 1
    BY <1>16
  <2> QED
    BY <1>3, <1>17, <2>1 DEF Agree, Ahead
<1>18. ASSUME NEW u \in TeamOf(q), NEW i \in 1..k + 1 PROVE Span(Bumped(u), i) = Span(label[u], i)
  <2>1. Ahead(label[u], Bumped(u), k) /\ Len(Bumped(u)) = k + 1
    BY <1>16
  <2> QED
    BY <2>1 DEF Ahead
<1>19. Coherent'
  <2>1. ASSUME NEW v \in TeamOf(q), NEW u \in TeamOf(q) PROVE Match(v, u, Bumped(v), Bumped(u))
    <3> SUFFICES ASSUME NEW j \in 0..Len(v), j <= Len(u), SamePath(v, u, j)
                 PROVE  /\ Agree(Bumped(v), Bumped(u), j) /\ Span(Bumped(v), j + 1) = Span(Bumped(u), j + 1)
                        /\ j < Len(v) /\ j < Len(u) =>
                             Agree(Bumped(v), Bumped(u), j + 1) /\ Span(Bumped(v), j + 2) = Span(Bumped(u), j + 2)
      BY DEF Match
    <3>1. Match(v, u, label[v], label[u])
      BY <1>1, <1>6 DEF Coherent
    <3>2. Len(v) = k /\ Len(u) = k /\ j \in Nat /\ j <= k
      BY <1>3, <1>6
    <3>3. /\ Agree(label[v], label[u], j) /\ Span(label[v], j + 1) = Span(label[u], j + 1)
          /\ j < k => Agree(label[v], label[u], j + 1) /\ Span(label[v], j + 2) = Span(label[u], j + 2)
      BY <3>1, <3>2 DEF Match
    <3>4. ASSUME NEW n \in Nat, n <= k, Agree(label[v], label[u], n) PROVE Agree(Bumped(v), Bumped(u), n)
      <4>1. /\ Ahead(label[v], Bumped(v), k) /\ Len(Bumped(v)) = k + 1
            /\ Ahead(label[u], Bumped(u), k) /\ Len(Bumped(u)) = k + 1
        BY <1>16
      <4>2. ASSUME NEW i \in 1..n
            PROVE  /\ i <= Len(Bumped(v)) /\ i <= Len(Bumped(u))
                   /\ Offset(Bumped(v), i) = Offset(Bumped(u), i) /\ Span(Bumped(v), i) = Span(Bumped(u), i)
        <5>1. i \in 1..k + 1 /\ i <= k + 1
          BY <1>3, <3>4
        <5>2. Offset(label[v], i) = Offset(label[u], i) /\ Span(label[v], i) = Span(label[u], i)
          BY <3>4 DEF Agree
        <5>3. Span(Bumped(v), i) = Span(Bumped(u), i)
          BY <1>18, <5>1, <5>2
        <5>4. CASE i = k
          BY <4>1, <5>2, <5>4 DEF Ahead
        <5>5. CASE i # k
          BY <4>1, <5>1, <5>2, <5>5 DEF Ahead
        <5> QED
          BY <4>1, <5>1, <5>3, <5>4, <5>5
      <4> QED
        BY <4>2 DEF Agree
    <3>5. j + 1 \in 1..k + 1 /\ (j < k => j + 2 \in 1..k + 1 /\ j + 1 \in Nat /\ j + 1 <= k)
      BY <1>3, <3>2
    <3>6. Span(Bumped(v), j + 1) = Span(Bumped(u), j + 1)
      BY <1>18, <3>3, <3>5
    <3>7. Agree(Bumped(v), Bumped(u), j)
      BY <3>2, <3>3, <3>4
    <3>8. j < k => Agree(Bumped(v), Bumped(u), j + 1)
      BY <3>3, <3>4, <3>5
    <3>9. j < k => Span(Bumped(v), j + 2) = Span(Bumped(u), j + 2)
      BY <1>18, <3>3, <3>5
    <3> QED
      BY <3>2, <3>6, <3>7, <3>8, <3>9
  <2>2. ASSUME NEW v \in TeamOf(q), NEW u \in Tasks, u \notin TeamOf(q), Live(u)
        PROVE  Match(u, v, Moved(u), Bumped(v))
    <3> SUFFICES ASSUME NEW j \in 0..Len(u), j <= Len(v), SamePath(u, v, j)
                 PROVE  /\ Agree(Moved(u), Bumped(v), j) /\ Span(Moved(u), j + 1) = Span(Bumped(v), j + 1)
                        /\ j < Len(u) /\ j < Len(v) =>
                             Agree(Moved(u), Bumped(v), j + 1) /\ Span(Moved(u), j + 2) = Span(Bumped(v), j + 2)
      BY DEF Match
    <3>1. Match(u, v, Moved(u), label[v])
      BY <1>1, <1>6, <2>2 DEF Coherent
    <3>2. Len(v) = k /\ j \in Nat /\ j <= k /\ Len(u) \in Nat /\ v \in Tasks
      BY <1>3, <1>4, <1>6, <2>2
    <3>3. /\ Agree(Moved(u), label[v], j) /\ Span(Moved(u), j + 1) = Span(label[v], j + 1)
          /\ j < Len(u) /\ j < Len(v) =>
               Agree(Moved(u), label[v], j + 1) /\ Span(Moved(u), j + 2) = Span(label[v], j + 2)
      BY <3>1, <3>2 DEF Match
    <3>4. ~InRegionOf(u, q)
      BY <1>7, <2>2
    <3>5. v[k][1] = q[k][1] /\ (\A i \in 1..k - 1 : v[i] = q[i]) /\ v # InitialTask /\ Live(v)
      BY <1>6, <2>2
    <3>6. ASSUME j >= k - 1, k <= Len(u) PROVE FALSE
      <4>1. \A i \in 1..k - 1 : u[i] = v[i] /\ u[i] = q[i]
        BY <1>3, <3>2, <3>5, <3>6 DEF SamePath
      <4>2. /\ Front(v) \in Tasks /\ Len(Front(v)) = k - 1 /\ v[k][1] = clock[Front(v)]
            /\ \A i \in 1..k - 1 : Front(v)[i] = v[i]
        BY <1>1, <3>2, <3>5, Parent
      <4>3. Below(Front(v), u)
        BY <1>3, <3>2, <3>6, <4>1, <4>2 DEF Below, SamePath
      <4>4. u[Len(Front(v)) + 1][1] = clock[Front(v)] /\ Len(Front(v)) + 1 = k
        BY <1>1, <1>3, <2>2, <4>2, <4>3 DEF Tree
      <4>5. InRegionOf(u, q)
        BY <1>4, <3>5, <3>6, <4>1, <4>2, <4>4
      <4> QED
        BY <3>4, <4>5
    <3>7. j < k
      <4>1. ASSUME j = k PROVE FALSE
        <5>1. k <= Len(u)
          BY <1>3, <4>1
        <5> QED
          BY <1>3, <3>6, <4>1, <5>1
      <4> QED
        BY <1>3, <3>2, <4>1
    <3>8. Agree(Moved(u), Bumped(v), j)
      BY <1>17, <3>2, <3>3, <3>7
    <3>9. j + 1 \in 1..k + 1 /\ j + 2 \in 1..k + 1 /\ j + 1 \in Nat
      BY <1>3, <3>2, <3>7
    <3>10. Span(Moved(u), j + 1) = Span(Bumped(v), j + 1)
      BY <1>18, <3>3, <3>9
    <3>11. ASSUME j < Len(u)
           PROVE  Agree(Moved(u), Bumped(v), j + 1) /\ Span(Moved(u), j + 2) = Span(Bumped(v), j + 2)
      <4>1. Agree(Moved(u), label[v], j + 1) /\ Span(Moved(u), j + 2) = Span(label[v], j + 2)
        BY <3>2, <3>3, <3>7, <3>11
      <4>2. j + 1 < k
        BY <1>3, <3>2, <3>6, <3>7, <3>11
      <4>3. Agree(Moved(u), Bumped(v), j + 1)
        BY <1>17, <3>9, <4>1, <4>2
      <4>4. Span(Bumped(v), j + 2) = Span(label[v], j + 2)
        BY <1>18, <3>9
      <4> QED
        BY <4>1, <4>3, <4>4
    <3> QED
      BY <3>8, <3>10, <3>11
  <2>3. ASSUME NEW v \in Tasks, NEW u \in Tasks, Live(v)', Live(u)' PROVE Match(v, u, Moved(v)', Moved(u)')
    <3>1. Live(v) /\ Live(u) /\ Len(v) \in Nat /\ Len(u) \in Nat
      BY <1>4, <1>10, <2>3
    <3>2. CASE v \in TeamOf(q) /\ u \in TeamOf(q)
      <4>1. Moved(v)' = Bumped(v) /\ Moved(u)' = Bumped(u)
        BY <1>9, <2>3, <3>2
      <4> QED
        BY <2>1, <3>2, <4>1
    <3>3. CASE v \in TeamOf(q) /\ u \notin TeamOf(q)
      <4>1. Moved(v)' = Bumped(v) /\ Moved(u)' = Moved(u)
        BY <1>8, <1>9, <2>3, <3>3
      <4>2. Match(u, v, Moved(u), Bumped(v))
        BY <2>2, <2>3, <3>1, <3>3
      <4>3. Match(v, u, Bumped(v), Moved(u))
        BY <3>1, <4>2, MatchSymmetric
      <4> QED
        BY <4>1, <4>3
    <3>4. CASE v \notin TeamOf(q) /\ u \in TeamOf(q)
      <4>1. Moved(v)' = Moved(v) /\ Moved(u)' = Bumped(u)
        BY <1>8, <1>9, <2>3, <3>4
      <4> QED
        BY <2>2, <2>3, <3>1, <3>4, <4>1
    <3>5. CASE v \notin TeamOf(q) /\ u \notin TeamOf(q)
      <4>1. Moved(v)' = Moved(v) /\ Moved(u)' = Moved(u)
        BY <1>8, <2>3, <3>5
      <4>2. Match(v, u, Moved(v), Moved(u))
        BY <1>1, <2>3, <3>1 DEF Coherent
      <4> QED
        BY <4>1, <4>2
    <3> QED
      BY <3>2, <3>3, <3>4, <3>5
  <2> QED
    BY <1>2, <2>3 DEF Coherent
<1>20. RegionBehind'
  <2>1. ASSUME NEW s \in DOMAIN recorded, NEW u \in Tasks, Live(u)', u # InitialTask, InRegionOf(s[1], u)
        PROVE  NotAhead(recorded[s], Moved(u)', Len(u))
    <3>1. NotAhead(recorded[s], Moved(u), Len(u))
      BY <1>1, <1>10, <2>1 DEF RegionBehind
    <3>2. CASE u \notin TeamOf(q)
      BY <1>8, <3>1, <3>2
    <3>3. CASE u \in TeamOf(q)
      <4>1. Moved(u)' = Bumped(u) /\ Moved(u) = label[u] /\ Len(u) = k
        BY <1>6, <1>9, <2>1, <3>3
      <4>2. /\ Agree(recorded[s], label[u], k - 1) /\ Span(recorded[s], k) = Span(label[u], k)
            /\ Offset(recorded[s], k) <= Offset(label[u], k)
        BY <3>1, <4>1 DEF NotAhead
      <4>3. Agree(recorded[s], Bumped(u), k - 1)
        BY <1>3, <1>17, <3>3, <4>2
      <4>4. Span(Bumped(u), k) = Span(label[u], k)
        BY <1>3, <1>18, <3>3
      <4>5. Offset(Bumped(u), k) = Offset(label[u], k) + Span(label[u], k)
        BY <1>16, <3>3 DEF Ahead
      <4>6. Offset(label[u], k) \in Nat /\ Span(label[u], k) \in Nat /\ Offset(recorded[s], k) \in Nat
        <5>1. LabelOfPath(u, label[u]) /\ k \in 1..Len(label[u])
          BY <1>3, <1>4, <4>1
        <5>2. /\ LabelOfPath(s[1], recorded[s]) /\ Len(recorded[s]) = Len(s[1]) + 1
              /\ Len(s[1]) \in Nat /\ s[1] \in Paths
          BY <1>1, TypedRecord
        <5>3. k <= Len(s[1])
          BY <1>4, <2>1, <4>1, <5>2, InRegionIs
        <5>4. k \in 1..Len(recorded[s])
          BY <1>3, <5>2, <5>3
        <5> QED
          BY <5>1, <5>2, <5>4, LabelSegments
      <4> QED
        BY <4>1, <4>2, <4>3, <4>4, <4>5, <4>6 DEF NotAhead
    <3> QED
      BY <3>2, <3>3
  <2> QED
    BY <1>2, <2>1 DEF RegionBehind
<1>21. PastOfRegion'
  <2>1. ASSUME NEW u \in Tasks, NEW j \in 0..Len(u) - 1, NEW s \in past'[u]
        PROVE  Inside(s[1], u, j) \/ s \in past'[SubSeq(u, 1, j)] \cup {<<SubSeq(u, 1, j), u[j + 1][1]>>}
    <3>1. ASSUME s \in past[u]
          PROVE  Inside(s[1], u, j) \/ s \in past'[SubSeq(u, 1, j)] \cup {<<SubSeq(u, 1, j), u[j + 1][1]>>}
      <4>1. Inside(s[1], u, j) \/ s \in past[SubSeq(u, 1, j)] \cup {<<SubSeq(u, 1, j), u[j + 1][1]>>}
        BY <1>1, <2>1, <3>1 DEF PastOfRegion, Forked
      <4>2. SubSeq(u, 1, j) \in Tasks
        <5>1. j \in Nat /\ j <= Len(u)
          BY <1>4
        <5> QED
          BY <1>1, <5>1, AncestorIsTask
      <4> QED
        BY <1>12, <4>1, <4>2
    <3>2. ASSUME u \in TeamOf(q), InRegionOf(s[1], q), s[1] \in Tasks PROVE Inside(s[1], u, j)
      <4>1. k <= Len(s[1]) /\ s[1][k][1] = u[k][1] /\ (\A i \in 1..k - 1 : s[1][i] = u[i]) /\ Len(u) = k
            /\ Len(s[1]) \in Nat
        <5>1. /\ k <= Len(s[1]) /\ s[1][k][1] = q[k][1] /\ Len(s[1]) \in Nat
              /\ \A i \in 1..k - 1 : s[1][i] = q[i]
          BY <1>4, <3>2
        <5>2. Len(u) = k /\ u[k][1] = q[k][1] /\ \A i \in 1..k - 1 : u[i] = q[i]
          BY <1>6, <3>2
        <5> QED
          BY <5>1, <5>2
      <4>2. j \in Nat /\ j < k /\ j < Len(s[1])
        BY <1>3, <4>1
      <4>3. SamePath(s[1], u, j)
        BY <4>1, <4>2 DEF SamePath
      <4>4. s[1][j + 1][1] = u[j + 1][1]
        <5>1. CASE j + 1 = k
          BY <4>1, <5>1
        <5>2. CASE j + 1 # k
          <6>1. j + 1 \in 1..k - 1
            BY <1>3, <4>2, <5>2
          <6> QED
            BY <4>1, <6>1
        <5> QED
          BY <5>1, <5>2
      <4> QED
        BY <4>2, <4>3, <4>4 DEF Inside
    <3>3. CASE u \in TeamOf(q)
      <4>1. s \in Everything(q)
        BY <1>9, <2>1, <3>3
      <4>2. s[1] \in Tasks /\ (InRegionOf(s[1], q) \/ s \in past[u])
        BY <1>11, <3>3, <4>1
      <4> QED
        BY <3>1, <3>2, <3>3, <4>2
    <3>4. CASE u \notin TeamOf(q)
      BY <1>8, <2>1, <3>1, <3>4
    <3> QED
      BY <3>3, <3>4
  <2> QED
    BY <1>2, <2>1 DEF PastOfRegion, Forked
<1>22. PastOfFork'
  <2>1. ASSUME NEW u \in Tasks, Live(u)', u # InitialTask
        PROVE  past'[Front(u)] \cup {<<Front(u), clock[Front(u)]>>} \subseteq past'[u]
    <3>1. Live(u) /\ Front(u) \in Tasks /\ status[Front(u)] = "forked"
      BY <1>1, <1>10, <2>1, Parent
    <3>2. past[Front(u)] \cup {<<Front(u), clock[Front(u)]>>} \subseteq past[u]
      BY <1>1, <2>1, <3>1 DEF PastOfFork, Upto, Stretch
    <3>3. Front(u) \notin TeamOf(q)
      BY <1>2, <1>6, <3>1
    <3>4. past'[Front(u)] = past[Front(u)]
      BY <1>8, <3>1, <3>3
    <3> QED
      BY <1>12, <3>2, <3>4
  <2> QED
    BY <1>2, <2>1 DEF PastOfFork, Upto, Stretch
<1>23. Current'
  <2>1. ASSUME NEW u \in Tasks, Live(u)', u # InitialTask
        PROVE  Stretch(u) \in DOMAIN recorded /\ recorded[Stretch(u)] = label[u]
    BY <1>1, <1>10, <2>1 DEF Current
  <2> QED
    BY <1>2, <2>1 DEF Current, Stretch
<1>24. AllTold'
  <2>1. ASSUME NEW s \in DOMAIN recorded, NEW v \in Tasks, Live(v)', status'[v] # "forked",
               s = Stretch(v)' => status'[v] \in {"released", "ended"}
        PROVE  IF s \in past'[v] THEN Precedes(recorded[s], Going(v)') ELSE Beside(s[1], v, recorded[s], Going(v)')
    <3>1. CASE v \notin TeamOf(q)
      <4>1. Told(s, v)
        BY <1>1, <1>8, <1>10, <2>1, <3>1 DEF AllTold
      <4> QED
        BY <1>8, <3>1, <4>1 DEF Told
    <3>2. CASE v \in TeamOf(q)
      <4> DEFINE b == Going(v)'
      <4>1. /\ v \in Tasks /\ Live(v) /\ Len(v) = k /\ status[v] = kind /\ Moved(v) = label[v] /\ Going(v) = label[v]
            /\ v # InitialTask /\ v[k][1] = q[k][1] /\ InRegionOf(v, q)
            /\ \A i \in 1..k - 1 : v[i] = q[i]
        BY <1>6, <3>2
      <4>2. b = Front(Bumped(v)) \/ b = Bumped(v)
        BY <1>9, <2>1, <3>2
      <4>3. Ahead(label[v], b, k) /\ Len(b) \in Nat
        BY <1>3, <1>16, <3>2, <4>2
      <4> HIDE DEF b
      <4>4. /\ LabelOfPath(v, label[v]) /\ k + 1 = Len(label[v]) /\ v \in Paths /\ k \in Nat \ {0}
        BY <1>3, <1>4, <4>1
      <4>5. /\ LabelOfPath(s[1], recorded[s]) /\ Len(recorded[s]) = Len(s[1]) + 1
            /\ Len(s[1]) \in Nat /\ s[1] \in Paths /\ s[1] \in Tasks
        BY <1>1, TypedRecord
      <4>6. past'[v] = Everything(q)
        BY <1>9, <3>2
      <4>7. CASE InRegionOf(s[1], q)
        <5>1. /\ k <= Len(s[1]) /\ s[1][k][1] = v[k][1]
              /\ \A i \in 1..k - 1 : s[1][i] = v[i]
          BY <1>4, <4>1, <4>5, <4>7
        <5>2. InRegionOf(s[1], v)
          BY <4>1, <4>4, <4>5, <5>1, InRegionIs
        <5>3. NotAhead(recorded[s], label[v], k)
          BY <1>1, <4>1, <5>2 DEF RegionBehind
        <5>4. k <= Len(recorded[s]) /\ (k > 1 => s[1][k - 1] = v[k - 1])
          BY <4>4, <4>5, <5>1
        <5>5. Precedes(recorded[s], b)
          BY <4>3, <4>4, <4>5, <5>3, <5>4, BehindAhead DEF NotAhead
        <5>6. s \in Everything(q)
          BY <4>5, <4>7, InEverything
        <5> QED
          BY <4>6, <5>5, <5>6 DEF b
      <4>8. CASE ~InRegionOf(s[1], q)
        <5>1. s \in Everything(q) <=> s \in past[v]
          <6>1. s \in Everything(q) => s \in past[v]
            BY <1>11, <3>2, <4>8
          <6>2. s \in past[v] => s \in past'[v]
            BY <1>12, <4>1
          <6> QED
            BY <4>6, <6>1, <6>2
        <5>2. s # Stretch(v)
          BY <4>1, <4>8 DEF Stretch
        <5>3. Told(s, v)
          BY <1>1, <1>2, <4>1, <5>2 DEF AllTold
        <5>4. CASE s \in past[v]
          <6>1. Precedes(recorded[s], label[v])
            BY <4>1, <5>3, <5>4 DEF Told
          <6>2. Precedes(recorded[s], b)
            BY <4>3, <4>4, <4>5, <6>1, PrecedesAhead
          <6> QED
            BY <4>6, <5>1, <5>4, <6>2 DEF b
        <5>5. CASE s \notin past[v]
          <6>1. Beside(s[1], v, recorded[s], label[v])
            BY <4>1, <5>3, <5>5 DEF Told
          <6>2. PICK n \in 0..Len(s[1]) : /\ Part(s[1], v, n) /\ n + 2 <= Len(recorded[s])
                                         /\ Agree(recorded[s], label[v], n + 1)
                                         /\ Span(recorded[s], n + 2) = Span(label[v], n + 2)
            BY <6>1 DEF Beside
          <6>3. n \in Nat /\ n < k
            BY <4>1, <4>5, <6>2 DEF Part
          <6>4. n # k - 1
            <7>1. ASSUME n = k - 1 PROVE FALSE
              <8>1. Inside(s[1], v, k - 1) /\ (k - 1) + 1 = k
                BY <4>4, <6>2, <7>1 DEF Part
              <8>2. k <= Len(s[1]) /\ s[1][k][1] = q[k][1] /\ \A i \in 1..k - 1 : s[1][i] = q[i]
                BY <4>1, <4>4, <4>5, <8>1 DEF Inside, SamePath
              <8> QED
                BY <1>4, <4>5, <4>8, <8>2
            <7> QED
              BY <7>1
          <6>5. n + 2 <= k
            BY <4>4, <6>3, <6>4
          <6>6. Beside(s[1], v, recorded[s], b)
            BY <4>3, <4>4, <4>5, <6>2, <6>5, BesideAhead
          <6> QED
            BY <4>6, <5>1, <5>5, <6>6 DEF b
        <5> QED
          BY <5>4, <5>5
      <4> QED
        BY <4>7, <4>8
    <3> QED
      BY <3>1, <3>2
  <2> QED
    BY <1>2, <2>1 DEF AllTold, Told
<1> QED
  BY <1>13, <1>14, <1>15, <1>19, <1>20, <1>21, <1>22, <1>23, <1>24 DEF IInv

-----------------------------------------------------------------------------
(* A task goes on after a barrier, or its parent after the region           *)

\* Task p goes on after the barrier t was at: t itself, or its parent.
Goes(t, p) ==
  /\ t \in Tasks /\ p \in Tasks /\ t # InitialTask
  /\ \/ p = t /\ status[t] = "released"
     \/ p = Front(t) /\ status[t] = "ended"
  /\ app' = app /\ groups' = groups /\ Tasks' = Tasks
  /\ \A d \in {DOMAIN status', DOMAIN clock', DOMAIN past'} : d = Tasks
  /\ \A v \in Tasks : /\ label'[v] = IF v = p THEN Going(t) ELSE label[v]
                      /\ clock'[v] = IF v = p THEN clock[p] + 1 ELSE clock[v]
                      /\ past'[v] = IF v = p THEN past[t] ELSE past[v]
                      /\ status'[v] = IF v = p THEN "running" ELSE IF v = t THEN "over" ELSE status[v]
  /\ DOMAIN recorded' = DOMAIN recorded \cup (IF p = InitialTask THEN {} ELSE {NextStretch(p)})
  /\ \A s \in DOMAIN recorded : s # NextStretch(p) => recorded'[s] = recorded[s]
  /\ p # InitialTask => recorded'[NextStretch(p)] = Going(t)

\* Records adds the next stretch, unless the task is the initial one.
LEMMA RecordsAre ==
  ASSUME NEW p \in Paths, NEW l, LabelOfPath(p, l)
  PROVE  /\ DOMAIN Records(p, l) = DOMAIN recorded \cup (IF p = InitialTask THEN {} ELSE {NextStretch(p)})
         /\ \A s \in DOMAIN recorded : s # NextStretch(p) => Records(p, l)[s] = recorded[s]
         /\ p # InitialTask => Records(p, l)[NextStretch(p)] = l
<1>1. Accesses(p, l) <=> p # InitialTask
  <2>1. l \in Seq(ImplicitSegment) /\ Len(l) \in Nat \ {0} /\ l # <<>>
    <3>1. l \in Seq(ImplicitSegment) /\ Len(l) = Len(p) + 1 /\ Len(p) \in Nat
      BY Sequences DEF LabelOfPath, Paths
    <3> QED
      BY <3>1, Sequences
  <2>2. Last(l) = l[Len(l)] /\ Len(l) \in 1..Len(l)
    <3>1. Last(l) = l[Len(l)]
      BY <2>1, FrontOf
    <3> QED
      BY <2>1, <3>1
  <2>3. Type(Last(l)) = "eImplicit"
    BY <2>2, LabelSegments
  <2> QED
    BY <2>3 DEF Accesses
<1> DEFINE g == One(NextStretch(p), l)
<1>2. DOMAIN g = {NextStretch(p)} /\ g[NextStretch(p)] = l
  BY DEF One
<1>3. Records(p, l) = IF p = InitialTask THEN recorded ELSE Extend(recorded, g)
  BY <1>1 DEF Records
<1> HIDE DEF g
<1>4. /\ DOMAIN Extend(recorded, g) = DOMAIN recorded \cup {NextStretch(p)}
      /\ Extend(recorded, g)[NextStretch(p)] = l
      /\ \A s \in DOMAIN recorded : s # NextStretch(p) => Extend(recorded, g)[s] = recorded[s]
  <2>1. /\ DOMAIN Extend(recorded, g) = DOMAIN recorded \cup DOMAIN g
        /\ \A x \in DOMAIN g : Extend(recorded, g)[x] = g[x]
        /\ \A x \in DOMAIN recorded : x \notin DOMAIN g => Extend(recorded, g)[x] = recorded[x]
    BY Extending
  <2> QED
    BY <1>2, <2>1
<1>5. CASE p = InitialTask
  BY <1>3, <1>5
<1>6. CASE p # InitialTask
  BY <1>3, <1>4, <1>6
<1> QED
  BY <1>5, <1>6

\* BarrierEnd does what Goes says, for the task itself.
LEMMA GoesIfBarrierEnd ==
  ASSUME NEW M \in Nat, ForkJoin(M), IInv(M), NEW t \in Tasks, BarrierEnd(t)
  PROVE  Goes(t, t)
<1>1. Typed /\ Tree /\ Counted(M)
  BY DEF IInv
<1>2. status[t] = "released" /\ t # InitialTask /\ Live(t) /\ Going(t) = Bumped(t)
  BY <1>1 DEF BarrierEnd, Typed, Live, Going, Moved
<1>3. /\ label' = [label EXCEPT ![t] = Bumped(t)] /\ recorded' = Records(t, Bumped(t))
      /\ clock' = [clock EXCEPT ![t] = @ + 1] /\ past' = [past EXCEPT ![t] = past[t]]
      /\ status' = [status EXCEPT ![t] = "running"] /\ app' = app /\ groups' = groups
  BY DEF BarrierEnd, Continue, Relabel, Labels, Bumped
<1>4. LabelOfPath(t, Bumped(t)) /\ t \in Paths
  BY <1>1, <1>2, Bumping, TypedTask
<1>5. /\ DOMAIN recorded' = DOMAIN recorded \cup (IF t = InitialTask THEN {} ELSE {NextStretch(t)})
      /\ \A s \in DOMAIN recorded : s # NextStretch(t) => recorded'[s] = recorded[s]
      /\ t # InitialTask => recorded'[NextStretch(t)] = Bumped(t)
  BY <1>3, <1>4, RecordsAre
<1>6. Tasks' = Tasks /\ DOMAIN status = Tasks /\ DOMAIN clock = Tasks /\ DOMAIN past = Tasks
  BY <1>1, <1>3 DEF Tasks, Typed
<1>7. \A d \in {DOMAIN status', DOMAIN clock', DOMAIN past'} : d = Tasks
  BY <1>3, <1>6
<1>8. ASSUME NEW v \in Tasks
      PROVE  /\ label'[v] = IF v = t THEN Bumped(t) ELSE label[v]
             /\ clock'[v] = IF v = t THEN clock[t] + 1 ELSE clock[v]
             /\ past'[v] = IF v = t THEN past[t] ELSE past[v]
             /\ status'[v] = IF v = t THEN "running" ELSE IF v = t THEN "over" ELSE status[v]
  BY <1>3, <1>6 DEF Tasks
<1> QED
  BY <1>2, <1>3, <1>5, <1>6, <1>7, <1>8 DEF Goes

\* ImplicitTaskEnd does, for the parent.
LEMMA GoesIfImplicitTaskEnd ==
  ASSUME NEW M \in Nat, ForkJoin(M), IInv(M), NEW t \in Tasks, ImplicitTaskEnd(t)
  PROVE  Goes(t, Front(t))
<1> DEFINE p == Front(t)
<1>1. Typed /\ Tree /\ Counted(M)
  BY DEF IInv
<1>2. /\ status[t] = "ended" /\ t # InitialTask /\ Live(t) /\ Going(t) = Front(Bumped(t))
  BY <1>1 DEF ImplicitTaskEnd, Typed, Live, Going
<1>3. p \in Tasks /\ Len(p) = Len(t) - 1 /\ Len(t) \in Nat /\ p \in Paths /\ p # t
  BY <1>1, <1>2, Parent, TypedTask
<1>4. /\ label' = [label EXCEPT ![p] = Front(Bumped(t))] /\ recorded' = Records(p, Front(Bumped(t)))
      /\ clock' = [clock EXCEPT ![p] = @ + 1] /\ past' = [past EXCEPT ![p] = Upto(p) \cup past[t]]
      /\ status' = [status EXCEPT ![t] = "over", ![p] = "running"] /\ app' = app /\ groups' = groups
  BY DEF ImplicitTaskEnd, Continue, Relabel, Labels, Bumped, mutateParentImpEnd
<1>5. LabelOfPath(p, Front(Bumped(t)))
  BY <1>1, <1>2, Bumping
<1> HIDE DEF p
<1>6. /\ DOMAIN recorded' = DOMAIN recorded \cup (IF p = InitialTask THEN {} ELSE {NextStretch(p)})
      /\ \A s \in DOMAIN recorded : s # NextStretch(p) => recorded'[s] = recorded[s]
      /\ p # InitialTask => recorded'[NextStretch(p)] = Front(Bumped(t))
  BY <1>3, <1>4, <1>5, RecordsAre
<1>7. Tasks' = Tasks /\ DOMAIN status = Tasks /\ DOMAIN clock = Tasks /\ DOMAIN past = Tasks
  BY <1>1, <1>4 DEF Tasks, Typed
<1>8. \A d \in {DOMAIN status', DOMAIN clock', DOMAIN past'} : d = Tasks
  BY <1>4, <1>7
<1>9. Upto(p) \cup past[t] = past[t]
  <2>1. Upto(p) \subseteq past[t]
    BY <1>2 DEF IInv, PastOfFork, p
  <2> QED
    BY <2>1
<1>10. ASSUME NEW v \in Tasks
      PROVE  /\ label'[v] = IF v = p THEN Front(Bumped(t)) ELSE label[v]
             /\ clock'[v] = IF v = p THEN clock[p] + 1 ELSE clock[v]
             /\ past'[v] = IF v = p THEN past[t] ELSE past[v]
             /\ status'[v] = IF v = p THEN "running" ELSE IF v = t THEN "over" ELSE status[v]
  <2>1. label'[v] = IF v = p THEN Front(Bumped(t)) ELSE label[v]
    BY <1>4 DEF Tasks
  <2>2. clock'[v] = IF v = p THEN clock[p] + 1 ELSE clock[v]
    BY <1>4, <1>7
  <2>3. past'[v] = IF v = p THEN past[t] ELSE past[v]
    BY <1>4, <1>7, <1>9
  <2>4. status'[v] = IF v = p THEN "running" ELSE IF v = t THEN "over" ELSE status[v]
    BY <1>4, <1>7
  <2> QED
    BY <2>1, <2>2, <2>3, <2>4
<1>11. p = Front(t)
  BY DEF p
<1> QED
  BY <1>2, <1>3, <1>4, <1>6, <1>7, <1>8, <1>10, <1>11 DEF Goes

\* A task matches itself.
LEMMA MatchItself ==
  ASSUME NEW p \in Paths, NEW l, Len(l) = Len(p) + 1
  PROVE  Match(p, p, l, l)
<1>1. Len(p) \in Nat
  BY Sequences DEF Paths
<1> SUFFICES ASSUME NEW j \in 0..Len(p), j <= Len(p), SamePath(p, p, j)
             PROVE  /\ Agree(l, l, j) /\ Span(l, j + 1) = Span(l, j + 1)
                    /\ j < Len(p) /\ j < Len(p) => Agree(l, l, j + 1) /\ Span(l, j + 2) = Span(l, j + 2)
  BY DEF Match
<1>2. Agree(l, l, j) /\ (j < Len(p) => Agree(l, l, j + 1))
  BY <1>1 DEF Agree
<1> QED
  BY <1>2

\* A label that matches another matches the front of it.
LEMMA MatchShorter ==
  ASSUME NEW v, NEW t, NEW p, NEW l, NEW c, NEW b, Len(v) \in Nat, Len(p) \in Nat, Len(t) = Len(p) + 1,
         Match(v, t, l, c), Agree(c, b, Len(t)), \A i \in 1..Len(p) : p[i] = t[i]
  PROVE  Match(v, p, l, b)
<1> SUFFICES ASSUME NEW j \in 0..Len(v), j <= Len(p), SamePath(v, p, j)
             PROVE  /\ Agree(l, b, j) /\ Span(l, j + 1) = Span(b, j + 1)
                    /\ j < Len(v) /\ j < Len(p) => Agree(l, b, j + 1) /\ Span(l, j + 2) = Span(b, j + 2)
  BY DEF Match
<1>1. j \in Nat /\ j <= Len(t) /\ j < Len(t) /\ j + 1 \in Nat \ {0} /\ j + 1 <= Len(t) /\ Len(t) \in Nat
  OBVIOUS
<1>2. SamePath(v, t, j)
  BY <1>1 DEF SamePath
<1>3. /\ Agree(l, c, j) /\ Span(l, j + 1) = Span(c, j + 1)
      /\ j < Len(v) /\ j < Len(t) => Agree(l, c, j + 1) /\ Span(l, j + 2) = Span(c, j + 2)
  BY <1>1, <1>2 DEF Match
<1>4. Agree(l, b, j) /\ Span(l, j + 1) = Span(b, j + 1)
  <2>1. Agree(c, b, j)
    BY <1>1, AgreeLess
  <2>2. Span(c, j + 1) = Span(b, j + 1)
    BY <1>1, AgreeAt
  <2> QED
    BY <1>3, <2>1, <2>2, AgreeTransfer
<1>5. ASSUME j < Len(v), j < Len(p) PROVE Agree(l, b, j + 1) /\ Span(l, j + 2) = Span(b, j + 2)
  <2>1. Agree(l, c, j + 1) /\ Span(l, j + 2) = Span(c, j + 2)
    BY <1>1, <1>3, <1>5
  <2>2. Agree(c, b, j + 1)
    BY <1>1, AgreeLess
  <2>3. j + 2 \in Nat \ {0} /\ j + 2 <= Len(t)
    BY <1>5
  <2>4. Span(c, j + 2) = Span(b, j + 2)
    BY <1>1, <2>3, AgreeAt
  <2> QED
    BY <2>1, <2>2, <2>4, AgreeTransfer
<1> QED
  BY <1>4, <1>5

\* A task that goes on preserves the invariant.
LEMMA GoesKeeps ==
  ASSUME NEW M \in Nat, ForkJoin(M), IInv(M), NEW t, NEW p, Goes(t, p)
  PROVE  IInv(M)'
<1>1. /\ Typed /\ Tree /\ Counted(M) /\ Coherent /\ RegionBehind
      /\ PastOfRegion /\ PastOfFork /\ Current /\ AllTold
  BY DEF IInv
<1>2. /\ t \in Tasks /\ p \in Tasks /\ t # InitialTask
      /\ p = t \/ p = Front(t)
      /\ p = t => status[t] = "released"
      /\ p # t => status[t] = "ended"
      /\ status[t] \in {"released", "ended"} /\ Live(t) /\ Moved(t) = Bumped(t)
      /\ app' = app /\ groups' = groups /\ Tasks' = Tasks
  <2>1. Front(t) # t
    <3>1. t \in Tasks /\ t # InitialTask
      BY DEF Goes
    <3> QED
      BY <1>1, <3>1, Parent, TypedTask
  <2> QED
    BY <2>1 DEF Goes, Live, Moved
<1>3. /\ t \in Paths /\ p \in Paths /\ Len(t) \in Nat \ {0} /\ Len(p) \in Nat
      /\ LabelOfPath(t, label[t]) /\ Len(label[t]) = Len(t) + 1
      /\ LabelOfPath(p, label[p]) /\ Len(label[p]) = Len(p) + 1 /\ clock[p] \in Nat
      /\ p # t => Len(t) = Len(p) + 1
      /\ Len(p) <= Len(t) /\ \A i \in 1..Len(p) : p[i] = t[i]
  <2>1. /\ t \in Paths /\ p \in Paths /\ Len(t) \in Nat \ {0} /\ Len(p) \in Nat
        /\ LabelOfPath(t, label[t]) /\ Len(label[t]) = Len(t) + 1
        /\ LabelOfPath(p, label[p]) /\ Len(label[p]) = Len(p) + 1 /\ clock[p] \in Nat
    BY <1>1, <1>2, TypedTask
  <2>2. CASE p = t
    BY <2>1, <2>2
  <2>3. CASE p # t
    <3>1. Len(p) = Len(t) - 1 /\ \A i \in 1..Len(t) - 1 : p[i] = t[i]
      BY <1>1, <1>2, <2>3, Parent
    <3> QED
      BY <2>1, <3>1
  <2> QED
    BY <2>1, <2>2, <2>3
<1>4. /\ p # t => status[p] = "forked" /\ Moved(p) = label[p]
      /\ Live(p) /\ status[p] \in {"forked", "released"}
  <2>1. p # t => status[p] = "forked" /\ Live(p)
    BY <1>1, <1>2, Parent
  <2> QED
    BY <1>2, <2>1 DEF Moved
<1>5. ASSUME NEW v \in Tasks
      PROVE  /\ label'[v] = IF v = p THEN Going(t) ELSE label[v]
             /\ clock'[v] = IF v = p THEN clock[p] + 1 ELSE clock[v]
             /\ past'[v] = IF v = p THEN past[t] ELSE past[v]
             /\ status'[v] = IF v = p THEN "running" ELSE IF v = t THEN "over" ELSE status[v]
  BY DEF Goes
<1>6. ASSUME NEW v \in Tasks, v # p
      PROVE  /\ Live(v)' => Live(v) /\ v # t /\ status'[v] = status[v] /\ Moved(v)' = Moved(v) /\ Going(v)' = Going(v)
             /\ Stretch(v)' = Stretch(v) /\ label'[v] = label[v] /\ clock'[v] = clock[v] /\ past'[v] = past[v]
             /\ v # t => status'[v] = status[v] /\ (Live(v) => Live(v)')
  <2>1. /\ label'[v] = label[v] /\ clock'[v] = clock[v] /\ past'[v] = past[v]
        /\ status'[v] = IF v = t THEN "over" ELSE status[v]
    BY <1>5, <1>6
  <2>2. Stretch(v)' = Stretch(v)
    BY <2>1 DEF Stretch
  <2>3. Live(v)' => v # t
    BY <2>1 DEF Live
  <2>4. v # t => status'[v] = status[v] /\ (Live(v)' <=> Live(v)) /\ Moved(v)' = Moved(v) /\ Going(v)' = Going(v)
    BY <1>2, <2>1, SameMoved DEF Live
  <2> QED
    BY <2>1, <2>2, <2>3, <2>4
<1> DEFINE l == Going(t)
<1>7. /\ LabelOfPath(t, Bumped(t)) /\ Len(Bumped(t)) = Len(t) + 1 /\ Ahead(label[t], Bumped(t), Len(t))
      /\ LabelOfPath(p, l) /\ Len(l) = Len(p) + 1 /\ Agree(Bumped(t), l, Len(l)) /\ Ahead(label[t], l, Len(t))
  <2>1. /\ LabelOfPath(t, Bumped(t)) /\ Len(Bumped(t)) = Len(t) + 1 /\ Ahead(label[t], Bumped(t), Len(t))
        /\ LabelOfPath(Front(t), Front(Bumped(t))) /\ Len(Front(Bumped(t))) = Len(t)
        /\ Ahead(label[t], Front(Bumped(t)), Len(t)) /\ Agree(Bumped(t), Front(Bumped(t)), Len(t))
    BY <1>1, <1>2, Bumping
  <2>2. CASE p = t
    <3>1. l = Bumped(t)
      BY <1>2, <2>2 DEF Going
    <3>2. Agree(Bumped(t), Bumped(t), Len(t) + 1)
      BY <1>3, <2>1 DEF Agree
    <3> QED
      BY <1>3, <2>1, <2>2, <3>1, <3>2
  <2>3. CASE p # t
    <3>1. l = Front(Bumped(t)) /\ p = Front(t) /\ Len(t) = Len(p) + 1
      BY <1>2, <1>3, <2>3 DEF Going
    <3> QED
      BY <2>1, <3>1
  <2> QED
    BY <2>2, <2>3
<1> HIDE DEF l
<1>8. /\ label'[p] = l /\ clock'[p] = clock[p] + 1 /\ past'[p] = past[t] /\ status'[p] = "running"
      /\ Live(p)' /\ Moved(p)' = l /\ Going(p)' = l /\ Stretch(p)' = NextStretch(p) /\ NextStretch(p) = <<p, clock[p] + 1>>
  <2>1. label'[p] = l /\ clock'[p] = clock[p] + 1 /\ past'[p] = past[t] /\ status'[p] = "running"
    BY <1>2, <1>5 DEF l
  <2> QED
    BY <1>2, <2>1 DEF Live, Moved, Going, Stretch, NextStretch
<1>9. /\ DOMAIN recorded' = DOMAIN recorded \cup (IF p = InitialTask THEN {} ELSE {NextStretch(p)})
      /\ p # InitialTask => recorded'[NextStretch(p)] = l
      /\ NextStretch(p) \notin DOMAIN recorded
  <2>1. NextStretch(p) \notin DOMAIN recorded
    <3>1. ASSUME NextStretch(p) \in DOMAIN recorded PROVE FALSE
      <4>1. NextStretch(p)[2] <= clock[NextStretch(p)[1]]
        BY <1>1, <3>1, TypedRecord
      <4> QED
        BY <1>3, <1>8, <4>1
    <3> QED
      BY <3>1
  <2> QED
    BY <2>1 DEF Goes, l
<1>10. \A s \in DOMAIN recorded : recorded'[s] = recorded[s]
  BY <1>9 DEF Goes
<1>11. \A v \in Tasks : NextStretch(p) \notin past[v]
  <2>1. ASSUME NEW v \in Tasks, NextStretch(p) \in past[v] PROVE FALSE
    <3>1. NextStretch(p)[2] <= clock[NextStretch(p)[1]]
      BY <1>1, <2>1 DEF Typed
    <3> QED
      BY <1>3, <1>8, <3>1
  <2> QED
    BY <2>1
\* Nothing lives below p afterwards.
<1>12. ASSUME NEW v \in Tasks, Below(p, v) PROVE ~Live(v)'
  <2>1. v # p
    BY <1>3, <1>12 DEF Below
  <2>2. CASE p = t
    <3>1. ~Live(v)
      BY <1>1, <1>2, <1>12, <2>2 DEF Tree
    <3> QED
      BY <1>6, <2>1, <3>1
  <2>3. CASE p # t
    <3>1. Live(v) => v = t
      BY <1>1, <1>2, <1>12, <2>3 DEF Tree
    <3> QED
      BY <1>6, <2>1, <3>1
  <2> QED
    BY <2>2, <2>3
<1>13. ASSUME NEW v \in Tasks PROVE Live(v)' => Live(v)
  BY <1>4, <1>6
<1>14. Typed'
  <2>1. /\ app \in Programs /\ Tasks \subseteq Paths /\ InitialTask \in Tasks
        /\ \A d \in {DOMAIN status', DOMAIN clock', DOMAIN groups', DOMAIN past'} : d = Tasks
    <3>1. DOMAIN groups' = Tasks /\ app \in Programs /\ Tasks \subseteq Paths /\ InitialTask \in Tasks
      BY <1>1, <1>2 DEF Typed
    <3>2. \A d \in {DOMAIN status', DOMAIN clock', DOMAIN past'} : d = Tasks
      BY DEF Goes
    <3> QED
      BY <3>1, <3>2
  <2>2. ASSUME NEW s, s[1] \in Tasks, s[2] \in Nat, s[2] <= clock[s[1]] PROVE s[2] <= clock'[s[1]]
    <3>1. clock[s[1]] \in Nat
      BY <1>1, <2>2, TypedTask
    <3>2. clock'[s[1]] = clock[s[1]] \/ clock'[s[1]] = clock[s[1]] + 1
      BY <1>5, <2>2
    <3> QED
      BY <2>2, <3>1, <3>2
  <2>3. ASSUME NEW v \in Tasks
        PROVE  /\ status'[v] \in {"running", "forked", "atBarrier", "atEnd", "released", "ended", "over"}
               /\ clock'[v] \in Nat /\ groups'[v] = <<>> /\ LabelOfPath(v, label'[v])
               /\ \A s \in past'[v] : s[1] \in Tasks /\ s[2] \in Nat /\ s[2] <= clock'[s[1]]
    <3>1. /\ status[v] \in {"running", "forked", "atBarrier", "atEnd", "released", "ended", "over"}
          /\ clock[v] \in Nat /\ groups[v] = <<>> /\ LabelOfPath(v, label[v])
      BY <1>1 DEF Typed
    <3>2. status'[v] \in {"running", "forked", "atBarrier", "atEnd", "released", "ended", "over"}
      BY <1>5, <3>1
    <3>3. clock'[v] \in Nat /\ groups'[v] = <<>> /\ LabelOfPath(v, label'[v])
      <4>1. CASE v = p
        BY <1>2, <1>3, <1>7, <1>8, <3>1, <4>1
      <4>2. CASE v # p
        BY <1>2, <1>6, <3>1, <4>2
      <4> QED
        BY <4>1, <4>2
    <3>4. ASSUME NEW s \in past'[v] PROVE s[1] \in Tasks /\ s[2] \in Nat /\ s[2] <= clock'[s[1]]
      <4>1. PICK w \in Tasks : s \in past[w]
        BY <1>2, <1>5, <3>4
      <4> QED
        BY <1>1, <2>2, <4>1 DEF Typed
    <3> QED
      BY <3>2, <3>3, <3>4
  <2>4. status'[InitialTask] \in {"running", "forked"}
    <3>1. status[InitialTask] \in {"running", "forked"} /\ InitialTask \in Tasks
      BY <1>1 DEF Typed
    <3> QED
      BY <1>2, <1>5, <3>1
  <2>5. ASSUME NEW s \in DOMAIN recorded'
        PROVE  /\ s \in Tasks \X Nat /\ s[1] # InitialTask /\ s[2] <= clock'[s[1]]
               /\ LabelOfPath(s[1], recorded'[s])
    <3>1. CASE s \in DOMAIN recorded
      <4>1. s \in Tasks \X Nat /\ s[1] # InitialTask /\ s[2] <= clock[s[1]] /\ LabelOfPath(s[1], recorded[s])
        BY <1>1, <3>1 DEF Typed
      <4>2. s[1] \in Tasks /\ s[2] \in Nat
        BY <4>1
      <4> QED
        BY <1>10, <2>2, <3>1, <4>1, <4>2
    <3>2. CASE s \notin DOMAIN recorded
      <4>1. p # InitialTask /\ s = <<p, clock[p] + 1>> /\ recorded'[s] = l
        BY <1>8, <1>9, <3>2
      <4>2. clock[p] + 1 \in Nat /\ s[1] = p /\ s[2] = clock[p] + 1
        BY <1>3, <4>1
      <4> QED
        BY <1>2, <1>3, <1>7, <1>8, <4>1, <4>2
    <3> QED
      BY <3>1, <3>2
  <2> QED
    BY <1>2, <2>1, <2>3, <2>4, <2>5, TypedNext
<1>15. Tree'
  <2>1. \A v \in Tasks : \A j \in 0..Len(v) : SubSeq(v, 1, j) \in Tasks
    BY <1>1 DEF Tree
  <2>2. ASSUME NEW a \in Tasks, NEW v \in Tasks, Below(a, v)
        PROVE  /\ v[Len(a) + 1][1] <= clock'[a]
               /\ v[Len(a) + 1][1] = clock'[a] => status'[a] \in {"forked", "over"}
               /\ Live(v)' => status'[a] = "forked" /\ v[Len(a) + 1][1] = clock'[a]
    <3>1. /\ v[Len(a) + 1][1] <= clock[a]
          /\ v[Len(a) + 1][1] = clock[a] => status[a] \in {"forked", "over"}
          /\ Live(v) => status[a] = "forked" /\ v[Len(a) + 1][1] = clock[a]
      BY <1>1, <2>2 DEF Tree
    <3>2. CASE a = p
      <4>1. v[Len(a) + 1][1] \in Nat
        <5>1. v \in Paths /\ Len(v) \in Nat
          BY <1>1, TypedTask
        <5>2. Len(a) + 1 \in 1..Len(v)
          BY <1>3, <2>2, <3>2, <5>1 DEF Below
        <5> QED
          BY <5>1, <5>2, StepParts
      <4>2. ~Live(v)'
        BY <1>12, <2>2, <3>2
      <4>3. v[Len(a) + 1][1] <= clock'[a] /\ v[Len(a) + 1][1] # clock'[a]
        BY <1>3, <1>8, <3>1, <3>2, <4>1
      <4> QED
        BY <4>2, <4>3
    <3>3. CASE a # p /\ a # t
      BY <1>6, <1>13, <3>1, <3>3
    <3>4. CASE a # p /\ a = t
      <4>1. status[a] \notin {"forked", "over"}
        BY <1>2, <3>4
      <4> QED
        BY <1>6, <1>13, <3>1, <3>4, <4>1
    <3> QED
      BY <3>2, <3>3, <3>4
  <2>3. ASSUME NEW v \in Tasks, status'[v] = "ended"
        PROVE  Last(v)[2] = 0 /\ \A u \in Tasks : Live(u)' /\ Below(Front(v), u) => u = v
    <3>1. v # p /\ status[v] = "ended"
      BY <1>5, <1>8, <2>3
    <3>2. Last(v)[2] = 0 /\ \A u \in Tasks : Live(u) /\ Below(Front(v), u) => u = v
      BY <1>1, <3>1 DEF Tree
    <3> QED
      BY <1>13, <3>2
  <2> QED
    BY <1>2, <2>1, <2>2, <2>3 DEF Tree
\* The label of the parent, as far as p's label goes, is unchanged.
<1>16. ASSUME p # t
       PROVE  /\ Agree(label[p], l, Len(p)) /\ Span(label[p], Len(p) + 1) = Span(l, Len(p) + 1)
  <2>1. Match(p, t, label[p], Bumped(t))
    BY <1>1, <1>2, <1>4, <1>16 DEF Coherent
  <2>2. Len(p) \in 0..Len(p) /\ Len(p) <= Len(t) /\ SamePath(p, t, Len(p))
    BY <1>3 DEF SamePath
  <2>3. Agree(label[p], Bumped(t), Len(p)) /\ Span(label[p], Len(p) + 1) = Span(Bumped(t), Len(p) + 1)
    BY <2>1, <2>2 DEF Match
  <2>4. Agree(Bumped(t), l, Len(p) + 1) /\ Len(p) + 1 \in Nat /\ Len(p) <= Len(p) + 1
    BY <1>3, <1>7
  <2>5. Agree(Bumped(t), l, Len(p))
    BY <1>3, <2>4, AgreeLess
  <2>6. Span(Bumped(t), Len(p) + 1) = Span(l, Len(p) + 1)
    BY <1>3, <2>4, AgreeAt
  <2> QED
    BY <2>3, <2>5, <2>6, AgreeTransfer
<1>17. Counted(M)'
  <2>1. MaxSteps' = MaxSteps
    BY <1>2 DEF MaxSteps
  <2>2. /\ clock[p] < M /\ (p # InitialTask => Len(p) + 1 <= Len(MaxSteps))
        /\ Offset(label[p], Len(p) + 1) < Span(label[p], Len(p) + 1) * (1 + clock[p] * (M + 1))
    BY <1>1, <1>2, <1>4 DEF Counted
  <2>3. Offset(l, Len(p) + 1) < Span(l, Len(p) + 1) * (1 + (clock[p] + 1) * (M + 1))
    <3>1. CASE p = t
      <4>1. Offset(l, Len(p) + 1) = Offset(label[p], Len(p) + 1) /\ Span(l, Len(p) + 1) = Span(label[p], Len(p) + 1)
        <5>1. Ahead(label[t], l, Len(t)) /\ Len(l) = Len(t) + 1 /\ Len(t) + 1 \in 1..Len(l) /\ Len(t) + 1 # Len(t)
          BY <1>3, <1>7, <3>1
        <5> QED
          BY <3>1, <5>1 DEF Ahead
      <4>2. Span(label[p], Len(p) + 1) \in Nat /\ Offset(label[p], Len(p) + 1) \in Nat
        <5>1. Len(p) + 1 \in 1..Len(label[p])
          BY <1>3
        <5> QED
          BY <1>3, <5>1, LabelSegments
      <4>3. ASSUME NEW o \in Nat, NEW n \in Nat, NEW c \in Nat, o < n * (1 + c * (M + 1))
            PROVE  o < n * (1 + (c + 1) * (M + 1))
        <5>1. n * (1 + (c + 1) * (M + 1)) = (n * (1 + c * (M + 1))) + (n * (M + 1))
          BY <4>3
        <5>2. n * (M + 1) \in Nat /\ n * (1 + c * (M + 1)) \in Nat
          BY <4>3
        <5> DEFINE X == n * (1 + (c + 1) * (M + 1))
                   Y == n * (1 + c * (M + 1))
                   Z == n * (M + 1)
        <5>3. o < Y /\ X = Y + Z /\ Z \in Nat /\ Y \in Nat
          BY <4>3, <5>1, <5>2
        <5> HIDE DEF X, Y, Z
        <5>4. o < X
          BY <5>3
        <5> QED
          BY <5>4 DEF X
      <4> QED
        BY <1>3, <2>2, <4>1, <4>2, <4>3
    <3>2. CASE p # t
      <4>1. Offset(label[t], Len(t)) + Span(label[t], Len(t)) < Span(label[t], Len(t)) * (1 + (clock[Front(t)] + 1) * (M + 1))
        BY <1>1, <1>2, NoWrap
      <4>2. p = Front(t) /\ Len(p) + 1 = Len(t) /\ Len(l) = Len(t) /\ Len(t) \in 1..Len(l)
        BY <1>2, <1>3, <1>7, <3>2
      <4>3. Offset(l, Len(t)) = Offset(label[t], Len(t)) + Span(label[t], Len(t)) /\ Span(l, Len(t)) = Span(label[t], Len(t))
        BY <1>7, <4>2 DEF Ahead
      <4> QED
        BY <4>1, <4>2, <4>3
    <3> QED
      BY <3>1, <3>2
  <2>4. ASSUME p # InitialTask
        PROVE  /\ Span(l, Len(p)) = Span(label[Front(p)], Len(p))
               /\ Offset(l, Len(p)) <= Offset(label[Front(p)], Len(p)) + Span(label[Front(p)], Len(p)) * (clock[p] + 1)
    <3>1. /\ Span(label[p], Len(p)) = Span(label[Front(p)], Len(p))
          /\ Offset(label[p], Len(p)) <= Offset(label[Front(p)], Len(p)) + Span(label[Front(p)], Len(p)) * clock[p]
      BY <1>1, <1>2, <1>4, <2>4 DEF Counted
    <3>2. Len(p) \in 1..Len(label[p]) /\ Len(p) \in Nat \ {0} /\ Len(p) \in 1..Len(p)
      BY <1>1, <1>2, <1>3, <2>4, TypedTask
    <3>3. Span(label[p], Len(p)) \in Nat /\ Offset(label[p], Len(p)) \in Nat
      BY <1>3, <3>2, LabelSegments
    <3>4. Front(p) \in Tasks /\ Len(Front(p)) = Len(p) - 1
      BY <1>1, <1>2, <2>4, Parent
    <3>5. Offset(label[Front(p)], Len(p)) \in Nat
      <4>1. LabelOfPath(Front(p), label[Front(p)]) /\ Len(label[Front(p)]) = Len(p)
        BY <1>1, <1>3, <3>4, TypedTask
      <4>2. Len(p) \in 1..Len(label[Front(p)])
        BY <3>2, <4>1
      <4> QED
        BY <4>1, <4>2, LabelSegments
    <3>6. /\ Span(l, Len(p)) = Span(label[p], Len(p))
          /\ \/ Offset(l, Len(p)) = Offset(label[p], Len(p))
             \/ Offset(l, Len(p)) = Offset(label[p], Len(p)) + Span(label[p], Len(p))
      <4>1. CASE p = t
        <5>1. Ahead(label[p], l, Len(p)) /\ Len(p) \in 1..Len(l)
          BY <1>7, <3>2, <4>1
        <5> QED
          BY <5>1 DEF Ahead
      <4>2. CASE p # t
        BY <1>16, <3>2, <4>2 DEF Agree
      <4> QED
        BY <4>1, <4>2
    <3>7. ASSUME NEW o \in Nat, NEW a \in Nat, NEW n \in Nat, NEW c \in Nat, NEW x, a <= o + n * c, x = a \/ x = a + n
          PROVE  x <= o + n * (c + 1)
      <4>1. n * (c + 1) = (n * c) + n /\ n * c \in Nat
        BY <3>7
      <4> DEFINE X == n * (c + 1)
                 Y == n * c
      <4>2. a <= o + Y /\ X = Y + n /\ Y \in Nat
        BY <3>7, <4>1
      <4> HIDE DEF X, Y
      <4>3. x <= o + X
        BY <3>7, <4>2
      <4> QED
        BY <4>3 DEF X
    <3>8. Offset(l, Len(p)) <= Offset(label[Front(p)], Len(p)) + Span(label[p], Len(p)) * (clock[p] + 1)
      <4>1. Offset(label[p], Len(p)) <= Offset(label[Front(p)], Len(p)) + Span(label[p], Len(p)) * clock[p]
        BY <3>1
      <4> QED
        BY <1>3, <3>3, <3>5, <3>6, <3>7, <4>1
    <3> QED
      BY <3>1, <3>6, <3>8
  <2>5. ASSUME NEW v \in Tasks, Live(v)'
        PROVE  /\ clock'[v] <= M
               /\ v # InitialTask => Len(v) + 1 <= Len(MaxSteps)
               /\ status'[v] \in {"forked", "atBarrier", "released"} => clock'[v] < M
               /\ Offset(label'[v], Len(v) + 1) < Span(label'[v], Len(v) + 1) * (1 + clock'[v] * (M + 1))
    <3>1. CASE v = p
      <4>1. clock'[p] <= M
        BY <1>3, <1>8, <2>2
      <4>2. status'[p] \notin {"forked", "atBarrier", "released"}
        BY <1>8
      <4>3. Offset(label'[p], Len(p) + 1) < Span(label'[p], Len(p) + 1) * (1 + clock'[p] * (M + 1))
        BY <1>8, <2>3
      <4> QED
        BY <2>2, <3>1, <4>1, <4>2, <4>3
    <3>2. CASE v # p
      <4>1. Live(v) /\ label'[v] = label[v] /\ clock'[v] = clock[v] /\ status'[v] = status[v]
        BY <1>6, <2>5, <3>2
      <4>2. /\ clock[v] <= M
            /\ v # InitialTask => Len(v) + 1 <= Len(MaxSteps)
            /\ status[v] \in {"forked", "atBarrier", "released"} => clock[v] < M
            /\ Offset(label[v], Len(v) + 1) < Span(label[v], Len(v) + 1) * (1 + clock[v] * (M + 1))
        BY <1>1, <4>1 DEF Counted
      <4> QED
        BY <4>1, <4>2
    <3> QED
      BY <3>1, <3>2
  <2>6. ASSUME NEW v \in Tasks, Live(v)', v # InitialTask
        PROVE  /\ Span(label'[v], Len(v)) = Span(label'[Front(v)], Len(v))
               /\ Offset(label'[v], Len(v)) <= Offset(label'[Front(v)], Len(v)) + Span(label'[Front(v)], Len(v)) * clock'[v]
    <3>1. Front(v) \in Tasks /\ Below(Front(v), v) /\ Len(Front(v)) = Len(v) - 1 /\ Len(v) \in Nat
      BY <1>1, <2>6, Parent, TypedTask
    <3>2. Front(v) # p
      BY <1>12, <2>6, <3>1
    <3>3. label'[Front(v)] = label[Front(v)]
      BY <1>6, <3>1, <3>2
    <3>4. CASE v = p
      BY <1>8, <2>4, <2>6, <3>3, <3>4
    <3>5. CASE v # p
      <4>1. Live(v) /\ label'[v] = label[v] /\ clock'[v] = clock[v]
        BY <1>6, <2>6, <3>5
      <4>2. /\ Span(label[v], Len(v)) = Span(label[Front(v)], Len(v))
            /\ Offset(label[v], Len(v)) <= Offset(label[Front(v)], Len(v)) + Span(label[Front(v)], Len(v)) * clock[v]
        BY <1>1, <2>6, <4>1 DEF Counted
      <4> QED
        BY <3>3, <4>1, <4>2
    <3> QED
      BY <3>4, <3>5
  <2> QED
    BY <1>2, <2>1, <2>5, <2>6 DEF Counted
<1>18. ASSUME NEW v \in Tasks, v # p, Live(v)'
       PROVE  /\ Live(v) /\ Match(v, p, Moved(v), l) /\ Match(p, v, l, Moved(v)) /\ Match(t, v, Bumped(t), Moved(v))
              /\ Len(v) \in Nat
  <2>1. Live(v) /\ Len(v) \in Nat
    BY <1>1, <1>6, <1>18, TypedTask
  <2>2. Match(v, t, Moved(v), Bumped(t)) /\ Match(t, v, Bumped(t), Moved(v))
    BY <1>1, <1>2, <2>1 DEF Coherent
  <2>3. Match(v, p, Moved(v), l)
    <3>1. CASE p = t
      <4>1. l = Bumped(t)
        BY <1>2, <3>1 DEF l, Going
      <4> QED
        BY <2>2, <3>1, <4>1
    <3>2. CASE p # t
      <4>1. Len(t) = Len(p) + 1 /\ Agree(Bumped(t), l, Len(t))
        BY <1>3, <1>7, <3>2
      <4> QED
        BY <1>3, <2>1, <2>2, <4>1, MatchShorter
    <3> QED
      BY <3>1, <3>2
  <2>4. Match(p, v, l, Moved(v))
    BY <1>3, <2>1, <2>3, MatchSymmetric
  <2> QED
    BY <2>1, <2>2, <2>3, <2>4
<1>19. Coherent'
  <2>1. ASSUME NEW v \in Tasks, NEW u \in Tasks, Live(v)', Live(u)' PROVE Match(v, u, Moved(v)', Moved(u)')
    <3>1. CASE v = p /\ u = p
      BY <1>3, <1>7, <1>8, <3>1, MatchItself
    <3>2. CASE v # p /\ u = p
      <4>1. Moved(v)' = Moved(v) /\ Moved(u)' = l
        BY <1>6, <1>8, <2>1, <3>2
      <4> QED
        BY <1>18, <2>1, <3>2, <4>1
    <3>3. CASE v = p /\ u # p
      <4>1. Moved(u)' = Moved(u) /\ Moved(v)' = l
        BY <1>6, <1>8, <2>1, <3>3
      <4> QED
        BY <1>18, <2>1, <3>3, <4>1
    <3>4. CASE v # p /\ u # p
      <4>1. Moved(u)' = Moved(u) /\ Moved(v)' = Moved(v)
        BY <1>6, <2>1, <3>4
      <4>2. Match(v, u, Moved(v), Moved(u))
        BY <1>1, <1>13, <2>1 DEF Coherent
      <4> QED
        BY <4>1, <4>2
    <3> QED
      BY <3>1, <3>2, <3>3, <3>4
  <2> QED
    BY <1>2, <2>1 DEF Coherent
<1>20. ASSUME NEW s \in DOMAIN recorded', s \notin DOMAIN recorded
       PROVE  p # InitialTask /\ s = NextStretch(p) /\ s[1] = p /\ recorded'[s] = l
  BY <1>8, <1>9, <1>20
<1>21. RegionBehind'
  <2>1. ASSUME NEW s \in DOMAIN recorded', NEW u \in Tasks, Live(u)', u # InitialTask, InRegionOf(s[1], u)
        PROVE  NotAhead(recorded'[s], Moved(u)', Len(u))
    <3>0. Len(u) \in Nat \ {0} /\ u \in Paths /\ Live(u)
      BY <1>1, <1>13, <2>1, TypedTask
    <3>1. CASE s \in DOMAIN recorded /\ u # p
      <4>1. NotAhead(recorded[s], Moved(u), Len(u))
        BY <1>1, <2>1, <3>0, <3>1 DEF RegionBehind
      <4> QED
        BY <1>6, <1>10, <2>1, <3>1, <4>1
    <3>2. CASE s \in DOMAIN recorded /\ u = p
      <4>1. NotAhead(recorded[s], Moved(p), Len(p))
        BY <1>1, <2>1, <3>0, <3>2 DEF RegionBehind
      <4>2. Agree(Moved(p), l, Len(p))
        <5>1. CASE p = t
          <6>1. l = Moved(p)
            BY <1>2, <5>1 DEF l, Going
          <6>2. Agree(l, l, Len(p))
            BY <1>3, <1>7 DEF Agree
          <6> QED
            BY <6>1, <6>2
        <5>2. CASE p # t
          BY <1>4, <1>16, <5>2
        <5> QED
          BY <5>1, <5>2
      <4>3. Len(p) \in Nat \ {0} /\ Len(p) - 1 \in Nat /\ Len(p) - 1 <= Len(p)
        BY <3>0, <3>2
      <4>4. Agree(Moved(p), l, Len(p) - 1) /\ Offset(Moved(p), Len(p)) = Offset(l, Len(p)) /\ Span(Moved(p), Len(p)) = Span(l, Len(p))
        BY <4>2, <4>3, AgreeLess, AgreeAt
      <4>5. NotAhead(recorded[s], l, Len(p))
        BY <4>1, <4>4, AgreeTransfer DEF NotAhead
      <4> QED
        BY <1>8, <1>10, <3>2, <4>5
    <3>3. CASE s \notin DOMAIN recorded /\ u = p
      <4>1. recorded'[s] = l /\ Moved(u)' = l
        BY <1>8, <1>20, <3>3
      <4>2. Agree(l, l, Len(p) - 1)
        BY <1>3, <1>7 DEF Agree
      <4>3. Offset(l, Len(p)) \in Nat
        <5>1. Len(p) \in 1..Len(l)
          BY <1>7, <3>0, <3>3
        <5> QED
          BY <1>7, <5>1, LabelSegments
      <4> QED
        BY <3>3, <4>1, <4>2, <4>3 DEF NotAhead
    <3>4. CASE s \notin DOMAIN recorded /\ u # p
      <4>1. recorded'[s] = l /\ Moved(u)' = Moved(u) /\ s[1] = p
        BY <1>6, <1>20, <2>1, <3>4
      <4>2. /\ Len(u) <= Len(p) /\ p[Len(u)][1] = u[Len(u)][1]
            /\ \A i \in 1..Len(u) - 1 : p[i] = u[i]
        BY <1>3, <2>1, <3>0, <4>1, InRegionIs
      <4>3. Match(p, u, l, Moved(u))
        BY <1>18, <2>1, <3>4
      <4>4. /\ Len(u) - 1 \in 0..Len(p) /\ Len(u) - 1 <= Len(u) /\ SamePath(p, u, Len(u) - 1)
            /\ Len(u) - 1 < Len(p) /\ Len(u) - 1 < Len(u) /\ (Len(u) - 1) + 1 = Len(u)
            /\ Len(u) - 1 \in Nat
        BY <1>3, <3>0, <4>2 DEF SamePath
      <4>5. Agree(l, Moved(u), Len(u))
        <5> DEFINE j == Len(u) - 1
        <5>1. j \in 0..Len(p) /\ j <= Len(u) /\ SamePath(p, u, j) /\ j < Len(p) /\ j < Len(u) /\ j + 1 = Len(u)
          BY <4>4
        <5> HIDE DEF j
        <5>2. Agree(l, Moved(u), j + 1)
          BY <4>3, <5>1 DEF Match
        <5> QED
          BY <5>1, <5>2
      <4>6. /\ Agree(l, Moved(u), Len(u) - 1) /\ Offset(l, Len(u)) = Offset(Moved(u), Len(u))
            /\ Span(l, Len(u)) = Span(Moved(u), Len(u))
        BY <3>0, <4>4, <4>5, AgreeLess, AgreeAt
      <4>7. Offset(l, Len(u)) \in Nat
        <5>1. Len(u) \in 1..Len(l)
          BY <1>3, <1>7, <3>0, <4>2
        <5> QED
          BY <1>7, <5>1, LabelSegments
      <4> QED
        BY <4>1, <4>6, <4>7 DEF NotAhead
    <3> QED
      BY <3>1, <3>2, <3>3, <3>4
  <2> QED
    BY <1>2, <2>1 DEF RegionBehind
<1>22. ASSUME NEW v \in Tasks PROVE past[v] \subseteq past'[v]
  <2>1. CASE v = p /\ p # t
    <3>1. Upto(Front(t)) \subseteq past[t]
      BY <1>1, <1>2 DEF PastOfFork
    <3> QED
      BY <1>2, <1>8, <2>1, <3>1 DEF Upto
  <2>2. CASE ~(v = p /\ p # t)
    BY <1>5, <2>2
  <2> QED
    BY <2>1, <2>2
<1>23. PastOfRegion'
  <2>1. ASSUME NEW u \in Tasks, NEW j \in 0..Len(u) - 1, NEW s \in past'[u]
        PROVE  Inside(s[1], u, j) \/ s \in past'[SubSeq(u, 1, j)] \cup {<<SubSeq(u, 1, j), u[j + 1][1]>>}
    <3>1. j \in Nat /\ j < Len(u) /\ Len(u) \in Nat /\ u \in Paths
      BY <1>1, TypedTask
    <3>2. SubSeq(u, 1, j) \in Tasks
      BY <1>1, <3>1, AncestorIsTask
    <3>3. CASE s \in past[u]
      <4>1. Inside(s[1], u, j) \/ s \in past[SubSeq(u, 1, j)] \cup {<<SubSeq(u, 1, j), u[j + 1][1]>>}
        BY <1>1, <2>1, <3>3 DEF PastOfRegion, Forked
      <4> QED
        BY <1>22, <3>2, <4>1
    <3>4. CASE s \notin past[u]
      <4>1. u = p /\ p # t /\ s \in past[t]
        BY <1>5, <2>1, <3>4
      <4>2. j \in 0..Len(t) - 1 /\ j < Len(t) /\ j + 1 \in 1..Len(p) /\ \A i \in 1..j + 1 : u[i] = t[i]
        BY <1>3, <3>1, <4>1
      <4>3. Inside(s[1], t, j) \/ s \in past[SubSeq(t, 1, j)] \cup {<<SubSeq(t, 1, j), t[j + 1][1]>>}
        BY <1>1, <1>2, <4>1, <4>2 DEF PastOfRegion, Forked
      <4>4. Inside(s[1], t, j) => Inside(s[1], u, j)
        BY <3>1, <4>2, InsideSame
      <4>5. SubSeq(t, 1, j) = SubSeq(u, 1, j)
        <5>1. SamePath(t, u, j) /\ j <= Len(t) /\ j <= Len(u)
          BY <3>1, <4>2 DEF SamePath
        <5> QED
          BY <1>3, <3>1, <5>1, SameAncestor
      <4>6. t[j + 1] = u[j + 1]
        BY <3>1, <4>2
      <4> QED
        BY <1>22, <3>2, <4>3, <4>4, <4>5, <4>6
    <3> QED
      BY <3>3, <3>4
  <2> QED
    BY <1>2, <2>1 DEF PastOfRegion, Forked
<1>24. PastOfFork'
  <2>1. ASSUME NEW u \in Tasks, Live(u)', u # InitialTask
        PROVE  past'[Front(u)] \cup {<<Front(u), clock'[Front(u)]>>} \subseteq past'[u]
    <3>1. Live(u) /\ Front(u) \in Tasks /\ Below(Front(u), u)
      BY <1>1, <1>13, <2>1, Parent
    <3>2. past[Front(u)] \cup {<<Front(u), clock[Front(u)]>>} \subseteq past[u]
      BY <1>1, <2>1, <3>1 DEF PastOfFork, Upto, Stretch
    <3>3. Front(u) # p
      BY <1>12, <2>1, <3>1
    <3>4. past'[Front(u)] = past[Front(u)] /\ clock'[Front(u)] = clock[Front(u)]
      BY <1>6, <3>1, <3>3
    <3> QED
      BY <1>22, <3>2, <3>4
  <2> QED
    BY <1>2, <2>1 DEF PastOfFork, Upto, Stretch
<1>25. Current'
  <2>1. ASSUME NEW u \in Tasks, Live(u)', u # InitialTask
        PROVE  Stretch(u)' \in DOMAIN recorded' /\ recorded'[Stretch(u)'] = label'[u]
    <3>1. CASE u = p
      BY <1>8, <1>9, <2>1, <3>1
    <3>2. CASE u # p
      <4>1. Stretch(u) \in DOMAIN recorded /\ recorded[Stretch(u)] = label[u]
        BY <1>1, <1>13, <2>1 DEF Current
      <4>2. Stretch(u)' = Stretch(u) /\ label'[u] = label[u]
        BY <1>6, <3>2
      <4> QED
        BY <1>9, <1>10, <4>1, <4>2
    <3> QED
      BY <3>1, <3>2
  <2> QED
    BY <1>2, <2>1 DEF Current
<1>26. AllTold'
  <2>1. ASSUME NEW s \in DOMAIN recorded', NEW v \in Tasks, Live(v)', status'[v] # "forked",
               s = Stretch(v)' => status'[v] \in {"released", "ended"}
        PROVE  IF s \in past'[v] THEN Precedes(recorded'[s], Going(v)') ELSE Beside(s[1], v, recorded'[s], Going(v)')
    <3>1. CASE s \in DOMAIN recorded /\ v # p
      <4>1. /\ Live(v) /\ status'[v] = status[v] /\ Going(v)' = Going(v) /\ Stretch(v)' = Stretch(v) /\ past'[v] = past[v]
            /\ recorded'[s] = recorded[s]
        BY <1>6, <1>10, <2>1, <3>1
      <4>2. Told(s, v)
        BY <1>1, <2>1, <3>1, <4>1 DEF AllTold
      <4> QED
        BY <4>1, <4>2 DEF Told
    <3>2. CASE s \in DOMAIN recorded /\ v = p
      <4>1. Told(s, t)
        BY <1>1, <1>2, <3>2 DEF AllTold
      <4>2. Going(v)' = l /\ past'[v] = past[t] /\ recorded'[s] = recorded[s]
        BY <1>8, <1>10, <3>2
      <4>3. CASE s \in past[t]
        BY <4>1, <4>2, <4>3 DEF Told, l
      <4>4. CASE s \notin past[t]
        <5>1. Beside(s[1], t, recorded[s], l)
          BY <4>1, <4>4 DEF Told, l
        <5>2. PICK n \in 0..Len(s[1]) : /\ Part(s[1], t, n) /\ n + 2 <= Len(l) /\ n + 2 <= Len(recorded[s])
                                       /\ Agree(recorded[s], l, n + 1) /\ Span(recorded[s], n + 2) = Span(l, n + 2)
          BY <5>1 DEF Beside
        <5>3. n \in Nat /\ n < Len(p) /\ n + 1 \in 1..Len(p) /\ \A i \in 1..n : i \in 1..Len(p)
          <6>1. Len(s[1]) \in Nat
            BY <1>1, <3>2, TypedRecord
          <6> QED
            BY <1>3, <1>7, <5>2, <6>1
        <5>4. p[n + 1] = t[n + 1] /\ \A i \in 1..n : p[i] = t[i]
          BY <1>3, <5>3
        <5>5. Part(s[1], p, n)
          BY <5>2, <5>3, <5>4 DEF Part, Inside, SamePath
        <5>6. Beside(s[1], p, recorded[s], l)
          BY <5>2, <5>5 DEF Beside
        <5> QED
          BY <3>2, <4>2, <4>4, <5>6
      <4> QED
        BY <4>3, <4>4
    <3>3. CASE s \notin DOMAIN recorded /\ v = p
      <4>1. s = Stretch(v)' /\ status'[v] = "running"
        BY <1>8, <1>20, <3>3
      <4> QED
        BY <2>1, <4>1
    <3>4. CASE s \notin DOMAIN recorded /\ v # p
      <4>1. s = NextStretch(p) /\ s[1] = p /\ recorded'[s] = l
        BY <1>20, <3>4
      <4>2. Live(v) /\ v # t /\ status'[v] = status[v] /\ Going(v)' = Going(v) /\ past'[v] = past[v]
        BY <1>6, <2>1, <3>4
      <4>3. s \notin past'[v]
        BY <1>11, <4>1, <4>2
      <4>4. Beside(t, v, Bumped(t), Going(v))
        <5>1. status[t] # "forked" /\ status[v] # "forked"
          BY <1>2, <2>1, <4>2
        <5> QED
          BY <1>1, <1>2, <4>2, <5>1, LiveBeside
      <4>5. PICK n \in 0..Len(t) : /\ Part(t, v, n) /\ n + 2 <= Len(Going(v)) /\ n + 2 <= Len(Bumped(t))
                                   /\ Agree(Bumped(t), Going(v), n + 1) /\ Span(Bumped(t), n + 2) = Span(Going(v), n + 2)
        BY <4>4 DEF Beside
      <4>6. n \in Nat /\ n < Len(t) /\ n < Len(v) /\ Len(v) \in Nat /\ \A i \in 1..n : t[i] = v[i]
        <5>1. Len(v) \in Nat
          BY <1>1, TypedTask
        <5> QED
          BY <1>3, <4>5, <5>1 DEF Part, Inside, SamePath
      <4>7. n < Len(p)
        <5>1. ASSUME n >= Len(p) PROVE FALSE
          <6>1. Below(p, v)
            <7>1. \A i \in 1..Len(p) : p[i] = v[i]
              BY <1>3, <4>6, <5>1
            <7> QED
              BY <1>3, <4>6, <5>1, <7>1 DEF Below, SamePath
          <6> QED
            BY <1>12, <2>1, <6>1
        <5> QED
          BY <1>3, <4>6, <5>1
      <4>8. n + 1 \in 1..Len(p) /\ (\A i \in 1..n : i \in 1..Len(p)) /\ n \in 0..Len(p)
        BY <1>3, <4>6, <4>7
      <4>9. p[n + 1] = t[n + 1] /\ \A i \in 1..n : p[i] = t[i]
        BY <1>3, <4>8
      <4>10. Part(p, v, n)
        BY <4>5, <4>7, <4>9 DEF Part, Inside, SamePath
      <4>11. n + 2 <= Len(l) /\ n + 1 \in Nat /\ n + 1 <= Len(l) /\ Len(l) \in Nat /\ n + 2 \in Nat \ {0}
        BY <1>3, <1>7, <4>6, <4>7
      <4>12. Agree(l, Going(v), n + 1) /\ Span(l, n + 2) = Span(Going(v), n + 2)
        <5>1. Agree(l, Bumped(t), n + 1)
          <6>1. Agree(Bumped(t), l, n + 1)
            BY <1>7, <4>11, AgreeLess
          <6> QED
            BY <6>1, AgreeSymmetric
        <5>2. Span(Bumped(t), n + 2) = Span(l, n + 2)
          BY <1>7, <4>11, AgreeAt
        <5> QED
          BY <4>5, <5>1, <5>2, AgreeTransfer
      <4>13. Beside(p, v, l, Going(v))
        BY <4>5, <4>8, <4>10, <4>11, <4>12 DEF Beside
      <4> QED
        BY <4>1, <4>2, <4>3, <4>13
    <3> QED
      BY <3>1, <3>2, <3>3, <3>4
  <2> QED
    BY <1>2, <2>1 DEF AllTold, Told
<1> QED
  BY <1>14, <1>15, <1>17, <1>19, <1>21, <1>23, <1>24, <1>25, <1>26 DEF IInv

-----------------------------------------------------------------------------
(* The other steps, and the theorem                                         *)

\* At the start there is nothing but the initial task.
LEMMA InitKeeps ==
  ASSUME NEW M \in Nat, ForkJoin(M), Init
  PROVE  IInv(M)
<1> DEFINE x == <<InitialTask, 0>>
           seg == BaseSegment("eImplicit", 0, 1, x)
<1>1. /\ InitialTask \in Paths /\ Len(InitialTask) = 0 /\ x \in Paths \X Nat
      /\ SubSeq(InitialTask, 1, 0) = InitialTask
  <2>1. InitialTask \in Seq(Step) /\ Len(InitialTask) = 0
    BY DEF InitialTask
  <2>2. SubSeq(InitialTask, 1, 0) \in Seq(Step) /\ Len(SubSeq(InitialTask, 1, 0)) = 0
    BY <2>1, Initial
  <2>3. \A s \in Seq(Step) : s # <<>> => Len(s) \in Nat \ {0}
    BY EmptySeq
  <2>4. SubSeq(InitialTask, 1, 0) = InitialTask
    BY <2>1, <2>2, <2>3
  <2>5. InitialTask \in Paths
    BY <2>1 DEF Paths
  <2>6. x \in Paths \X Nat
    BY <2>5
  <2> QED
    BY <2>1, <2>4, <2>5, <2>6
<1>2. 0 \in 0..OffsetLimit - 1 /\ 1 \in Nat \ {0}
  BY OffsetLimitAssumption
<1>3. seg \in ImplicitSegment /\ seg.value.offset = 0 /\ seg.value.span = 1
  <2> HIDE DEF x
  <2> QED
    BY <1>1, <1>2, Segments
<1> HIDE DEF seg, x
<1>4. label = [t \in {InitialTask} |-> <<seg>>]
  BY DEF Init, One, genInitTaskLabel, seg, x
<1>5. Tasks = {InitialTask} /\ label[InitialTask] = <<seg>>
  BY <1>4 DEF Tasks
<1>6. LabelOfPath(InitialTask, label[InitialTask])
  <2>1. <<seg>> \in Seq(ImplicitSegment) /\ Len(<<seg>>) = 1 /\ <<seg>>[1] = seg
    BY <1>3
  <2> QED
    BY <1>1, <1>3, <1>5, <2>1 DEF LabelOfPath, Span
<1>7. /\ status = [t \in {InitialTask} |-> "running"] /\ clock = [t \in {InitialTask} |-> 0]
      /\ groups = [t \in {InitialTask} |-> <<>>] /\ past = [t \in {InitialTask} |-> {}]
      /\ recorded = <<>> /\ app \in Programs
  BY DEF Init, One
<1>8. /\ status[InitialTask] = "running" /\ clock[InitialTask] = 0 /\ groups[InitialTask] = <<>>
      /\ past[InitialTask] = {} /\ DOMAIN recorded = {}
      /\ DOMAIN status = Tasks /\ DOMAIN clock = Tasks /\ DOMAIN groups = Tasks /\ DOMAIN past = Tasks
  BY <1>5, <1>7
<1>9. Typed
  BY <1>1, <1>5, <1>6, <1>7, <1>8 DEF Typed
<1>10. \A a, t \in Tasks : ~Below(a, t)
  BY <1>1, <1>5 DEF Below
<1>11. Tree
  <2>1. \A t \in Tasks : \A j \in 0..Len(t) : SubSeq(t, 1, j) \in Tasks
    BY <1>1, <1>5
  <2> QED
    BY <1>5, <1>8, <1>10, <2>1 DEF Tree
<1>12. Counted(M)
  <2>1. Offset(label[InitialTask], 1) = 0 /\ Span(label[InitialTask], 1) = 1
    BY <1>3, <1>5 DEF Offset, Span
  <2>2. 0 < 1 * (1 + 0 * (M + 1))
    OBVIOUS
  <2> QED
    BY <1>1, <1>5, <1>8, <2>1, <2>2 DEF Counted
<1>13. Coherent
  <2>1. Moved(InitialTask) = label[InitialTask]
    BY <1>8 DEF Moved
  <2>2. Match(InitialTask, InitialTask, label[InitialTask], label[InitialTask])
    BY <1>1, <1>6, MatchItself DEF LabelOfPath
  <2> QED
    BY <1>5, <2>1, <2>2 DEF Coherent
<1>14. RegionBehind /\ AllTold
  BY <1>8 DEF RegionBehind, AllTold
<1>15. PastOfRegion
  BY <1>5, <1>8 DEF PastOfRegion
<1>16. PastOfFork /\ Current
  BY <1>5 DEF PastOfFork, Current
<1> QED
  BY <1>9, <1>11, <1>12, <1>13, <1>14, <1>15, <1>16 DEF IInv

\* No step changes the family of the program.
LEMMA AppStays == [Next]_vars => app' = app
<1> SUFFICES ASSUME [Next]_vars PROVE app' = app
  OBVIOUS
<1>1. CASE \E t \in Tasks : \E size \in TeamSizes : ParallelBegin(t, size)
  BY <1>1 DEF ParallelBegin
<1>2. CASE \E t \in Tasks : \E kind \in {"atBarrier", "atEnd"} : BarrierBegin(t, kind)
  BY <1>2 DEF BarrierBegin
<1>3. CASE \E r \in {Region(t) : t \in {u \in Tasks : IsImplicit(u)}} : BarrierComplete(r)
  BY <1>3 DEF BarrierComplete
<1>4. CASE \E t \in Tasks : BarrierEnd(t) \/ ImplicitTaskEnd(t)
  BY <1>4 DEF BarrierEnd, ImplicitTaskEnd
<1>5. CASE \E t \in Tasks : \E preds \in SUBSET children[t] : Cardinality(preds) <= 1 /\ TaskCreate(t, preds)
  BY <1>5 DEF TaskCreate
<1>6. CASE \E u \in Tasks : TaskStart(u) \/ TaskCreateUndeferred(u) \/ WorkTaskLoop(u) \/ TaskComplete(u)
  BY <1>6 DEF TaskStart, TaskCreateUndeferred, WorkTaskLoop, TaskComplete
<1>7. CASE \E t \in Tasks : TaskWait(t) \/ TaskGroupBegin(t) \/ TaskGroupEnd(t)
  BY <1>7 DEF TaskWait, TaskGroupBegin, TaskGroupEnd
<1>8. CASE \E t \in Tasks : SingleBegin(t) \/ SingleEnd(t) \/ LoopBegin(t) \/ LoopEnd(t)
  BY <1>8 DEF SingleBegin, SingleEnd, LoopBegin, LoopEnd
<1>9. CASE \E t \in Tasks : OrderedBegin(t) \/ OrderedEnd(t)
  BY <1>9 DEF OrderedBegin, OrderedEnd
<1>10. CASE \E t \in Tasks : \E i \in 1..Iterations, section \in BOOLEAN : Dispatch(t, i, section)
  BY <1>10 DEF Dispatch
<1>11. CASE UNCHANGED vars
  BY <1>11 DEF vars
<1> QED
  BY <1>1, <1>2, <1>3, <1>4, <1>5, <1>6, <1>7, <1>8, <1>9, <1>10, <1>11 DEF Next

\* There are regions and barriers to step through, and nothing else.
LEMMA OnlyForkJoinSteps ==
  ASSUME NEW M \in Nat, ForkJoin(M), IInv(M), Next
  PROVE  \/ \E t \in Tasks : \E size \in TeamSizes : ParallelBegin(t, size)
         \/ \E t \in Tasks : \E kind \in {"atBarrier", "atEnd"} : BarrierBegin(t, kind)
         \/ \E r \in {Region(t) : t \in {u \in Tasks : IsImplicit(u)}} : BarrierComplete(r)
         \/ \E t \in Tasks : BarrierEnd(t) \/ ImplicitTaskEnd(t)
<1>1. Typed /\ Constructs \subseteq {"barrier", "nested"}
  BY DEF IInv, ForkJoin
<1>2. ASSUME NEW t \in Tasks
      PROVE  /\ Plain(t) /\ ~IsExplicit(t) /\ groups[t] = <<>> /\ status[t] # "waiting"
  <2>1. t \in Paths /\ LabelOfPath(t, label[t]) /\ groups[t] = <<>> /\ status[t] # "waiting"
    BY <1>1, TypedTask DEF Typed
  <2>2. label[t] \in Seq(ImplicitSegment) /\ Len(label[t]) = Len(t) + 1 /\ Len(t) \in Nat
    BY <1>1, <2>1, TypedTask DEF LabelOfPath
  <2>3. Len(label[t]) \in 1..Len(label[t])
    BY <2>2
  <2>4. Type(label[t][Len(label[t])]) = "eImplicit"
    BY <2>1, <2>3, LabelSegments
  <2>5. Plain(t)
    BY <2>4 DEF Plain, Last
  <2> QED
    BY <2>1, <2>5, Implicit
<1>3. ~ \E t \in Tasks : \E preds \in SUBSET children[t] : Cardinality(preds) <= 1 /\ TaskCreate(t, preds)
  BY <1>1 DEF TaskCreate
<1>4. ~ \E t \in Tasks : TaskStart(t) \/ TaskComplete(t) \/ TaskGroupEnd(t)
  BY <1>2 DEF TaskStart, TaskComplete, TaskGroupEnd
<1>5. ~ \E t \in Tasks : TaskCreateUndeferred(t) \/ WorkTaskLoop(t) \/ TaskWait(t) \/ TaskGroupBegin(t)
  BY <1>1 DEF TaskCreateUndeferred, WorkTaskLoop, TaskWait, TaskGroupBegin
<1>6. ~ \E t \in Tasks : SingleBegin(t) \/ LoopBegin(t) \/ OrderedBegin(t)
  BY <1>1 DEF SingleBegin, LoopBegin, OrderedBegin
<1>7. ~ \E t \in Tasks : SingleEnd(t) \/ LoopEnd(t) \/ OrderedEnd(t)
  BY <1>2 DEF SingleEnd, LoopEnd, OrderedEnd, InLoop, InIteration
<1>8. ~ \E t \in Tasks : \E i \in 1..Iterations, section \in BOOLEAN : Dispatch(t, i, section)
  BY <1>2 DEF Dispatch, InLoop
<1> QED
  BY <1>3, <1>4, <1>5, <1>6, <1>7, <1>8 DEF Next

\* A step preserves the invariant.
LEMMA NextKeeps ==
  ASSUME NEW M \in Nat, ForkJoin(M), IInv(M), Next
  PROVE  IInv(M)'
<1>1. CASE \E t \in Tasks : \E size \in TeamSizes : ParallelBegin(t, size)
  <2>1. PICK t \in Tasks : \E size \in TeamSizes : ParallelBegin(t, size)
    BY <1>1
  <2>2. PICK size \in TeamSizes : ParallelBegin(t, size)
    BY <2>1
  <2>3. PICK N : Forks(t, size, N) /\ clock[t] < M /\ Len(t) + 1 < Len(MaxSteps)
    BY <2>2, ForksIfParallelBegin
  <2> QED
    BY <2>3, ForksKeep
<1>2. CASE \E t \in Tasks : \E kind \in {"atBarrier", "atEnd"} : BarrierBegin(t, kind)
  BY <1>2, BarrierBeginKeeps
<1>3. CASE \E r \in {Region(t) : t \in {u \in Tasks : IsImplicit(u)}} : BarrierComplete(r)
  <2>1. PICK q \in Tasks : IsImplicit(q) /\ BarrierComplete(Region(q))
    BY <1>3
  <2>2. PICK kind : Opens(q, kind)
    BY <2>1, OpensIfComplete DEF IInv
  <2> QED
    BY <2>2, OpensKeeps
<1>4. CASE \E t \in Tasks : BarrierEnd(t) \/ ImplicitTaskEnd(t)
  <2>1. PICK t \in Tasks : BarrierEnd(t) \/ ImplicitTaskEnd(t)
    BY <1>4
  <2>2. CASE BarrierEnd(t)
    <3>1. Goes(t, t)
      BY <2>2, GoesIfBarrierEnd
    <3> QED
      BY <3>1, GoesKeeps
  <2>3. CASE ImplicitTaskEnd(t)
    <3>1. Goes(t, Front(t))
      BY <2>3, GoesIfImplicitTaskEnd
    <3> QED
      BY <3>1, GoesKeeps
  <2> QED
    BY <2>1, <2>2, <2>3
<1> QED
  BY <1>1, <1>2, <1>3, <1>4, OnlyForkJoinSteps

\* So does a step that changes nothing.
LEMMA StutterKeeps ==
  ASSUME NEW M \in Nat, IInv(M), UNCHANGED vars
  PROVE  IInv(M)'
<1>1. /\ app' = app /\ label' = label /\ status' = status /\ clock' = clock /\ groups' = groups
      /\ past' = past /\ recorded' = recorded
  BY DEF vars, data, program, truth
<1>2. Typed' /\ Tree'
  BY <1>1 DEF IInv, Typed, Tree, Tasks, TeamSizes, LabelOfPath, Live
<1>3. Counted(M)' /\ Coherent'
  BY <1>1 DEF IInv, Counted, Coherent, Tasks, MaxSteps, Live, Moved, Bumped, NextStretch
<1>4. RegionBehind' /\ PastOfRegion' /\ PastOfFork' /\ Current'
  BY <1>1 DEF IInv, RegionBehind, PastOfRegion, PastOfFork, Current, Tasks, Live, Moved, Bumped,
              NextStretch, Forked, Upto, Stretch
<1>5. AllTold'
  BY <1>1 DEF IInv, AllTold, Told, Tasks, Live, Going, Moved, Bumped, NextStretch, Stretch
<1> QED
  BY <1>2, <1>3, <1>4, <1>5 DEF IInv

\* The invariant holds in every state of a program of regions and barriers.
THEOREM ForkJoinInvariant ==
  ASSUME NEW M \in Nat
  PROVE  Spec => [](ForkJoin(M) => IInv(M))
<1>1. Init => (ForkJoin(M) => IInv(M))
  BY InitKeeps
<1>2. (ForkJoin(M) => IInv(M)) /\ [Next]_vars => (ForkJoin(M) => IInv(M))'
  <2>1. SUFFICES ASSUME ForkJoin(M) => IInv(M), [Next]_vars, ForkJoin(M)' PROVE IInv(M)'
    OBVIOUS
  <2>2. ForkJoin(M)
    BY <2>1, AppStays DEF ForkJoin, Constructs, TeamSizes, MaxSteps
  <2> QED
    BY <2>1, <2>2, NextKeeps, StutterKeeps
<1> QED
  BY <1>1, <1>2, PTL DEF Spec

\* An access that is compared and the task that makes the next one
LEMMA ComparedTold ==
  ASSUME NEW M \in Nat, ForkJoin(M), IInv(M), NEW s \in DOMAIN recorded, NEW t \in Tasks, Compared(s, t)
  PROVE  /\ LabelOfPath(s[1], recorded[s]) /\ LabelOfPath(t, label[t])
         /\ s[1] \in Paths /\ t \in Paths /\ TeamSizes \subseteq Nat \ {0, 1}
         /\ IF RealOrder(s, t) THEN Precedes(recorded[s], label[t])
                               ELSE Beside(s[1], t, recorded[s], label[t])
         /\ Detected(s, t) <=> IsRace(recorded[s], label[t])
<1>1. Typed /\ AllTold /\ TeamSizes \subseteq Nat \ {0, 1}
  BY DEF IInv, ForkJoin
<1>2. status[t] = "running" /\ s # Stretch(t)
  BY DEF Compared, Running
<1>3. Going(t) = label[t] /\ Live(t)
  BY <1>2 DEF Going, Moved, Live
<1>4. Told(s, t)
  BY <1>1, <1>2, <1>3 DEF AllTold
<1>5. s[1] \in Paths /\ t \in Paths /\ LabelOfPath(s[1], recorded[s]) /\ LabelOfPath(t, label[t])
  BY <1>1, TypedRecord, TypedTask DEF Typed
<1>6. ~HasPath(s[1], t)
  BY <1>5, Implicit DEF HasPath
<1> QED
  BY <1>1, <1>3, <1>4, <1>5, <1>6 DEF Told, RealOrder, Detected

\* What happensBefore answers is the order of the program: an access that may
\* be in a record happens before the code of a task, or is concurrent with it,
\* exactly as the detector says (Core.cpp, happensBefore).
LEMMA LabelsAreExact ==
  ASSUME NEW M \in Nat, ForkJoin(M), IInv(M), NEW s \in DOMAIN recorded, NEW t \in Tasks, Compared(s, t)
  PROVE  /\ happensBefore(recorded[s], label[t]) = IF RealOrder(s, t) THEN "yes" ELSE "no"
         /\ Detected(s, t) <=> ~RealOrder(s, t)
BY ComparedTold, PrecedesIsBefore, BesideIsConcurrent

\* Accesses that nothing orders are reported, whatever the number of threads
\* and the depth of the regions (Core.cpp, happensBefore and its callees).
THEOREM ForkJoinConcurrentReported ==
  ASSUME NEW M \in Nat
  PROVE  Spec => [](ForkJoin(M) => ConcurrentReported)
<1>1. ForkJoin(M) /\ IInv(M) => ConcurrentReported
  BY LabelsAreExact DEF ConcurrentReported
<1> QED
  BY <1>1, ForkJoinInvariant, PTL

\* Accesses that a barrier, a fork or the end of a region orders are not.
THEOREM ForkJoinOrderedSilent ==
  ASSUME NEW M \in Nat
  PROVE  Spec => [](ForkJoin(M) => OrderedSilent)
<1>1. ForkJoin(M) /\ IInv(M) => OrderedSilent
  BY LabelsAreExact DEF OrderedSilent
<1> QED
  BY <1>1, ForkJoinInvariant, PTL

\* No pair of labels makes happensBefore end the process: its checks and the
\* cases it calls unexpected are not met.
THEOREM ForkJoinChecksPass ==
  ASSUME NEW M \in Nat
  PROVE  Spec => [](ForkJoin(M) => ChecksPass)
<1>1. ForkJoin(M) /\ IInv(M) => ChecksPass
  <2>1. ASSUME ForkJoin(M), IInv(M), NEW s \in DOMAIN recorded, NEW t \in Tasks, Compared(s, t)
        PROVE  happensBefore(recorded[s], label[t]) # "abort"
    <3>1. happensBefore(recorded[s], label[t]) = IF RealOrder(s, t) THEN "yes" ELSE "no"
      BY <2>1, LabelsAreExact
    <3> QED
      BY <3>1
  <2> QED
    BY <2>1 DEF ChecksPass
<1> QED
  BY <1>1, ForkJoinInvariant, PTL
=============================================================================
