--------------------------- MODULE HappensBefore ---------------------------
(***************************************************************************)
(* The order the detector reads off two labels: happensBefore of Core.cpp  *)
(* and the analyses it dispatches to.  hist is the label of a recorded     *)
(* access, cur that of the access being checked, and i the position of the *)
(* first segments that differ.  An answer is "yes" (hist happens before    *)
(* cur), "no" (they are concurrent) or "abort": a check fails or a fatal   *)
(* message is logged, and the process ends.                                *)
(***************************************************************************)
EXTENDS Label

Answers == {"yes", "no", "abort"}

Answer(holds) == IF holds THEN "yes" ELSE "no"

Type(seg) == seg.value.type

computeExitRank(phase) == phase - (phase % 2)

\* Mutated form of computeEnterRank: an open region is not entered yet.
computeEnterRankDown(phase) == phase - (phase % 2)

computeEnterRank(phase) == phase + (phase % 2)

\* Mutated form of analyzeSyncChain: whoever waits for a task waits for all
\* that it creates.
analyzeNoChain(label, i) == Answer(i <= Len(label))

\* Whether the end of the task at position i is also the end of the last
\* task of the label.  The first segment that decides is an implicit task, a
\* task in a taskgroup, or a task nobody has waited for.
analyzeSyncChain(label, i) ==
  LET explicit(k) == Type(label[k]) = "eExplicit"
      grouped(k) == explicit(k) /\ label[k].taskGroupLevel > 0
      unwaited(k) == explicit(k) /\ ~grouped(k) /\ ~label[k].value.taskwaited
      joined(k) == Type(label[k]) = "eImplicit" \/ grouped(k)
  IN  Answer(\/ i = Len(label)
             \/ \A k \in i..Len(label) :
                  unwaited(k) => \E j \in i..k-1 : joined(j))

\* The recorded access is in a descendant of the iteration at position i.
analyzeOrderedDescendents(hist, i, histPhase) ==
  LET seg == hist[i]
      next == hist[i + 1]
      inGroup == seg.taskGroupLevel > 0
  IN  CASE Type(next) = "eImplicit" -> "yes"
        [] Type(next) = "eWorkShare" -> "abort"
        [] OTHER ->
             IF \/ inGroup /\ seg.value.phase % 2 = 0 /\ next.value.taskGroupSync
                     /\ next.taskGroupId <= histPhase
                \/ inGroup /\ seg.value.phase % 2 = 1
             THEN "yes"
             ELSE IF next.value.taskwaited /\ next.taskwaitPhase <= histPhase
             THEN analyzeSyncChain(hist, i + 1)
             ELSE "no"

\* Both positions are iterations.  Which iteration comes first is not asked.
analyzeOrderedSection(hist, cur, i) ==
  LET histPhase == hist[i].value.phase
      curPhase == cur[i].value.phase
  IN  IF \/ isPlaceHolder(hist[i]) \/ isPlaceHolder(cur[i])
         \/ computeExitRank(histPhase) >= computeEnterRank(curPhase)
      THEN "no"
      ELSE IF i = Len(hist) THEN "yes"
      ELSE analyzeOrderedDescendents(hist, i, histPhase)

\* Two implicit tasks of one team: only ordered sections of the same loop
\* order their descendants.
analyzeSiblingImpTask(hist, cur, i) ==
  IF /\ i < Len(hist) /\ i < Len(cur)
     /\ Type(hist[i + 1]) = "eWorkShare" /\ Type(cur[i + 1]) = "eWorkShare"
     /\ ~isSection(hist[i + 1]) /\ ~isSection(cur[i + 1])
     /\ hist[i].value.loopCount = cur[i].value.loopCount
  THEN analyzeOrderedSection(hist, cur, i + 1)
  ELSE "no"

analyzeTaskGroupSync(hist, cur, i) ==
  /\ hist[i].taskGroupId < cur[i].taskGroupId
  /\ hist[i].taskGroupLevel >= cur[i].taskGroupLevel

\* The recorded access is in an explicit task created at position i, the
\* current one in another explicit task or in a workshare.
analyzeNextExpExp(hist, cur, i) ==
  LET histTaskwait == hist[i].value.taskwait
      curTaskwait == cur[i].value.taskwait
  IN  IF analyzeTaskGroupSync(hist, cur, i) THEN "yes"
      ELSE IF histTaskwait = curTaskwait THEN "no"
      ELSE IF histTaskwait < curTaskwait THEN analyzeSyncChain(hist, i + 1)
      ELSE "abort"

\* dispatchAnalysis: every other pair of next segments is concurrent.
dispatchAnalysis(hist, cur, i) ==
  IF Type(hist[i + 1]) = "eExplicit" /\ Type(cur[i + 1]) \in {"eExplicit", "eWorkShare"}
  THEN analyzeNextExpExp(hist, cur, i)
  ELSE "no"

\* The current access is in the task at position i itself, the recorded one
\* in a descendant.
AnalyzeCurLeaf(hist, cur, i) ==
  LET next == hist[i + 1]
      histTaskwait == hist[i].value.taskwait
      curTaskwait == cur[i].value.taskwait
  IN  CASE Type(next) = "eImplicit" -> "abort"
        [] Type(next) = "eWorkShare" -> Answer(isPlaceHolder(next))
        [] OTHER -> IF curTaskwait < histTaskwait THEN "abort"
                    ELSE IF curTaskwait > histTaskwait THEN analyzeSyncChain(hist, i + 1)
                    ELSE Answer(hist[i].taskGroupLevel > 0 /\ next.value.taskGroupSync)

\* Position i is the same task in both labels.
analyzeSameTask(hist, cur, i) ==
  IF i = Len(hist) THEN "yes"
  ELSE IF i = Len(cur) THEN AnalyzeCurLeaf(hist, cur, i)
  ELSE IF Type(hist[i + 1]) = "eImplicit" /\ Type(cur[i + 1]) = "eImplicit" THEN "abort"
  ELSE dispatchAnalysis(hist, cur, i)

\* Segments of span 1: the initial task, an explicit task, a workshare.
AnalyzeSpanOne(hist, cur, i) ==
  LET type == Type(hist[i])
  IN  IF type # Type(cur[i]) THEN "abort"
      ELSE IF type = "eImplicit" /\ i = 1 THEN "yes"
      ELSE IF type = "eWorkShare" /\ ~(isSingleExecutor(hist[i]) /\ isSingleExecutor(cur[i]))
      THEN analyzeOrderedSection(hist, cur, i)
      ELSE analyzeSameTask(hist, cur, i)

\* Segments of a team of more than one.
AnalyzeTeam(hist, cur, i) ==
  LET histOffset == hist[i].value.offset
      curOffset == cur[i].value.offset
      span == hist[i].value.span
  IN  IF histOffset = curOffset THEN analyzeSameTask(hist, cur, i)
      ELSE IF histOffset % span # curOffset % span THEN analyzeSiblingImpTask(hist, cur, i)
      ELSE IF histOffset < curOffset THEN "yes"
      ELSE "abort"

\* The rest of happensBefore, when compareLabels has answered i
happensBeforeFrom(hist, cur, i) ==
  IF i < 0 THEN Answer(i # eRightIsPrefix)
  ELSE IF hist[i].value.span # cur[i].value.span THEN "abort"
  ELSE IF hist[i].value.span = 1 THEN AnalyzeSpanOne(hist, cur, i)
  ELSE AnalyzeTeam(hist, cur, i)

happensBefore(hist, cur) == happensBeforeFrom(hist, cur, compareLabels(hist, cur))

\* What analyzeRaceCondition makes of it for a write without locks, outside
\* a reduction and without task dependences.
IsRaceFrom(hist, cur, i) == i # eRightIsPrefix /\ happensBeforeFrom(hist, cur, i) = "no"

IsRace(hist, cur) == IsRaceFrom(hist, cur, compareLabels(hist, cur))
=============================================================================
