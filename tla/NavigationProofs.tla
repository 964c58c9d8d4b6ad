--------------------------- MODULE NavigationProofs ---------------------------
(***************************************************************************)
(* The safety of nine parts of the navigation: the one-line mission, the  *)
(* mission along a line from a file, the lines of a field on their way to  *)
(* the nodes, the turn between two swaths and the arc it is driven by, the *)
(* controller that steers the tool, the bar that follows a row, the        *)
(* controller of paths with cusps, and the planners of paths, for any      *)
(* lines, files, turn sides, distances, gains, angles, limits, paths and   *)
(* words of segments.                                                      *)
(*                                                                         *)
(* SwathsAlternate speaks of the swath only; MissionInv also says what the *)
(* turn before it works with: until a goal preempts, geo_points and        *)
(* map_points are the same line in the same direction, and from the end of *)
(* a swath on they are that swath turned round.  DrivesOwnLine is about    *)
(* what is driven; LineInv adds where it comes from: the points on the map *)
(* are those of the goal's file in the goal's direction, the trimmed path  *)
(* is an end of them, and the approach is not yet complete while it runs.  *)
(* FieldLinesOK asks what a leg looks up; FieldLinesInv adds that lines    *)
(* come from files and where the index stands.  ArcMeetsLeadIn needs that  *)
(* poses stay on the lattice.  SteersToLine needs that a PID that is ready *)
(* has a plan, and EntryIsCalm that nothing is summed up at an entry.      *)
(* ArcInv and SliderInv add little more than types: what ArcIsSwept needs  *)
(* is that a difference of two yaws tells what was swept.  RsInv adds that *)
(* waypoints are a step apart; that a segment keeps its direction to its   *)
(* end is an induction, proved from the least counterexample.  So is that  *)
(* a planner's recursive functions exist and list one pose after another   *)
(* (ListsOn, ListsOnce): a path is then connected because each segment     *)
(* goes on from where the one before ended, and arrives because a leadout  *)
(* retraces itself (Retraces).                                             *)
(*                                                                         *)
(* Last, every part keeps its types: what was swept fits the cycles that   *)
(* have passed, the turn stays near, indices stay on their paths.  A       *)
(* behaviour of the run of all parts is a behaviour of each (NavPartsRun). *)
(***************************************************************************)
EXTENDS MCNavigation, TLAPS, FiniteSetTheorems, WellFoundedInduction

-----------------------------------------------------------------------------
(* The one-line mission. *)

\* The mission alone; safety needs no fairness.
OneLineSpec == OneLineInit /\ [][OneLineNext]_olVars

\* The phases in which a swath has been driven, or is about to be.
OnLine == {"swathPlan", "swathFollow", "turnPlan", "turnFollow"}

\* What is driven next begins where the robot is.
StartsHere == olPhase \in {"swathPlan", "swathFollow"} => olAt = StartOf(olMap)

\* Geographic points and map points agree.
SamePoints == olPhase \in Running /\ ~olPreempted => olGeo = olMap

\* They are the last swath in the other direction.
TurnedRound == olPhase \in OnLine /\ olDriven # NoWay /\ ~olPreempted => olMap = Turned(olDriven)

\* The approach comes before the first swath.
ApproachFirst == olPhase \in {"approachPlan", "approachFollow"} => olDriven = NoWay

MissionInv ==
    /\ olPreempted \in BOOLEAN
    /\ StartsHere /\ SamePoints /\ TurnedRound /\ ApproachFirst

\* No mission runs at the start.
LEMMA MissionInit == OneLineInit => MissionInv
BY DEF OneLineInit, MissionInv, StartsHere, SamePoints, TurnedRound, ApproachFirst, Running, OnLine

\* No node, goal or cancel breaks it.
LEMMA MissionStep ==
    ASSUME MissionInv, [OneLineNext]_olVars
    PROVE  MissionInv'
<1> USE DEF MissionInv, StartsHere, SamePoints, TurnedRound, ApproachFirst, Running, OnLine
<1>1. CASE GoalReceived
  BY <1>1 DEF GoalReceived, Ended
<1>2. CASE OnPreempt
  BY <1>2 DEF OnPreempt
<1>3. CASE GoalEnds
  BY <1>3 DEF GoalEnds
<1>4. CASE ApproachPlanned
  BY <1>4 DEF ApproachPlanned
<1>5. CASE ApproachFollowed
  BY <1>5 DEF ApproachFollowed
<1>6. CASE SwathPlanned
  BY <1>6 DEF SwathPlanned
<1>7. CASE SwathFollowed
  <2>1. /\ olDriven' = olMap /\ olGeo' = Turned(olGeo) /\ olPreempted' = (olGeo # olMap)
        /\ \/ olPhase' = "turnPlan" /\ olMap' = olGeo'
           \/ olPhase' = "failed" /\ olMap' = olMap
    BY <1>7 DEF SwathFollowed, Reversed
  <2>2. ~olPreempted' => olGeo' = Turned(olDriven')
    BY <2>1
  <2>3. StartsHere' /\ SamePoints' /\ ApproachFirst'
    BY <2>1
  <2>4. TurnedRound'
    BY <2>1, <2>2
  <2> QED  BY <2>1, <2>3, <2>4
<1>8. CASE TurnPlanned
  BY <1>8 DEF TurnPlanned
<1>9. CASE TurnFollowed
  BY <1>9 DEF TurnFollowed
<1>10. CASE ConstraintHeard
  BY <1>10 DEF ConstraintHeard
<1>11. CASE UNCHANGED olVars
  BY <1>11 DEF olVars
<1> QED
  BY <1>1, <1>2, <1>3, <1>4, <1>5, <1>6, <1>7, <1>8, <1>9, <1>10, <1>11 DEF OneLineNext

\* Whatever fails, is cancelled or preempts: a swath begins where the robot
\* stands, and after a turn it is the last one in the other direction, unless a
\* goal replaced it in between (OneLineNavigator, ReverseGeoPoints).
THEOREM MissionAlternates == OneLineSpec => []SwathsAlternate
<1>1. MissionInv => SwathsAlternate
  BY DEF MissionInv, StartsHere, SamePoints, TurnedRound, ApproachFirst, SwathsAlternate, Running, OnLine
<1> QED  BY MissionInit, MissionStep, <1>1, PTL DEF OneLineSpec

-----------------------------------------------------------------------------
(* The mission along a line from a file. *)

\* The mission alone; safety needs no fairness.
LineNavSpec == LineNavInit /\ [][LineNavNext]_lnVars

\* The tree drives an end of the line of the goal it accepted.
GoalsPoints ==
    lnPhase # "idle" =>
        /\ Loads(lnGoal) /\ mapPoints = Oriented(lnGoal)
        /\ \E i \in 1 .. Len(mapPoints) : trimmed = SubSeq(mapPoints, i, Len(mapPoints))

\* While the approach runs it is not complete.
NotYetApproached == lnPhase \in {"waitApproach", "approach"} => ~approached

LineInv ==
    /\ lnGoal \in LineGoals /\ lnPending \in LineGoals
    /\ lnPhase \in {"idle", "waitApproach", "approach", "waitLine", "line"}
    /\ GoalsPoints /\ NotYetApproached /\ JoinsOnTheLine /\ StandsWhilePaused

\* A line that is turned round has the same points in the other order.
LEMMA ReversedLine ==
    ASSUME NEW s \in Seq(Nat)
    PROVE  /\ Reverse(s) \in Seq(Nat) /\ Len(Reverse(s)) = Len(s)
           /\ \A i \in 1 .. Len(s) : Reverse(s)[i] = s[Len(s) + 1 - i]
<1> DEFINE n == Len(s)
<1>1. n \in Nat /\ DOMAIN s = 1 .. n
  OBVIOUS
<1>2. \A i \in 1 .. n : n - i + 1 \in 1 .. n /\ n + 1 - i = n - i + 1
  BY <1>1
<1>3. Reverse(s) = [i \in 1 .. n |-> s[(n - i) + 1]]
  BY DEF Reverse
<1>4. \A i \in 1 .. n : s[(n - i) + 1] \in Nat
  BY <1>1, <1>2
<1> HIDE DEF n
<1>5. Reverse(s) \in Seq(Nat) /\ Len(Reverse(s)) = n
  BY <1>1, <1>3, <1>4
<1> QED  BY <1>1, <1>2, <1>3, <1>5 DEF n

\* What TrimPathToClosest returns is an end of the path.
LEMMA EndOfLine ==
    ASSUME NEW m \in Seq(Nat), NEW i \in 1 .. Len(m), NEW t, t = SubSeq(m, i, Len(m))
    PROVE  IsSuffix(t, m)
<1> DEFINE n == Len(m)
           l == n - i + 1
<1>1. n \in Nat /\ l \in Nat /\ l <= n /\ i \in Nat
  OBVIOUS
<1>2. t \in Seq(Nat) /\ Len(t) = l /\ \A k \in 1 .. l : t[k] = m[i + k - 1]
  OBVIOUS
<1>3. /\ Reverse(t) \in Seq(Nat) /\ Len(Reverse(t)) = l
      /\ \A k \in 1 .. l : Reverse(t)[k] = t[l + 1 - k]
  <2>1. /\ Reverse(t) \in Seq(Nat) /\ Len(Reverse(t)) = Len(t)
        /\ \A k \in 1 .. Len(t) : Reverse(t)[k] = t[Len(t) + 1 - k]
    <3> HIDE DEF l
    <3> QED  BY <1>2, ReversedLine
  <2> HIDE DEF l
  <2> QED  BY <1>2, <2>1
<1>4. /\ Reverse(m) \in Seq(Nat) /\ Len(Reverse(m)) = n
      /\ \A k \in 1 .. n : Reverse(m)[k] = m[n + 1 - k]
  BY ReversedLine
<1>5. \A k \in 1 .. l : Reverse(t)[k] = Reverse(m)[k]
  <2> TAKE k \in 1 .. l
  <2>1. l + 1 - k \in 1 .. l /\ k \in 1 .. n /\ i + (l + 1 - k) - 1 = n + 1 - k
    BY <1>1
  <2> QED  BY <1>2, <1>3, <1>4, <2>1
<1> HIDE DEF n, l
<1>6. SubSeq(Reverse(t), 1, l) = SubSeq(Reverse(m), 1, l)
  <2>1. /\ SubSeq(Reverse(t), 1, l) = [k \in 1 .. l |-> Reverse(t)[k]]
        /\ SubSeq(Reverse(m), 1, l) = [k \in 1 .. l |-> Reverse(m)[k]]
    BY <1>1, <1>3, <1>4
  <2> QED  BY <1>5, <2>1
<1> QED  BY <1>1, <1>3, <1>4, <1>6 DEF IsSuffix, IsPrefix

\* So LineInv promises all that the run checks.
LEMMA InvDrives == LineInv => DrivesOwnLine
<1> SUFFICES ASSUME LineInv  PROVE OwnLine
  BY DEF LineInv, DrivesOwnLine
<1> SUFFICES ASSUME lnPhase # "idle"  PROVE OwnLine
  BY DEF OwnLine
<1> DEFINE line == LineFiles[lnGoal.file]
<1>1. lnGoal \in LineGoals /\ Loads(lnGoal) /\ mapPoints = Oriented(lnGoal)
  BY DEF LineInv, GoalsPoints
<1>2. line \in Seq(Nat) /\ lnGoal.forward \in BOOLEAN
  BY <1>1, LineNavAssumption DEF LineGoals, Loads
<1>3. mapPoints = IF lnGoal.forward THEN line ELSE Reverse(line)
  BY <1>1 DEF Oriented
<1>4. PICK i \in 1 .. Len(mapPoints) : trimmed = SubSeq(mapPoints, i, Len(mapPoints))
  BY DEF LineInv, GoalsPoints
<1> HIDE DEF line
<1>5. /\ mapPoints \in Seq(Nat) /\ Len(mapPoints) = Len(line)
      /\ \A k \in 1 .. Len(line) :
            mapPoints[k] = line[IF lnGoal.forward THEN k ELSE Len(line) + 1 - k]
  <2>1. CASE lnGoal.forward
    BY <1>2, <1>3, <2>1
  <2>2. CASE ~lnGoal.forward
    BY <1>2, <1>3, <2>2, ReversedLine
  <2> QED  BY <2>1, <2>2
<1>6. IsSuffix(trimmed, mapPoints)
  BY <1>4, <1>5, EndOfLine
<1> QED  BY <1>5, <1>6 DEF OwnLine, line

LEMMA LineInvInit == LineNavInit => LineInv
<1> SUFFICES ASSUME LineNavInit  PROVE LineInv
  OBVIOUS
<1>1. lnGoal = NoGoal /\ lnPending = NoGoal /\ lnPhase = "idle" /\ isPaused = FALSE
  BY DEF LineNavInit
<1>2. NoGoal \in LineGoals
  BY DEF NoGoal, LineGoals
<1> QED
  BY <1>1, <1>2 DEF LineInv, GoalsPoints, NotYetApproached, JoinsOnTheLine, StandsWhilePaused

\* What LineInv says of the tree, apart from its goals.
TreeFits ==
    /\ lnPhase \in {"idle", "waitApproach", "approach", "waitLine", "line"}
    /\ GoalsPoints /\ NotYetApproached /\ JoinsOnTheLine /\ StandsWhilePaused

\* The first tick of an accepted goal, with its points in its direction.
LEMMA FirstTickFits ==
    ASSUME NEW g \in LineGoals, Loads(g), lnGoal' = g, FirstTick(Oriented(g))
    PROVE  TreeFits'
<1>1. CASE lnPhase' = "idle"
  BY <1>1 DEF TreeFits, GoalsPoints, NotYetApproached, JoinsOnTheLine, StandsWhilePaused
<1>2. CASE /\ mapPoints' = Oriented(g) /\ Trim(Oriented(g)) /\ StartApproach
           /\ IF atLine' THEN EnterLine
              ELSE lnPhase' = (IF isPaused' THEN "waitApproach" ELSE "approach")
  <2>1. GoalsPoints'
    BY <1>2 DEF GoalsPoints, Trim, Loads, Oriented
  <2>2. ~approached'
    BY <1>2 DEF StartApproach
  <2>3. /\ lnPhase' \in {"idle", "waitApproach", "approach", "waitLine", "line"}
        /\ JoinsOnTheLine' /\ StandsWhilePaused'
    BY <1>2 DEF EnterLine, JoinsOnTheLine, StandsWhilePaused
  <2> QED  BY <2>1, <2>2, <2>3 DEF TreeFits, NotYetApproached
<1> QED  BY <1>1, <1>2 DEF FirstTick, EndMission

\* A tick of either loop that hears of no pause.  An approach that was aborted
\* does not go on to the line: nothing has said that it is complete.
LEMMA TickFits ==
    ASSUME TreeFits, lnPhase # "idle", ~isPaused', UNCHANGED lnGoal, ApproachTick \/ LineTick
    PROVE  TreeFits'
<1>1. CASE lnPhase' = "idle"
  BY <1>1 DEF TreeFits, GoalsPoints, NotYetApproached, JoinsOnTheLine, StandsWhilePaused
<1>2. ASSUME /\ lnPhase' = "approach" /\ ~approached /\ Trim(mapPoints)
             /\ UNCHANGED <<mapPoints, approached>>
      PROVE  TreeFits'
  <2>1. GoalsPoints'
    BY <1>2 DEF TreeFits, GoalsPoints, Trim, Loads, Oriented
  <2> QED  BY <1>2, <2>1 DEF TreeFits, NotYetApproached, JoinsOnTheLine, StandsWhilePaused
<1>3. ASSUME lnPhase' = "line" /\ atLine' /\ UNCHANGED <<mapPoints, trimmed>>
      PROVE  TreeFits'
  <2>1. GoalsPoints'
    BY <1>3 DEF TreeFits, GoalsPoints, Loads, Oriented
  <2> QED  BY <1>3, <2>1 DEF TreeFits, NotYetApproached, JoinsOnTheLine, StandsWhilePaused
<1>4. ASSUME ApproachTick  PROVE TreeFits'
  <2>1. CASE lnPhase = "waitApproach" /\ RestartApproach
    BY <1>1, <1>2, <2>1 DEF RestartApproach, FailMission, EndMission, TreeFits, NotYetApproached
  <2>2. CASE /\ lnPhase = "approach" /\ atLine' = TRUE /\ EnterLine
             /\ UNCHANGED <<mapPoints, trimmed>>
    BY <1>3, <2>2 DEF EnterLine
  <2>3. CASE lnPhase = "approach" /\ FailMission
    BY <1>1, <2>3 DEF FailMission, EndMission
  <2> QED  BY <1>4, <2>1, <2>2, <2>3 DEF ApproachTick, TreeFits, NotYetApproached
<1>5. ASSUME LineTick  PROVE TreeFits'
  BY <1>1, <1>3, <1>5 DEF LineTick, FailMission, EndMission, TreeFits, JoinsOnTheLine
<1> QED  BY <1>4, <1>5

\* A tick that hears of a pause: nothing but the leg changes.
LEMMA HaltFits ==
    ASSUME TreeFits, lnPhase # "idle", HaltFollower,
           UNCHANGED <<lnGoal, mapPoints, trimmed, atLine, approached>>
    PROVE  TreeFits'
BY DEF TreeFits, HaltFollower, GoalsPoints, Loads, Oriented, NotYetApproached, JoinsOnTheLine,
       StandsWhilePaused

LEMMA LineInvStep == LineInv /\ [LineNavNext]_lnVars => LineInv'
<1> SUFFICES ASSUME LineInv, [LineNavNext]_lnVars  PROVE LineInv'
  OBVIOUS
<1>1. TreeFits /\ lnGoal \in LineGoals /\ lnPending \in LineGoals
  BY DEF LineInv, TreeFits
<1>2. SUFFICES TreeFits' /\ lnGoal' \in LineGoals /\ lnPending' \in LineGoals
  BY DEF LineInv, TreeFits
<1>3. ASSUME UNCHANGED <<lnGoal, mapPoints, trimmed, atLine, approached, lnPhase, isPaused>>
      PROVE  TreeFits'
  BY <1>1, <1>3 DEF TreeFits, GoalsPoints, Loads, Oriented, NotYetApproached, JoinsOnTheLine,
                    StandsWhilePaused
<1>4. CASE LineGoalReceived
  <2>1. PICK g \in LineGoals :
          /\ lnPending' = NoGoal
          /\ IF Loads(g) /\ Len(LineFiles[g.file]) >= 2
             THEN lnGoal' = g /\ FirstTick(Oriented(g))
             ELSE UNCHANGED <<lnGoal, lnPhase>>
    BY <1>1, <1>4 DEF LineGoalReceived
  <2>2. NoGoal \in LineGoals
    BY DEF NoGoal, LineGoals
  <2>3. CASE Loads(g) /\ lnGoal' = g /\ FirstTick(Oriented(g))
    BY <2>1, <2>2, <2>3, FirstTickFits
  <2>4. CASE UNCHANGED <<lnGoal, lnPhase>>
    <3>1. lnPhase' = "idle"
      BY <1>4, <2>4 DEF LineGoalReceived
    <3>2. TreeFits'
      BY <3>1 DEF TreeFits, GoalsPoints, NotYetApproached, JoinsOnTheLine, StandsWhilePaused
    <3> QED  BY <1>1, <2>1, <2>2, <2>4, <3>2
  <2> QED  BY <2>1, <2>3, <2>4
<1>5. CASE LinePreempt
  BY <1>1, <1>3, <1>5 DEF LinePreempt
<1>6. CASE Tick
  <2>1. lnPhase # "idle" /\ UNCHANGED <<lnGoal, lnPending>>
    BY <1>6 DEF Tick
  <2>2. CASE /\ HaltFollower
             /\ UNCHANGED <<geoPoints, mapPoints, trimmed, atLine, approached, lnAt, lnResult>>
    BY <1>1, <2>1, <2>2, HaltFits
  <2>3. CASE ~isPaused' /\ (ApproachTick \/ LineTick)
    BY <1>1, <2>1, <2>3, TickFits
  <2> QED  BY <1>6, <2>2, <2>3 DEF Tick
<1>7. CASE LineCancel
  <2>1. lnPhase' = "idle" /\ UNCHANGED <<lnGoal, lnPending>>
    BY <1>7 DEF LineCancel, EndMission
  <2> QED
    BY <1>1, <2>1 DEF TreeFits, GoalsPoints, NotYetApproached, JoinsOnTheLine, StandsWhilePaused
<1>8. CASE PublishPause
  BY <1>1, <1>3, <1>8 DEF PublishPause
<1>9. CASE UNCHANGED lnVars
  BY <1>1, <1>3, <1>9 DEF lnVars
<1> QED  BY <1>4, <1>5, <1>6, <1>7, <1>8, <1>9 DEF LineNavNext

\* The tree drives an end of its goal's line in its goal's direction, follows it
\* only from a point on it, and stands once it has heard of a pause: for any
\* files, goals that preempt, failures, and whatever is published and when.
THEOREM LineDrivesOwnLine == LineNavSpec => []DrivesOwnLine
<1>1. LineNavInit => LineInv
  BY LineInvInit
<1>2. LineInv /\ [LineNavNext]_lnVars => LineInv'
  BY LineInvStep
<1>3. LineInv => DrivesOwnLine
  BY InvDrives
<1> QED  BY <1>1, <1>2, <1>3, PTL DEF LineNavSpec

-----------------------------------------------------------------------------
(* The lines of a field. *)

\* The field's lines alone.
FieldLinesSpec == FieldLinesInit /\ [][FieldLinesNext]_flVars

\* Lines as they come from a file.
Named(lines) ==
    /\ Len(lines) \in Nat /\ DOMAIN lines = 1 .. Len(lines)
    /\ \A i \in DOMAIN lines : lines[i].id # "none"

\* The index is that of a line, or the mission is at its end, or the field has
\* been exchanged for an empty one.
IndexFits ==
    \/ lineIndex \in 0 .. totalLines - 1
    \/ turnDirection = "end" /\ lineIndex = IF totalLines = 0 THEN 1 ELSE totalLines
    \/ totalLines = 0 /\ lineIndex = 0

\* The line on the blackboard is one of a file, and the turn is its own or none.
ShowsLine == lineOnBoard.id # "none" /\ turnDirection \in {lineOnBoard.turn, "end"}

FieldLinesInv ==
    /\ Named(navLines) /\ Named(fieldLines) /\ totalLines = Len(fieldLines)
    /\ leg \in {"idle", "swath", "turn", "hop"}
    /\ leg # "idle" => IndexFits /\ ShowsLine
    /\ leg = "hop" => lineIndex \in 0 .. totalLines - 1 \/ (totalLines = 0 /\ lineIndex = 0)
    /\ HeadlandAhead

\* What is read of a file are named lines.
LEMMA PlainNamed ==
    ASSUME NEW f \in DOMAIN Fields, Named(navLines)
    PROVE  /\ Named(LoadedLines(f))
           /\ Readable(f) => Len(LoadedLines(f)) = Len(Fields[f].lines)
<1>1. /\ Len(Fields[f].lines) \in Nat /\ DOMAIN Fields[f].lines = 1 .. Len(Fields[f].lines)
      /\ \A i \in DOMAIN Fields[f].lines : Fields[f].lines[i].id # "none"
      /\ Fields[f].parsed \in Int /\ Fields[f].parsed <= Len(Fields[f].lines)
  BY FieldLinesAssumption
<1>2. CASE Missing(f)
  BY <1>1, <1>2 DEF LoadedLines, Missing, Readable
<1>3. CASE ~Missing(f)
  <2> DEFINE m == Fields[f].parsed
             cut == [i \in 1 .. m |-> WithoutOffset(Fields[f].lines[i])]
  <2>1. m \in Nat /\ m <= Len(Fields[f].lines)
    BY <1>1, <1>3 DEF Missing
  <2>2. LoadedLines(f) = cut
    BY <1>3 DEF LoadedLines
  <2>3. Len(cut) = m /\ DOMAIN cut = 1 .. m
    BY <2>1
  <2>4. ASSUME NEW i \in 1 .. m PROVE cut[i].id # "none"
    <3>1. cut[i] = WithoutOffset(Fields[f].lines[i]) /\ i \in DOMAIN Fields[f].lines
      BY <1>1, <2>1
    <3>2. WithoutOffset(Fields[f].lines[i]).id = Fields[f].lines[i].id
      BY Zenon DEF WithoutOffset
    <3> QED  BY <1>1, <3>1, <3>2
  <2> HIDE DEF cut
  <2> QED  BY <2>1, <2>2, <2>3, <2>4 DEF Named, Readable
<1> QED  BY <1>2, <1>3

\* So are they with the offsets.
LEMMA LoadedNamed ==
    ASSUME NEW f \in DOMAIN Fields, Named(navLines), NEW lines, lines = WithOffsets(LoadedLines(f), f)
    PROVE  /\ Named(lines)
           /\ Readable(f) => Len(lines) = Len(Fields[f].lines)
<1> DEFINE read == LoadedLines(f)
           n == Len(read)
           marked(i) == [id |-> read[i].id, turn |-> read[i].turn,
                         offset |-> read[i].offset \/ (i - 1) \in Fields[f].offsets]
<1>1. Named(read) /\ (Readable(f) => n = Len(Fields[f].lines)) /\ n \in Nat /\ DOMAIN read = 1 .. n
  BY PlainNamed DEF Named
<1>2. lines = [i \in 1 .. n |-> marked(i)]
  BY DEF WithOffsets
<1>3. \A i : marked(i).id = read[i].id
  BY Zenon
<1> HIDE DEF marked, n, read
<1>4. Len(lines) = n /\ DOMAIN lines = 1 .. n /\ \A i \in 1 .. n : lines[i] = marked(i)
  BY <1>1, <1>2
<1> QED  BY <1>1, <1>3, <1>4 DEF Named

\* A line that is looked up where there is one is named.
LEMMA LookedUp ==
    ASSUME NEW lines, Named(lines), NEW i \in 0 .. Len(lines) - 1
    PROVE  LineAt(lines, i).id # "none"
<1>1. LineAt(lines, i) = lines[i + 1] /\ i + 1 \in DOMAIN lines
  BY DEF LineAt, Named
<1> QED  BY <1>1 DEF Named

LEMMA FieldLinesStart == FieldLinesInit => FieldLinesInv
<1> SUFFICES ASSUME FieldLinesInit PROVE FieldLinesInv
  OBVIOUS
<1>1. Len(<<>>) = 0 /\ DOMAIN <<>> = 1 .. 0
  OBVIOUS
<1> QED  BY <1>1 DEF FieldLinesInit, FieldLinesInv, Named, HeadlandAhead

LEMMA GoalKeeps == FieldLinesInv /\ FieldGoal => FieldLinesInv'
<1> SUFFICES ASSUME FieldLinesInv, FieldGoal PROVE FieldLinesInv'
  OBVIOUS
<1>1. PICK f \in DOMAIN Fields, start \in 0 .. 3 :
        IF Readable(f)
        THEN LET lines == WithOffsets(LoadedLines(f), f) IN
               /\ navLines' = lines
               /\ IF lines = <<>>
                  THEN UNCHANGED <<fieldLines, totalLines, lineIndex, lineOnBoard, turnDirection, leg>>
                  ELSE /\ fieldLines' = lines /\ totalLines' = Len(lines)
                       /\ lineIndex' = StartIndex(start, f)
                       /\ ShowLine(LineAt(lines, lineIndex')) /\ leg' = "swath"
        ELSE /\ navLines' = LoadedLines(f)
             /\ UNCHANGED <<fieldLines, totalLines, lineIndex, lineOnBoard, turnDirection, leg>>
  BY DEF FieldGoal
<1> DEFINE lines == WithOffsets(LoadedLines(f), f)
<1>2. /\ leg = "idle" /\ Named(navLines) /\ Named(fieldLines) /\ totalLines = Len(fieldLines)
      /\ UNCHANGED <<lateralOffset, headland>>
  BY DEF FieldLinesInv, FieldGoal
<1>3. Named(lines) /\ (Readable(f) => Len(lines) = Len(Fields[f].lines))
  BY <1>2, LoadedNamed
<1> HIDE DEF lines
<1>4. CASE Readable(f) /\ lines # <<>>
  <2>1. /\ navLines' = lines /\ fieldLines' = lines /\ totalLines' = Len(lines)
        /\ lineIndex' = StartIndex(start, f) /\ leg' = "swath"
        /\ lineOnBoard' = LineAt(lines, lineIndex') /\ turnDirection' = LineAt(lines, lineIndex').turn
    BY <1>1, <1>4 DEF ShowLine, lines
  <2>2. Len(lines) \in Nat \ {0}
    BY <1>3, <1>4 DEF Named
  <2>3. lineIndex' \in 0 .. Len(lines) - 1
    BY <1>3, <1>4, <2>1, <2>2 DEF StartIndex
  <2>4. lineOnBoard'.id # "none"
    BY <1>3, <2>1, <2>3, LookedUp
  <2> QED  BY <1>3, <2>1, <2>3, <2>4 DEF FieldLinesInv, IndexFits, ShowsLine, HeadlandAhead
<1>5. CASE ~(Readable(f) /\ lines # <<>>)
  <2>1. UNCHANGED <<fieldLines, totalLines, lineIndex, lineOnBoard, turnDirection, leg>>
    BY <1>1, <1>5 DEF lines
  <2>2. Named(navLines')
    <3>1. CASE Readable(f)
      BY <1>1, <1>3, <3>1 DEF lines
    <3>2. CASE ~Readable(f)
      <4>1. navLines' = LoadedLines(f)
        BY <1>1, <3>2
      <4> QED  BY <1>2, <4>1, PlainNamed
    <3> QED  BY <3>1, <3>2
  <2> QED  BY <1>2, <2>1, <2>2 DEF FieldLinesInv, HeadlandAhead
<1> QED  BY <1>4, <1>5

LEMMA PreemptKeeps == FieldLinesInv /\ FieldPreempt => FieldLinesInv'
<1> SUFFICES ASSUME FieldLinesInv, FieldPreempt PROVE FieldLinesInv'
  OBVIOUS
<1>1. PICK f \in DOMAIN Fields :
        LET lines == WithOffsets(LoadedLines(f), f) IN
          /\ navLines' = lines /\ fieldLines' = lines /\ totalLines' = Len(lines)
          /\ lineIndex' = 0
          /\ IF lines = <<>> THEN UNCHANGED <<lineOnBoard, turnDirection>>
             ELSE ShowLine(LineAt(lines, 0))
  BY DEF FieldPreempt
<1> DEFINE lines == WithOffsets(LoadedLines(f), f)
<1>2. /\ leg # "idle" /\ leg \in {"idle", "swath", "turn", "hop"} /\ ShowsLine /\ Named(navLines)
      /\ HeadlandAhead /\ UNCHANGED <<headland, leg>>
  BY DEF FieldLinesInv, FieldPreempt
<1>3. Named(lines)
  BY <1>2, LoadedNamed
<1>4. /\ navLines' = lines /\ fieldLines' = lines /\ totalLines' = Len(lines) /\ lineIndex' = 0
      /\ IF lines = <<>> THEN UNCHANGED <<lineOnBoard, turnDirection>>
         ELSE lineOnBoard' = LineAt(lines, 0) /\ turnDirection' = LineAt(lines, 0).turn
  BY <1>1 DEF ShowLine
<1> HIDE DEF lines
<1>5. CASE lines = <<>>
  BY <1>2, <1>3, <1>4, <1>5 DEF FieldLinesInv, IndexFits, ShowsLine, HeadlandAhead
<1>6. CASE lines # <<>>
  <2>1. Len(lines) \in Nat \ {0}
    BY <1>3, <1>6 DEF Named
  <2>2. 0 \in 0 .. Len(lines) - 1
    BY <2>1
  <2>3. lineOnBoard'.id # "none"
    BY <1>3, <1>4, <1>6, <2>2, LookedUp
  <2> QED  BY <1>2, <1>3, <1>4, <1>6, <2>2, <2>3 DEF FieldLinesInv, IndexFits, ShowsLine, HeadlandAhead
<1> QED  BY <1>5, <1>6

\* A quarter turn of radius 1: its end lies one radius ahead and one to the side.
LEMMA QuarterTurn ==
    ASSUME NEW e \in EndPoses, NEW way \in {"left", "right"}, NEW p, p = HeadlandPose(way, e)
    PROVE  LET dx == p.x - e.x
               dy == p.y - e.y
               left == Toward((e.h + 1) % 4)
               toSide == dx * left[1] + dy * left[2]
           IN  /\ dx * Cos(e.h) + dy * Sin(e.h) = 1 /\ toSide \in {-1, 1}
               /\ p.h = (e.h + toSide) % 4
<1>1. e.x \in Int /\ e.y \in Int /\ e.h \in 0 .. 3
  BY FieldLinesAssumption
<1>2. /\ Toward(0) = <<1, 0>> /\ Toward(1) = <<0, 1>> /\ Toward(2) = <<-1, 0>> /\ Toward(3) = <<0, -1>>
      /\ Cos(0) = 1 /\ Sin(0) = 0 /\ Cos(1) = 0 /\ Sin(1) = 1
      /\ Cos(2) = -1 /\ Sin(2) = 0 /\ Cos(3) = 0 /\ Sin(3) = -1
  BY DEF Toward, Cos, Sin
<1>3. CASE way = "left"
  <2>1. /\ p.x = (e.x - Sin(e.h)) + Sin((e.h + 1) % 4)
        /\ p.y = (e.y + Cos(e.h)) - Cos((e.h + 1) % 4)
        /\ p.h = (e.h + 1) % 4
    <3> DEFINE s == 1
               cx == e.x - s * Sin(e.h)
               cy == e.y + s * Cos(e.h)
               h == (e.h + s) % 4
    <3>1. p = [x |-> cx + s * Sin(h), y |-> cy - s * Cos(h), h |-> h]
      BY <1>3 DEF HeadlandPose
    <3>2. p.x = cx + s * Sin(h) /\ p.y = cy - s * Cos(h) /\ p.h = h
      BY ONLY <3>1, Zenon
    <3>3. h = (e.h + 1) % 4 /\ h \in 0 .. 3
      BY <1>1
    <3>4. \A k \in 0 .. 3 : Sin(k) \in Int /\ Cos(k) \in Int
      BY <1>2
    <3> QED  BY <1>1, <3>2, <3>3, <3>4
  <2>2. CASE e.h = 0
    <3>1. p.x - e.x = 1 /\ p.y - e.y = 1 /\ p.h = 1 /\ (e.h + 1) % 4 = 1
      BY <1>1, <1>2, <2>1, <2>2
    <3> QED  BY <1>2, <2>2, <3>1
  <2>3. CASE e.h = 1
    <3>1. p.x - e.x = -1 /\ p.y - e.y = 1 /\ p.h = 2 /\ (e.h + 1) % 4 = 2
      BY <1>1, <1>2, <2>1, <2>3
    <3> QED  BY <1>2, <2>3, <3>1
  <2>4. CASE e.h = 2
    <3>1. p.x - e.x = -1 /\ p.y - e.y = -1 /\ p.h = 3 /\ (e.h + 1) % 4 = 3
      BY <1>1, <1>2, <2>1, <2>4
    <3> QED  BY <1>2, <2>4, <3>1
  <2>5. CASE e.h = 3
    <3>1. p.x - e.x = 1 /\ p.y - e.y = -1 /\ p.h = 0 /\ (e.h + 1) % 4 = 0
      BY <1>1, <1>2, <2>1, <2>5
    <3> QED  BY <1>2, <2>5, <3>1
  <2> QED  BY <1>1, <2>2, <2>3, <2>4, <2>5
<1>4. CASE way = "right"
  <2>1. /\ p.x = (e.x + Sin(e.h)) - Sin((e.h - 1) % 4)
        /\ p.y = (e.y - Cos(e.h)) + Cos((e.h - 1) % 4)
        /\ p.h = (e.h - 1) % 4
    <3> DEFINE s == -1
               cx == e.x - s * Sin(e.h)
               cy == e.y + s * Cos(e.h)
               h == (e.h + s) % 4
    <3>1. p = [x |-> cx + s * Sin(h), y |-> cy - s * Cos(h), h |-> h]
      BY <1>4 DEF HeadlandPose
    <3>2. p.x = cx + s * Sin(h) /\ p.y = cy - s * Cos(h) /\ p.h = h
      BY ONLY <3>1, Zenon
    <3>3. h = (e.h - 1) % 4 /\ h \in 0 .. 3
      BY <1>1
    <3>4. \A k \in 0 .. 3 : Sin(k) \in Int /\ Cos(k) \in Int
      BY <1>2
    <3> QED  BY <1>1, <3>2, <3>3, <3>4
  <2>2. CASE e.h = 0
    <3>1. p.x - e.x = 1 /\ p.y - e.y = -1 /\ p.h = 3 /\ (e.h + 1) % 4 = 1
      <4>1. (e.h - 1) % 4 = 3
        <5>1. \A i \in Int : i + 1 = 0 => i % 4 = 3
          OBVIOUS
        <5>2. e.h - 1 \in Int /\ (e.h - 1) + 1 = 0
          BY <2>2
        <5> QED  BY <5>1, <5>2
      <4>2. (e.h + 1) % 4 = 1
        BY <2>2
      <4> QED  BY <1>1, <1>2, <2>1, <2>2, <4>1, <4>2
    <3> QED  BY <1>2, <2>2, <3>1
  <2>3. CASE e.h = 1
    <3>1. p.x - e.x = 1 /\ p.y - e.y = 1 /\ p.h = 0 /\ (e.h + 1) % 4 = 2
      BY <1>1, <1>2, <2>1, <2>3
    <3> QED  BY <1>2, <2>3, <3>1
  <2>4. CASE e.h = 2
    <3>1. p.x - e.x = -1 /\ p.y - e.y = 1 /\ p.h = 1 /\ (e.h + 1) % 4 = 3
      BY <1>1, <1>2, <2>1, <2>4
    <3> QED  BY <1>2, <2>4, <3>1
  <2>5. CASE e.h = 3
    <3>1. p.x - e.x = -1 /\ p.y - e.y = -1 /\ p.h = 2 /\ (e.h + 1) % 4 = 0
      BY <1>1, <1>2, <2>1, <2>5
    <3> QED  BY <1>2, <2>5, <3>1
  <2> QED  BY <1>1, <2>2, <2>3, <2>4, <2>5
<1> QED  BY <1>3, <1>4

LEMMA LegsKeep == FieldLinesInv /\ (SwathLeg \/ TurnLeg \/ HopLeg) => FieldLinesInv'
<1> SUFFICES ASSUME FieldLinesInv, SwathLeg \/ TurnLeg \/ HopLeg PROVE FieldLinesInv'
  OBVIOUS
<1>1. CASE SwathLeg
  BY <1>1 DEF FieldLinesInv, SwathLeg, EndField, IndexFits, ShowsLine, HeadlandAhead
<1>2. CASE TurnLeg
  <2>1. /\ leg = "turn" /\ IndexFits /\ ShowsLine
        /\ UNCHANGED <<navLines, fieldLines, totalLines, lineIndex, lineOnBoard, turnDirection, lateralOffset>>
    BY <1>2 DEF TurnLeg, FieldLinesInv
  <2>2. CASE leg' = "idle"
    BY <2>1, <2>2 DEF FieldLinesInv, HeadlandAhead
  <2>3. CASE leg' # "idle"
    <3>1. /\ turnDirection # "end" /\ leg' = "hop"
          /\ \E e \in EndPoses : headland' = HeadlandPose(SequenceSide(turnDirection), e)
      BY <1>2, <2>3 DEF TurnLeg, EndField
    <3>2. HeadlandAhead'
      <4>1. PICK e \in EndPoses : headland' = HeadlandPose(SequenceSide(turnDirection), e)
        BY <3>1
      <4>2. SequenceSide(turnDirection) \in {"left", "right"}
        BY DEF SequenceSide
      <4> QED  BY <4>1, <4>2, QuarterTurn DEF HeadlandAhead
    <3>3. IndexFits' /\ ShowsLine'
      BY <2>1 DEF IndexFits, ShowsLine
    <3>4. lineIndex' \in 0 .. totalLines' - 1 \/ (totalLines' = 0 /\ lineIndex' = 0)
      BY <2>1, <3>1 DEF IndexFits
    <3> QED  BY <2>1, <3>1, <3>2, <3>3, <3>4 DEF FieldLinesInv
  <2> QED  BY <2>2, <2>3
<1>3. CASE HopLeg
  <2>1. /\ leg = "hop" /\ lineIndex' = lineIndex + 1 /\ leg' \in {"swath", "idle"}
        /\ Named(navLines) /\ Named(fieldLines) /\ totalLines = Len(fieldLines) /\ ShowsLine
        /\ lineIndex \in 0 .. totalLines - 1 \/ (totalLines = 0 /\ lineIndex = 0)
        /\ UNCHANGED <<navLines, fieldLines, totalLines, lateralOffset, headland>>
    BY <1>3 DEF HopLeg, FieldLinesInv
  <2>2. totalLines \in Nat
    BY <2>1 DEF Named
  <2>3. CASE NoneLeft
    <3>1. turnDirection' = "end" /\ lineOnBoard' = lineOnBoard
      BY <1>3, <2>3 DEF HopLeg
    <3>2. lineIndex' = IF totalLines = 0 THEN 1 ELSE totalLines
      BY <2>1, <2>2, <2>3 DEF NoneLeft
    <3> QED  BY <2>1, <3>1, <3>2 DEF FieldLinesInv, IndexFits, ShowsLine, HeadlandAhead
  <2>4. CASE ~NoneLeft
    <3>1. /\ lineOnBoard' = LineAt(fieldLines, lineIndex')
          /\ turnDirection' = LineAt(fieldLines, lineIndex').turn
      BY <1>3, <2>4 DEF HopLeg, ShowLine
    <3>2. lineIndex' \in 0 .. totalLines - 1
      BY <2>1, <2>2, <2>4 DEF NoneLeft
    <3>3. lineOnBoard'.id # "none"
      BY <2>1, <3>1, <3>2, LookedUp
    <3> QED  BY <2>1, <3>1, <3>2, <3>3 DEF FieldLinesInv, IndexFits, ShowsLine, HeadlandAhead
  <2> QED  BY <2>3, <2>4
<1> QED  BY <1>1, <1>2, <1>3

LEMMA FieldLinesStep == FieldLinesInv /\ [FieldLinesNext]_flVars => FieldLinesInv'
<1>1. FieldLinesInv /\ UNCHANGED flVars => FieldLinesInv'
  BY DEF flVars, FieldLinesInv, IndexFits, ShowsLine, HeadlandAhead
<1> QED  BY <1>1, GoalKeeps, PreemptKeeps, LegsKeep DEF FieldLinesNext

LEMMA LinesAreRight == FieldLinesInv => FieldLinesOK
<1> SUFFICES ASSUME FieldLinesInv PROVE LooksUpLines /\ HeadlandAhead
  BY DEF FieldLinesOK
<1>1. NoLine.id = "none"
  BY Zenon DEF NoLine
<1> QED  BY <1>1 DEF FieldLinesInv, LooksUpLines, IndexFits, ShowsLine

\* Whatever fields, files and preemptions: the nodes find the lines they look up,
\* the turn is the one after the line they show, and the headland pose is where a
\* quarter turn to its side leads.
THEOREM LinesFound == FieldLinesSpec => []FieldLinesOK
BY FieldLinesStart, FieldLinesStep, LinesAreRight, PTL DEF FieldLinesSpec

-----------------------------------------------------------------------------
(* The headland turn. *)

\* The turn alone.
TurnSpec == TurnInit /\ [][TurnNext]_turnVars

\* Poses of the lattice, however far away.
Lattice == [at : Int \X Int, h : 0 .. 5]

TurnInv == robot \in Lattice /\ swath \in Lattice /\ turn \in 0 .. 3 /\ ArcMeetsLeadIn

LEMMA Fields6 ==
    ASSUME NEW p \in Lattice
    PROVE  /\ p.at = <<p.at[1], p.at[2]>> /\ p.at[1] \in Int /\ p.at[2] \in Int /\ p.h \in 0 .. 5
BY DEF Lattice

\* The normals of opposite headings are opposite.
LEMMA Normals ==
    ASSUME NEW h \in 0 .. 5
    PROVE  /\ Left(h)[1] \in Int /\ Left(h)[2] \in Int
           /\ Left((h + 3) % 6)[1] = -Left(h)[1] /\ Left((h + 3) % 6)[2] = -Left(h)[2]
<1>1. /\ Left(0) = <<1, 0>> /\ Left(1) = <<0, 1>> /\ Left(2) = <<-1, 1>>
      /\ Left(3) = <<-1, 0>> /\ Left(4) = <<0, -1>> /\ Left(5) = <<1, -1>>
  BY DEF Left
<1>2. h = 0 \/ h = 1 \/ h = 2 \/ h = 3 \/ h = 4 \/ h = 5
  OBVIOUS
<1> QED  BY <1>1, <1>2

\* The pose at the end of an arc.
LEMMA ArcPose ==
    ASSUME NEW p, NEW n, NEW left, NEW forward,
           NEW k, k = IF forward THEN 1 ELSE -1, NEW h, h = (p.h + k * Side(left) * n) % 6
    PROVE  /\ ArcEnd(p, n, left, forward) = [at |-> Plus(Centre(p, left), -Side(left), Left(h)), h |-> h]
           /\ ArcEnd(p, n, left, forward).at = Plus(Centre(p, left), -Side(left), Left(h))
<1>1. ArcEnd(p, n, left, forward) = [at |-> Plus(Centre(p, left), -Side(left), Left(h)), h |-> h]
  BY DEF ArcEnd
<1>2. [at |-> Plus(Centre(p, left), -Side(left), Left(h)), h |-> h].at = Plus(Centre(p, left), -Side(left), Left(h))
  BY Zenon
<1> QED  BY <1>1, <1>2, Zenon

\* From a place to a centre and back along the opposite of what led there.
LEMMA ThereAndBack ==
    ASSUME NEW p, p = <<p[1], p[2]>>, p[1] \in Int, p[2] \in Int,
           NEW u, u[1] \in Int, u[2] \in Int, NEW v,
           NEW j \in {-1, 1}, NEW k \in {-1, 1},
           v[1] = IF j = k THEN u[1] ELSE -u[1], v[2] = IF j = k THEN u[2] ELSE -u[2]
    PROVE  Plus(Plus(p, k, u), -j, v) = p
<1> DEFINE c == Plus(p, k, u)
<1>1. c = <<p[1] + k * u[1], p[2] + k * u[2]>>
  BY DEF Plus
<1>2. Plus(c, -j, v) = <<c[1] + (-j) * v[1], c[2] + (-j) * v[2]>>
  BY DEF Plus
<1>3. c[1] = p[1] + k * u[1] /\ c[2] = p[2] + k * u[2]
  BY <1>1
<1> HIDE DEF c
<1>4. c[1] + (-j) * v[1] = p[1]
  <2>1. CASE k = 1
    BY <1>3, <2>1
  <2>2. CASE k = -1
    BY <1>3, <2>2
  <2> QED  BY <2>1, <2>2
<1>5. c[2] + (-j) * v[2] = p[2]
  <2>1. CASE k = 1
    BY <1>3, <2>1
  <2>2. CASE k = -1
    BY <1>3, <2>2
  <2> QED  BY <2>1, <2>2
<1> QED  BY <1>2, <1>4, <1>5 DEF c

\* An arc of whole sixths ends on the lattice.
LEMMA ArcOnLattice ==
    ASSUME NEW p \in Lattice, NEW n \in Int, NEW left \in BOOLEAN, NEW forward \in BOOLEAN
    PROVE  ArcEnd(p, n, left, forward) \in Lattice
<1> DEFINE h == (p.h + (IF forward THEN 1 ELSE -1) * Side(left) * n) % 6
<1>1. Side(left) \in {-1, 1} /\ p.at[1] \in Int /\ p.at[2] \in Int /\ p.h \in 0 .. 5
  BY Fields6 DEF Side
<1>2. h \in 0 .. 5
  <2>1. (IF forward THEN 1 ELSE -1) * Side(left) \in {-1, 1}
    BY <1>1
  <2>2. p.h + (IF forward THEN 1 ELSE -1) * Side(left) * n \in Int
    BY <1>1, <2>1
  <2> QED  BY <2>2
<1> HIDE DEF h
<1>3. Centre(p, left) \in Int \X Int
  BY <1>1, Normals DEF Centre, Plus
<1>4. Plus(Centre(p, left), -Side(left), Left(h)) \in Int \X Int
  BY <1>1, <1>2, <1>3, Normals DEF Plus
<1>5. ArcEnd(p, n, left, forward) = [at |-> Plus(Centre(p, left), -Side(left), Left(h)), h |-> h]
  BY DEF ArcEnd, h
<1> QED  BY <1>2, <1>4, <1>5 DEF Lattice

\* A sweep ends at the heading from which the lead-in has its centre.
LEMMA SweepTurns ==
    ASSUME NEW r \in 0 .. 5, NEW s \in 0 .. 5
    PROVE  /\ (r + ((((s + 3) % 6) - ((r + 3) % 6)) % 6)) % 6 = s
           /\ (r + (((s % 6) - ((r + 3) % 6)) % 6)) % 6 = (s + 3) % 6
           /\ (r - (((r % 6) - ((s + 3) % 6)) % 6)) % 6 = (s + 3) % 6
           /\ (r - (((r % 6) - (s % 6)) % 6)) % 6 = s
OBVIOUS

\* A connecting arc ends at the lead-in.
LEMMA ArcMeets ==
    ASSUME robot \in Lattice, swath \in Lattice,
           NEW entry \in BOOLEAN, NEW exit \in BOOLEAN, Centre(robot, entry) = Centre(swath, exit),
           NEW forward \in BOOLEAN, forward
    PROVE  ArcEnd(robot, Sweep(entry, exit), entry, forward).at = swath.at
<1> DEFINE c == Centre(robot, entry)
           n == Sweep(entry, exit)
           h == (robot.h + 1 * Side(entry) * n) % 6
           s == swath.h
<1>1. robot.h \in 0 .. 5 /\ s \in 0 .. 5 /\ swath.at = <<swath.at[1], swath.at[2]>>
      /\ swath.at[1] \in Int /\ swath.at[2] \in Int
  BY Fields6
<1>2. h = (robot.h + 1 * Side(entry) * n) % 6 /\ c = Centre(robot, entry) /\ 1 = IF forward THEN 1 ELSE -1
  OBVIOUS
<1>3. c = Plus(swath.at, Side(exit), Left(s))
  BY DEF Centre
<1>4. h = IF entry = exit THEN s ELSE (s + 3) % 6
  <2>1. CASE entry /\ exit
    <3>1. n = (((s + 3) % 6) - ((robot.h + 3) % 6)) % 6 /\ Side(entry) = 1
      BY <1>1, <2>1 DEF Sweep, Side
    <3> QED  BY <1>1, <2>1, <3>1, SweepTurns
  <2>2. CASE entry /\ ~exit
    <3>1. n = ((s % 6) - ((robot.h + 3) % 6)) % 6 /\ Side(entry) = 1
      BY <1>1, <2>2 DEF Sweep, Side
    <3> QED  BY <1>1, <2>2, <3>1, SweepTurns
  <2>3. CASE ~entry /\ exit
    <3>1. n = ((robot.h % 6) - ((s + 3) % 6)) % 6 /\ Side(entry) = -1
      BY <1>1, <2>3 DEF Sweep, Side
    <3> QED  BY <1>1, <2>3, <3>1, SweepTurns
  <2>4. CASE ~entry /\ ~exit
    <3>1. n = ((robot.h % 6) - (s % 6)) % 6 /\ Side(entry) = -1
      BY <1>1, <2>4 DEF Sweep, Side
    <3> QED  BY <1>1, <2>4, <3>1, SweepTurns
  <2> QED  BY <2>1, <2>2, <2>3, <2>4
<1> HIDE DEF c, n, h, s
<1>8. ArcEnd(robot, n, entry, forward).at = Plus(c, -Side(entry), Left(h))
  <2>1. ArcEnd(robot, n, entry, forward).at = Plus(Centre(robot, entry), -Side(entry), Left(h))
    BY ONLY <1>2, ArcPose
  <2> QED  BY ONLY <1>2, <2>1, Zenon
<1>5. /\ Side(entry) \in {-1, 1} /\ Side(exit) \in {-1, 1}
      /\ Side(entry) = Side(exit) <=> entry = exit
  BY DEF Side
<1>6. /\ Left(s)[1] \in Int /\ Left(s)[2] \in Int
      /\ Left(h)[1] = IF entry = exit THEN Left(s)[1] ELSE -Left(s)[1]
      /\ Left(h)[2] = IF entry = exit THEN Left(s)[2] ELSE -Left(s)[2]
  BY <1>1, <1>4, Normals
<1>7. Plus(c, -Side(entry), Left(h)) = swath.at
  BY <1>1, <1>3, <1>5, <1>6, ThereAndBack
<1> QED  BY <1>7, <1>8 DEF n

LEMMA TurnStart == TurnInit => TurnInv
BY DEF TurnInit, TurnInv, Lattice, Spot, ArcMeetsLeadIn

LEMMA TurnStep == TurnInv /\ [TurnNext]_turnVars => TurnInv'
<1> SUFFICES ASSUME TurnInv, [TurnNext]_turnVars PROVE TurnInv'
  OBVIOUS
<1>1. robot \in Lattice /\ swath \in Lattice /\ turn \in 0 .. 3 /\ ArcMeetsLeadIn
  BY DEF TurnInv
<1>2. CASE Segment1
  <2>1. robot' = ArcEnd(robot, 2, TRUE, TRUE) /\ TRUE \in BOOLEAN
    BY <1>2, Zenon DEF Segment1
  <2>2. turn' = 1 /\ UNCHANGED <<swath, joined, joinedAt>>
    BY <1>2, Zenon DEF Segment1
  <2>3. 2 \in Int
    OBVIOUS
  <2>4. robot' \in Lattice
    BY <1>1, <2>1, <2>3, ArcOnLattice, Zenon
  <2> QED  BY <1>1, <2>2, <2>4 DEF TurnInv, ArcMeetsLeadIn
<1>3. CASE Segment2
  <2>1. robot' = ArcEnd(robot, 1, FALSE, FALSE) /\ FALSE \in BOOLEAN
    BY <1>3, Zenon DEF Segment2
  <2>2. turn' = 2 /\ UNCHANGED <<swath, joined, joinedAt>>
    BY <1>3, Zenon DEF Segment2
  <2>3. 1 \in Int
    OBVIOUS
  <2>4. robot' \in Lattice
    BY <1>1, <2>1, <2>3, ArcOnLattice, Zenon
  <2> QED  BY <1>1, <2>2, <2>4 DEF TurnInv, ArcMeetsLeadIn
<1>4. CASE Drift
  BY <1>1, <1>4 DEF Drift, TurnInv, ArcMeetsLeadIn, Lattice
<1>5. CASE Segment3
  <2>1. turn' = 3 /\ robot' = swath /\ swath' = swath
    BY <1>5 DEF Segment3
  <2>2. joinedAt'.at = swath.at
    <3>1. CASE Connections = {}
      BY <1>5, <3>1 DEF Segment3
    <3>2. CASE Connections # {}
      <4>1. PICK c \in Connections : joinedAt' = ArcEnd(robot, Sweep(c[1], c[2]), c[1], TRUE)
        BY <1>5, <3>2 DEF Segment3
      <4>2. c[1] \in BOOLEAN /\ c[2] \in BOOLEAN /\ Joins(c[1], c[2])
        BY DEF Connections
      <4>3. Centre(robot, c[1]) = Centre(swath, c[2])
        BY <4>2 DEF Joins
      <4>4. ArcEnd(robot, Sweep(c[1], c[2]), c[1], TRUE).at = swath.at
        BY <1>1, <4>2, <4>3, ArcMeets, Zenon
      <4> QED  BY <4>1, <4>4, Zenon
    <3> QED  BY <3>1, <3>2
  <2> QED  BY <1>1, <2>1, <2>2 DEF TurnInv, ArcMeetsLeadIn
<1>6. CASE NextTurn
  BY <1>1, <1>6 DEF NextTurn, TurnInv, ArcMeetsLeadIn, Lattice
<1>7. CASE UNCHANGED turnVars
  BY <1>1, <1>7 DEF turnVars, TurnInv, ArcMeetsLeadIn
<1> QED  BY <1>2, <1>3, <1>4, <1>5, <1>6, <1>7 DEF TurnNext

\* The two arcs before the third lead round.
LEMMA TwoArcs ==
    ASSUME NEW p, p = [at |-> <<0, 0>>, h |-> 0],
           NEW yes \in BOOLEAN, yes, NEW no \in BOOLEAN, ~no
    PROVE  ArcEnd(ArcEnd(p, 2, yes, yes), 1, no, no) = [at |-> <<2, -2>>, h |-> 3]
<1> DEFINE q == [at |-> <<2, -1>>, h |-> 2]
<1>1. Left(0) = <<1, 0>> /\ Left(2) = <<-1, 1>> /\ Left(3) = <<-1, 0>>
  BY DEF Left
<1>2. Side(yes) = 1 /\ Side(no) = -1 /\ 1 = (IF yes THEN 1 ELSE -1) /\ -1 = (IF no THEN 1 ELSE -1)
  BY DEF Side
<1>3. p.at = <<0, 0>> /\ p.h = 0 /\ q.at = <<2, -1>> /\ q.h = 2
  BY Zenon
<1> HIDE DEF q
<1>4. ArcEnd(p, 2, yes, yes) = q
  <2>1. 2 = (p.h + 1 * Side(yes) * 2) % 6
    <3>1. 2 = (0 + 1 * 1 * 2) % 6
      OBVIOUS
    <3> QED  BY ONLY <1>2, <1>3, <3>1, Zenon
  <2>2. ArcEnd(p, 2, yes, yes) = [at |-> Plus(Centre(p, yes), -Side(yes), Left(2)), h |-> 2]
    BY ONLY <1>2, <2>1, ArcPose
  <2>3. Centre(p, yes) = Plus(<<0, 0>>, 1, <<1, 0>>)
    BY <1>1, <1>2, <1>3 DEF Centre
  <2>4. Plus(Plus(<<0, 0>>, 1, <<1, 0>>), -1, <<-1, 1>>) = <<2, -1>>
    BY DEF Plus
  <2> QED  BY <1>1, <1>2, <2>2, <2>3, <2>4 DEF q
<1>5. ArcEnd(q, 1, no, no) = [at |-> <<2, -2>>, h |-> 3]
  <2>1. 3 = (q.h + (-1) * Side(no) * 1) % 6
    <3>1. (-1) * Side(no) * 1 = 1
      BY <1>2
    <3> QED  BY <1>3, <3>1
  <2>2. ArcEnd(q, 1, no, no) = [at |-> Plus(Centre(q, no), -Side(no), Left(3)), h |-> 3]
    BY ONLY <1>2, <2>1, ArcPose
  <2>3. Centre(q, no) = Plus(<<2, -1>>, -1, <<-1, 1>>)
    BY <1>1, <1>2, <1>3 DEF Centre
  <2>4. Plus(Plus(<<2, -1>>, -1, <<-1, 1>>), -(-1), <<-1, 0>>) = <<2, -2>>
    BY DEF Plus
  <2> QED  BY <1>1, <1>2, <2>2, <2>3, <2>4
<1> QED  BY <1>4, <1>5

\* Wherever the next swath begins: undisturbed, the reverse arc leaves the robot
\* heading back one radius to the left, and an arc that connects ends where the
\* lead-in begins.
THEOREM TurnReachesLeadIn == TurnSpec => TurnJoins
<1>1. [TurnNext]_turnVars =>
        [turn = 1 /\ turn' = 2 /\ robot = ArcEnd([at |-> <<0, 0>>, h |-> 0], 2, TRUE, TRUE)
                 => robot' = [at |-> <<2, -2>>, h |-> 3]]_turnVars
  <2> SUFFICES ASSUME TurnNext, turn = 1, turn' = 2,
                      robot = ArcEnd([at |-> <<0, 0>>, h |-> 0], 2, TRUE, TRUE)
               PROVE  robot' = [at |-> <<2, -2>>, h |-> 3]
    BY DEF turnVars
  <2>1. Segment2
    BY DEF TurnNext, Segment1, Segment3, Drift, NextTurn
  <2>2. robot' = ArcEnd(robot, 1, FALSE, FALSE)
    BY <2>1, Zenon DEF Segment2
  <2> QED  BY <2>2, TwoArcs, Zenon
<1>2. TurnInv => ArcMeetsLeadIn
  BY DEF TurnInv
<1> QED  BY TurnStart, TurnStep, <1>1, <1>2, PTL DEF TurnSpec, TurnJoins, TurnsBack

-----------------------------------------------------------------------------
(* The controller of the tool. *)

\* The controller alone.
ToolSpec == ToolFollowerInit /\ [][ToolFollowerNext]_tfVars

\* A PID that is ready has a plan; nothing is summed up while a swath is entered.
ToolInv ==
    /\ linePlan.poses \in Nat /\ (pidReady => linePlan.poses > 0)
    /\ pidReady \in BOOLEAN /\ integral \in Int /\ prevError \in Int /\ gap \in Nat
    /\ planAge \in Nat /\ (planAge <= EntryIgnore => integral = 0)
    /\ tool.side \in Int

LEMMA Numbers ==
    /\ EntryIgnore \in Nat /\ MaxGap \in Nat \ {0} /\ MaxAngular \in Nat \ {0}
    /\ KpNear \in Nat /\ KpMid \in Nat /\ KpFar \in Nat /\ Ki \in Nat /\ Kd \in Nat /\ KiClamp \in Nat
BY ToolFollowerAssumption

\* The greatest and the least of two numbers.
LEMMA OfTwo ==
    ASSUME NEW a \in Int, NEW b \in Int
    PROVE  /\ Max({a, b}) = IF a >= b THEN a ELSE b
           /\ Min({a, b}) = IF a <= b THEN a ELSE b
<1>1. \E m \in {a, b} : \A y \in {a, b} : m >= y
  <2>1. CASE a >= b
    BY <2>1
  <2>2. CASE b >= a
    BY <2>2
  <2> QED  BY <2>1, <2>2
<1>2. /\ Max({a, b}) \in {a, b} /\ \A y \in {a, b} : Max({a, b}) >= y
  BY <1>1 DEF Max
<1>3. \E m \in {a, b} : \A y \in {a, b} : m <= y
  <2>1. CASE a <= b
    BY <2>1
  <2>2. CASE b <= a
    BY <2>2
  <2> QED  BY <2>1, <2>2
<1>4. /\ Min({a, b}) \in {a, b} /\ \A y \in {a, b} : Min({a, b}) <= y
  BY <1>3 DEF Min
<1> QED  BY <1>2, <1>4

LEMMA Clamped ==
    ASSUME NEW x \in Int, NEW lo \in Int, NEW hi \in Int, lo <= hi
    PROVE  /\ Within(x, lo, hi) \in lo .. hi
           /\ Within(x, lo, hi) = IF x < lo THEN lo ELSE IF x > hi THEN hi ELSE x
<1>1. Min({x, hi}) = IF x <= hi THEN x ELSE hi
  BY OfTwo
<1> DEFINE m == Min({x, hi})
<1>2. m \in Int
  BY <1>1
<1>3. Max({lo, m}) = IF lo >= m THEN lo ELSE m
  BY <1>2, OfTwo
<1> QED  BY <1>1, <1>3 DEF Within

\* A quotient has the sign of what is divided.
LEMMA QuotSign ==
    ASSUME NEW a \in Int, NEW b \in Nat \ {0}
    PROVE  Quot(a, b) \in Int /\ (a >= 0 => Quot(a, b) >= 0) /\ (a <= 0 => Quot(a, b) <= 0)
<1>1. \A x \in Nat : x \div b \in Nat
  OBVIOUS
<1>2. CASE a < 0
  <2>1. -a \in Nat /\ Quot(a, b) = -((-a) \div b)
    BY <1>2 DEF Quot
  <2> DEFINE q == (-a) \div b
  <2>2. q \in Nat
    BY <1>1, <2>1
  <2> HIDE DEF q
  <2> QED  BY <1>2, <2>1, <2>2 DEF q
<1>3. CASE a >= 0
  <2>1. a \in Nat /\ Quot(a, b) = a \div b
    BY <1>3 DEF Quot
  <2> DEFINE q == a \div b
  <2>2. q \in Nat
    BY <1>1, <2>1
  <2>3. a = 0 => q = 0
    OBVIOUS
  <2> HIDE DEF q
  <2> QED  BY <1>3, <2>1, <2>2, <2>3 DEF q
<1> QED  BY <1>2, <1>3

LEMMA Gains ==
    ASSUME NEW e \in Int
    PROVE  Gain_p(e) \in {KpNear, KpMid, KpFar} /\ Gain_p(e) \in Nat
BY Numbers DEF Gain_p

\* What is summed up.
LEMMA Summed ==
    ASSUME NEW e \in Int, NEW dt \in Nat \ {0}, integral \in Int, planAge \in Nat
    PROVE  /\ Integrated(e, dt) \in Int
           /\ planAge <= EntryIgnore /\ integral = 0 => Integrated(e, dt) = 0
<1> DEFINE sum == IF planAge > EntryIgnore THEN integral + e * dt ELSE integral
           c == KiClamp \div Ki
<1>1. sum \in Int
  <2>1. e * dt \in Int
    OBVIOUS
  <2> QED  BY <2>1
<1>2. Ki > 0 => c \in Nat
  BY Numbers
<1>3. Integrated(e, dt) = IF Ki > 0 THEN Within(sum, -c, c) ELSE sum
  BY DEF Integrated
<1>4. planAge <= EntryIgnore => sum = integral
  BY Numbers
<1> HIDE DEF sum, c
<1>5. Ki > 0 => Within(sum, -c, c) \in Int /\ (sum = 0 => Within(sum, -c, c) = 0)
  <2> SUFFICES ASSUME Ki > 0 PROVE Within(sum, -c, c) \in Int /\ (sum = 0 => Within(sum, -c, c) = 0)
    OBVIOUS
  <2>1. -c \in Int /\ c \in Int /\ -c <= c
    BY <1>2
  <2>2. /\ Within(sum, -c, c) \in -c .. c
        /\ Within(sum, -c, c) = IF sum < -c THEN -c ELSE IF sum > c THEN c ELSE sum
    BY <1>1, <2>1, Clamped
  <2> QED  BY <1>2, <2>1, <2>2
<1> QED  BY <1>1, <1>3, <1>4, <1>5

LEMMA ToolStart == ToolFollowerInit => ToolInv
<1> SUFFICES ASSUME ToolFollowerInit PROVE ToolInv
  OBVIOUS
<1>1. NoSwath.poses = 0
  BY Zenon DEF NoSwath
<1>2. pidReady = FALSE /\ FALSE \in BOOLEAN
  BY Zenon DEF ToolFollowerInit
<1>3. /\ linePlan = NoSwath /\ integral = 0 /\ prevError = 0 /\ gap = 0 /\ planAge = EntryIgnore + 1
      /\ tool = [along |-> 0, side |-> 0, known |-> TRUE]
  BY Zenon DEF ToolFollowerInit
<1>4. tool.side = 0
  BY <1>3, Zenon
<1>5. linePlan.poses \in Nat /\ integral \in Int /\ prevError \in Int /\ gap \in Nat
      /\ planAge \in Nat /\ tool.side \in Int
  BY ONLY <1>1, <1>3, <1>4, Numbers
<1> QED  BY <1>2, <1>3, <1>5, Zenon DEF ToolInv

\* A cycle that finds the tool.
LEMMA CycleKeeps ==
    ASSUME ToolInv, PidCycle, planAge' = Min({planAge + 1, EntryIgnore + 1}),
           UNCHANGED <<linePlan, tool, lineLimit>>, linePlan.poses > 0
    PROVE  ToolInv'
<1> DEFINE e == tool.side
           dt == IF pidReady THEN Max({1, gap}) ELSE 1
<1>1. e \in Int /\ dt \in Nat \ {0}
  BY OfTwo DEF ToolInv
<1>2. pidReady' = TRUE /\ prevError' = e /\ gap' = 1
  BY Zenon DEF PidCycle
<1>3. integral' = Integrated(e, dt)
  BY DEF PidCycle
<1>4. planAge' \in Nat /\ (planAge' <= EntryIgnore => planAge <= EntryIgnore)
  BY OfTwo, Numbers DEF ToolInv
<1> HIDE DEF e, dt
<1>5. integral' \in Int /\ (planAge <= EntryIgnore /\ integral = 0 => integral' = 0)
  BY <1>1, <1>3, Summed DEF ToolInv
<1>6. pidReady' \in BOOLEAN
  BY <1>2, Zenon
<1> QED  BY <1>1, <1>2, <1>4, <1>5, <1>6 DEF ToolInv, e

LEMMA ToolStep == ToolInv /\ [ToolFollowerNext]_tfVars => ToolInv'
<1> SUFFICES ASSUME ToolInv, [ToolFollowerNext]_tfVars PROVE ToolInv'
  OBVIOUS
<1>1. CASE ToolActivate
  <2>1. pidReady' \in BOOLEAN /\ ~pidReady'
    BY <1>1, Zenon DEF ToolActivate, FreshPid
  <2>2. integral' = 0 /\ prevError' = 0 /\ gap' = 0 /\ planAge' = EntryIgnore + 1 /\ UNCHANGED <<linePlan, tool>>
    BY <1>1, Zenon DEF ToolActivate, FreshPid
  <2> QED  BY <2>1, <2>2, Numbers DEF ToolInv
<1>2. CASE ToolSetPlan
  <2>1. linePlan'.poses \in Nat \ {0}
    <3>1. PICK n \in SwathLengths, b \in Bends : linePlan' = [poses |-> n, bend |-> b]
      BY <1>2 DEF ToolSetPlan
    <3> QED  BY <3>1, ToolFollowerAssumption
  <2>2. pidReady' \in BOOLEAN /\ ~pidReady'
    BY <1>2, Zenon DEF ToolSetPlan, FreshPid
  <2>3. integral' = 0 /\ prevError' = 0 /\ gap' = 0 /\ planAge' = 0 /\ UNCHANGED tool
    BY <1>2, Zenon DEF ToolSetPlan, FreshPid
  <2> QED  BY <2>1, <2>2, <2>3 DEF ToolInv
<1>3. CASE ToolSetSpeedLimit
  BY <1>3 DEF ToolInv, ToolSetSpeedLimit
<1>4. CASE ToolCycle
  <2>1. planAge' = Min({planAge + 1, EntryIgnore + 1}) /\ UNCHANGED <<linePlan, tool, lineLimit>>
    BY <1>4 DEF ToolCycle
  <2>2. CASE linePlan.poses > 0 /\ tool.known
    <3>1. PidCycle
      BY <1>4, <2>2 DEF ToolCycle
    <3> QED  BY <2>1, <2>2, <3>1, CycleKeeps
  <2>3. CASE ~(linePlan.poses > 0 /\ tool.known)
    <3>1. UNCHANGED <<pidReady, integral, prevError>> /\ gap' = Min({gap + 1, MaxGap})
      BY <1>4, <2>3 DEF ToolCycle, Stopped
    <3>2. gap' \in Nat
      <4>1. gap + 1 \in Int /\ MaxGap \in Int /\ gap + 1 >= 0 /\ MaxGap >= 0
        BY Numbers DEF ToolInv
      <4>2. gap' = Min({gap + 1, MaxGap})
        BY ONLY <3>1, Zenon
      <4> QED  BY ONLY <4>1, <4>2, OfTwo
    <3>3. planAge' \in Nat /\ (planAge' <= EntryIgnore => planAge <= EntryIgnore)
      <4>1. planAge \in Nat /\ EntryIgnore \in Nat /\ planAge + 1 \in Int /\ EntryIgnore + 1 \in Int
        BY Numbers DEF ToolInv
      <4> QED  BY ONLY <2>1, <4>1, OfTwo
    <3> QED  BY <2>1, <3>1, <3>2, <3>3 DEF ToolInv
  <2> QED  BY <2>2, <2>3
<1>5. CASE ToolMoves
  BY <1>5 DEF ToolInv, ToolMoves
<1>6. CASE ToolReturns
  BY <1>6 DEF ToolInv, ToolReturns
<1>7. CASE UNCHANGED tfVars
  BY <1>7 DEF ToolInv, tfVars
<1> QED  BY <1>1, <1>2, <1>3, <1>4, <1>5, <1>6, <1>7 DEF ToolFollowerNext

\* Signs of products.
LEMMA Signs ==
    ASSUME NEW x \in Int, NEW y \in Int
    PROVE  /\ x * y \in Int
           /\ x > 0 /\ x * y >= 0 => y >= 0
           /\ x < 0 /\ x * y >= 0 => y <= 0
           /\ x >= 0 /\ y >= 0 => x * y >= 0
           /\ x >= 0 /\ y <= 0 => x * y <= 0
           /\ x > 0 /\ y > 0 => x * y > 0
           /\ x > 0 /\ y < 0 => x * y < 0
OBVIOUS

\* What a cycle turns by.
LEMMA CycleSteers ==
    ASSUME ToolInv, PidCycle, NEW dt, dt = IF pidReady THEN Max({1, gap}) ELSE 1
    PROVE  /\ dt \in Nat \ {0} /\ integral' = Integrated(tool.side, dt)
           /\ twist'.w = Steer(tool.side, integral', Derivative(tool.side, dt))
<1>1. dt \in Nat \ {0}
  BY OfTwo DEF ToolInv
<1>2. integral' = Integrated(tool.side, dt)
  BY DEF PidCycle
<1>3. twist'.w = Steer(tool.side, Integrated(tool.side, dt), Derivative(tool.side, dt))
  <2>1. PICK v, arc : twist' = [v |-> v, w |-> Steer(tool.side, Integrated(tool.side, dt), Derivative(tool.side, dt)),
                                arc |-> arc]
    BY Zenon DEF PidCycle
  <2> QED  BY ONLY <2>1, Zenon
<1> QED  BY ONLY <1>1, <1>2, <1>3, Zenon

\* A step after which the PID is ready was ready before or is a cycle.
LEMMA ReadyCycle ==
    ASSUME ToolFollowerNext, pidReady',
           ~pidReady \/ (tool.known /\ linePlan.poses > 0 /\ UNCHANGED <<linePlan, tool, lineLimit>>)
    PROVE  PidCycle \/ (pidReady /\ UNCHANGED tfVars)
<1>1. CASE ToolActivate
  BY <1>1, Zenon DEF ToolActivate, FreshPid
<1>2. CASE ToolSetPlan
  BY <1>2, Zenon DEF ToolSetPlan, FreshPid
<1>3. CASE ToolSetSpeedLimit
  BY <1>3, Zenon DEF ToolSetSpeedLimit, tfVars
<1>4. CASE ToolCycle
  BY <1>4, Zenon DEF ToolCycle, Stopped
<1>5. CASE ToolMoves
  BY <1>5, Zenon DEF ToolMoves, tfVars
<1>6. CASE ToolReturns
  BY <1>6, Zenon DEF ToolReturns, tfVars
<1> QED  BY <1>1, <1>2, <1>3, <1>4, <1>5, <1>6 DEF ToolFollowerNext

LEMMA FirstCycle ==
    ASSUME ToolInv, ToolFollowerNext, ~pidReady, pidReady', planAge <= EntryIgnore
    PROVE  twist'.w = Within(-(Gain_p(tool.side) * tool.side), -MaxAngular, MaxAngular)
<1> DEFINE e == tool.side
           p == Gain_p(e) * e
<1>1. PidCycle
  BY ReadyCycle
<1>2. /\ integral' = Integrated(e, 1) /\ twist'.w = Steer(e, integral', Derivative(e, 1))
  <2>1. 1 = IF pidReady THEN Max({1, gap}) ELSE 1
    OBVIOUS
  <2> QED  BY <1>1, <2>1, CycleSteers
<1>3. e \in Int /\ planAge \in Nat /\ integral \in Int /\ integral = 0
  BY DEF ToolInv
<1> HIDE DEF e
<1>4. integral' = 0
  BY <1>2, <1>3, Summed
<1>5. Derivative(e, 1) = 0
  BY DEF Derivative
<1>6. p \in Int
  BY <1>3, Gains, Signs
<1>7. Steer(e, 0, 0) = Within(-(p + Ki * 0 + 0), -MaxAngular, MaxAngular)
  BY Zenon DEF Steer
<1> HIDE DEF p
<1>8. p + Ki * 0 + 0 = p
  BY <1>6, Numbers
<1> QED  BY <1>2, <1>4, <1>5, <1>7, <1>8, Zenon DEF e, p

\* A tool beside the line, with the error not falling and no windup of the other
\* side.
LEMMA TurnsToLine ==
    ASSUME ToolInv, ToolFollowerNext, tool.known, UNCHANGED <<linePlan, tool, lineLimit>>,
           pidReady, pidReady', tool.side * (tool.side - prevError) >= 0, tool.side * integral' >= 0,
           KpNear > 0, KpMid > 0, KpFar > 0
    PROVE  \/ UNCHANGED tfVars
           \/ /\ tool.side > 0 => twist'.w < 0
              /\ tool.side < 0 => twist'.w > 0
<1> SUFFICES ASSUME ~UNCHANGED tfVars
             PROVE  (tool.side > 0 => twist'.w < 0) /\ (tool.side < 0 => twist'.w > 0)
  OBVIOUS
<1> DEFINE e == tool.side
           dt == IF pidReady THEN Max({1, gap}) ELSE 1
           p == Gain_p(e) * e
           i == Ki * integral'
           d == Derivative(e, dt)
           x == p + i + d
<1>1. PidCycle
  <2>1. linePlan.poses > 0
    BY DEF ToolInv
  <2> QED  BY <2>1, ReadyCycle
<1>2. /\ dt \in Nat \ {0} /\ integral' = Integrated(e, dt) /\ twist'.w = Steer(e, integral', d)
  BY <1>1, CycleSteers
<1>3. e \in Int /\ planAge \in Nat /\ integral \in Int /\ prevError \in Int
  BY DEF ToolInv
<1>4. twist'.w = Within(-x, -MaxAngular, MaxAngular)
  BY ONLY <1>2, Zenon DEF Steer
<1>5. d = Quot(Kd * (e - prevError), dt)
  BY DEF Derivative
<1>6. e * (e - prevError) >= 0 /\ e * integral' >= 0
  OBVIOUS
<1> HIDE DEF e, dt
<1>7. integral' \in Int
  BY <1>2, <1>3, Summed
<1>8. e - prevError \in Int /\ Kd * (e - prevError) \in Int
  BY <1>3, Numbers, Signs
<1>9. d \in Int /\ (e > 0 => d >= 0) /\ (e < 0 => d <= 0)
  <2>1. (e > 0 => e - prevError >= 0) /\ (e < 0 => e - prevError <= 0)
    BY ONLY <1>3, <1>6, <1>8, Signs
  <2>2. (e > 0 => Kd * (e - prevError) >= 0) /\ (e < 0 => Kd * (e - prevError) <= 0)
    BY ONLY <1>3, <1>8, <2>1, Signs, Numbers
  <2> QED  BY ONLY <1>2, <1>5, <1>8, <2>2, QuotSign
<1>10. i \in Int /\ (e > 0 => i >= 0) /\ (e < 0 => i <= 0)
  <2>1. (e > 0 => integral' >= 0) /\ (e < 0 => integral' <= 0)
    BY ONLY <1>3, <1>6, <1>7, Signs
  <2> DEFINE g == integral'
  <2>2. g \in Int /\ (e > 0 => g >= 0) /\ (e < 0 => g <= 0)
    BY ONLY <1>7, <2>1
  <2> HIDE DEF g
  <2>3. Ki * g \in Int /\ (e > 0 => Ki * g >= 0) /\ (e < 0 => Ki * g <= 0)
    BY ONLY <1>3, <2>2, Signs, Numbers
  <2> QED  BY ONLY <2>3 DEF g
<1>11. p \in Int /\ (e > 0 => p > 0) /\ (e < 0 => p < 0)
  <2>1. Gain_p(e) \in Int /\ Gain_p(e) > 0
    BY <1>3, Gains, Numbers
  <2> QED  BY ONLY <1>3, <2>1, Signs
<1> HIDE DEF p, i, d
<1>12. x \in Int /\ (e > 0 => x > 0) /\ (e < 0 => x < 0)
  BY ONLY <1>3, <1>9, <1>10, <1>11
<1> HIDE DEF x
<1>13. twist'.w = IF -x < -MaxAngular THEN -MaxAngular ELSE IF -x > MaxAngular THEN MaxAngular ELSE -x
  <2>1. -x \in Int /\ -MaxAngular \in Int /\ MaxAngular \in Int /\ -MaxAngular <= MaxAngular
    BY <1>12, Numbers
  <2> QED  BY ONLY <1>4, <2>1, Clamped
<1> DEFINE w == twist'.w
<1>14. w = IF -x < -MaxAngular THEN -MaxAngular ELSE IF -x > MaxAngular THEN MaxAngular ELSE -x
  BY ONLY <1>13
<1> HIDE DEF w
<1>15. (e > 0 => w < 0) /\ (e < 0 => w > 0)
  BY ONLY <1>3, <1>12, <1>14, Numbers
<1> QED  BY ONLY <1>15 DEF e, w

\* For any swaths, gains and clamps with a proportional gain at every distance:
\* a robot that enters a swath steers by its distance alone, and a tool that is
\* off the line and not nearing it makes the robot turn to the line.
THEOREM ToolComesToLine ==
    ASSUME KpNear > 0, KpMid > 0, KpFar > 0
    PROVE  ToolSpec => ToolIsSteered
<1>1. ToolInv => (planAge <= EntryIgnore => integral = 0)
  BY DEF ToolInv
<1>2. ToolInv /\ [ToolFollowerNext]_tfVars =>
        [~pidReady /\ pidReady' /\ planAge <= EntryIgnore
          => twist'.w = Within(-(Gain_p(tool.side) * tool.side), -MaxAngular, MaxAngular)]_tfVars
  BY FirstCycle
<1>3. ToolInv /\ [ToolFollowerNext]_tfVars =>
        [/\ tool.known /\ UNCHANGED <<linePlan, tool, lineLimit>> /\ pidReady /\ pidReady'
         /\ tool.side * (tool.side - prevError) >= 0 /\ tool.side * integral' >= 0
         => /\ tool.side > 0 => twist'.w < 0
            /\ tool.side < 0 => twist'.w > 0]_tfVars
  BY TurnsToLine
<1> QED  BY ToolStart, ToolStep, <1>1, <1>2, <1>3, PTL DEF ToolSpec, ToolIsSteered, EntryIsCalm, SteersToLine

-----------------------------------------------------------------------------
(* The arc of a turn.  An angle that leaves a cycle's turn to the half turn  *)
(* keeps what has been swept within the half turn, where the difference of   *)
(* two yaws, wrapped, is what was swept.                                     *)

\* The behaviour alone; safety needs no fairness.
ArcSpec == ArcInit /\ [][ArcNext]_arcVars

ArcInv ==
    /\ arcGoal.angle \in Int /\ arcYaw0 \in Yaws /\ arcSwept \in Int
    /\ ArcIsSwept /\ StandsAfterArc

\* Remainders on either side of the first turn.
LEMMA WholeTurns ==
    ASSUME NEW n \in Nat \ {0}, NEW x \in Int, -n <= x, x < 2 * n
    PROVE  x % n = IF x < 0 THEN x + n ELSE IF x < n THEN x ELSE x - n
OBVIOUS

\* Two yaws tell what was swept between them, up to the half turn.
LEMMA SweptSeen ==
    ASSUME arcYaw0 \in Yaws, arcSwept \in Int, Size(arcSwept) <= HalfTurn
    PROVE  Size(AngleTraveled) = Size(arcSwept)
<1> USE ArcAssumption
<1> DEFINE n == 2 * HalfTurn
           a == arcYaw0 + arcSwept + HalfTurn - 1
<1>1. /\ n \in Nat \ {0} /\ a \in Int /\ -n <= a /\ a < 2 * n
      /\ arcYaw0 \in Int /\ -HalfTurn < arcYaw0 /\ arcYaw0 <= HalfTurn
      /\ -HalfTurn <= arcSwept /\ arcSwept <= HalfTurn
  BY DEF Yaws, Size
<1>2. a % n = IF a < 0 THEN a + n ELSE IF a < n THEN a ELSE a - n
  <2> HIDE DEF n, a
  <2> QED  BY ONLY <1>1, WholeTurns
<1> DEFINE z == (a % n) - HalfTurn + 1
           d == z - arcYaw0
<1>3. Normal(arcYaw0 + arcSwept) = z
  BY DEF Normal
<1>4. d = IF a < 0 THEN arcSwept + n ELSE IF a < n THEN arcSwept ELSE arcSwept - n
  <2>1. a - HalfTurn + 1 - arcYaw0 = arcSwept
    BY <1>1
  <2> HIDE DEF n, a
  <2> QED  BY ONLY <1>1, <1>2, <2>1, HalfTurn \in Nat
<1> HIDE DEF z, a
<1>5. AngleTraveled = Wrapped(d)
  BY <1>3 DEF AngleTraveled
<1> HIDE DEF d
<1>6. Size(Wrapped(d)) = Size(arcSwept)
  <2>1. CASE a < 0
    BY <1>1, <1>4, <2>1 DEF Wrapped, Size
  <2>2. CASE a >= n
    BY <1>1, <1>4, <2>2 DEF Wrapped, Size
  <2>3. CASE 0 <= a /\ a < n
    BY <1>1, <1>4, <2>3 DEF Wrapped, Size
  <2> QED  BY <1>1, <2>1, <2>2, <2>3
<1> QED  BY <1>5, <1>6

LEMMA CycleSweeps == ArcInv /\ OnCycleUpdate => ArcInv'
<1> SUFFICES ASSUME ArcInv, OnCycleUpdate PROVE ArcInv'
  OBVIOUS
<1> USE ArcAssumption
<1>1. arcPhase = "running" /\ UNCHANGED <<arcGoal, arcYaw0>>
  BY DEF OnCycleUpdate
<1> DEFINE asked == Size(arcGoal.angle)
<1>2. asked \in Nat
  BY DEF Size, ArcInv
<1>3. CASE Done
  <2>1. arcPhase' = "succeeded" /\ arcVel' = 0 /\ arcSwept' = arcSwept
    BY <1>3 DEF OnCycleUpdate
  <2>2. asked <= HalfTurn - MaxTurn => Size(arcSwept) >= asked /\ Size(arcSwept) <= asked + MaxTurn
    <3> SUFFICES ASSUME asked <= HalfTurn - MaxTurn
                 PROVE  Size(arcSwept) >= asked /\ Size(arcSwept) <= asked + MaxTurn
      OBVIOUS
    <3>1. Size(arcSwept) <= asked + MaxTurn
      BY DEF ArcInv, ArcIsSwept
    <3>2. Size(arcSwept) \in Nat
      BY DEF ArcInv, Size
    <3>3. Size(AngleTraveled) = Size(arcSwept)
      BY <1>2, <3>1, <3>2, SweptSeen DEF ArcInv
    <3> QED  BY <1>3, <3>1, <3>3 DEF Done
  <2> QED  BY <1>1, <2>1, <2>2 DEF ArcInv, ArcIsSwept, StandsAfterArc
<1>4. CASE ~Done
  <2>1. arcPhase' = "running" /\ \E k \in 0 .. MaxTurn : arcSwept' = arcSwept + k * Omega
    BY <1>4 DEF OnCycleUpdate
  <2>2. Omega \in {-1, 1}
    BY DEF Omega
  <2>3. PICK k \in 0 .. MaxTurn : arcSwept' = arcSwept + k \/ arcSwept' = arcSwept - k
    BY <2>1, <2>2 DEF ArcInv
  <2>4. asked <= HalfTurn - MaxTurn => Size(arcSwept') <= asked + MaxTurn
    <3> SUFFICES ASSUME asked <= HalfTurn - MaxTurn PROVE Size(arcSwept') <= asked + MaxTurn
      OBVIOUS
    <3>1. Size(arcSwept) <= asked + MaxTurn /\ Size(arcSwept) \in Nat
      BY DEF ArcInv, ArcIsSwept, Size
    <3>2. Size(AngleTraveled) = Size(arcSwept)
      BY <1>2, <3>1, SweptSeen DEF ArcInv
    <3>3. Size(arcSwept) < asked
      BY <1>2, <1>4, <3>1, <3>2 DEF Done
    <3> QED  BY <1>2, <2>3, <3>3 DEF Size, ArcInv
  <2>5. arcSwept' \in Int
    BY <2>3 DEF ArcInv
  <2> QED  BY <1>1, <2>1, <2>4, <2>5 DEF ArcInv, ArcIsSwept, StandsAfterArc
<1> QED  BY <1>3, <1>4

LEMMA ArcStep == ArcInv /\ [ArcNext]_arcVars => ArcInv'
<1> SUFFICES ASSUME ArcInv, [ArcNext]_arcVars PROVE ArcInv'
  OBVIOUS
<1> USE ArcAssumption
<1>1. CASE OnRun
  <2>1. PICK goal \in ArcGoals, yaw \in Yaws :
          arcGoal' = goal /\ arcYaw0' = yaw /\ arcSwept' = 0 /\ arcPhase' \in {"running", "rejected"}
    BY <1>1 DEF OnRun
  <2>2. goal.angle \in Int
    BY DEF ArcGoals
  <2> QED  BY <2>1, <2>2 DEF ArcInv, ArcIsSwept, StandsAfterArc, Size
<1>2. CASE Answer
  <2>1. arcPhase' = "idle" /\ arcGoal' = [angle |-> 0, forward |-> TRUE] /\ arcYaw0' = 0 /\ arcSwept' = 0
    BY <1>2 DEF Answer
  <2>2. arcGoal'.angle = 0
    BY <2>1, Zenon
  <2> QED  BY <2>1, <2>2 DEF ArcInv, ArcIsSwept, StandsAfterArc, Size, Yaws
<1>3. CASE TimeIsUp \/ PoseLost \/ ArcCancel
  <2>1. /\ arcPhase = "running" /\ UNCHANGED <<arcGoal, arcYaw0, arcSwept>>
        /\ arcPhase' = "tf_error" \/ (arcPhase' \in {"timeout", "cancelled"} /\ arcVel' = 0)
    BY <1>3 DEF TimeIsUp, PoseLost, ArcCancel
  <2> QED  BY <2>1 DEF ArcInv, ArcIsSwept, StandsAfterArc
<1>4. CASE UNCHANGED arcVars
  BY <1>4 DEF arcVars, ArcInv, ArcIsSwept, StandsAfterArc
<1> QED  BY <1>1, <1>2, <1>3, <1>4, CycleSweeps DEF ArcNext, ArcTask

\* An arc ends when the robot has swept it, no more than a cycle's turn beyond,
\* wherever the turn of the yaw lies, and a run that ended stands still.  This
\* is the safety part of ArcIsDriven.
THEOREM ArcSwept == ArcSpec => [](ArcIsSwept /\ StandsAfterArc)
<1>1. ArcInit => ArcInv
  <2> SUFFICES ASSUME ArcInit PROVE ArcInv
    OBVIOUS
  <2>1. arcGoal.angle = 0
    BY Zenon DEF ArcInit
  <2> QED  BY <2>1, ArcAssumption DEF ArcInit, ArcInv, ArcIsSwept, StandsAfterArc, Size, Yaws
<1>2. ArcInv => ArcIsSwept /\ StandsAfterArc
  BY DEF ArcInv
<1> QED  BY <1>1, <1>2, ArcStep, PTL DEF ArcSpec

-----------------------------------------------------------------------------
(* The bar that follows the row. *)

\* The bar alone; safety needs no fairness.
SliderSpec == SliderInit /\ [][SliderNext]_sliderVars

\* The command that reaches the actuator last.
LastSent == IF cmdTopic = <<>> THEN barCmd ELSE cmdTopic[Len(cmdTopic)]

\* While the row stays lost it is the command of the last row seen.
HoldsLast == rowLost => lastCmd = LastSent

SliderInv ==
    /\ cmdTopic \in Seq(Int) /\ lastCmd \in Int /\ msgAge \in Nat /\ detects \in Int
    /\ rowLost \in BOOLEAN /\ rowTopic \in BOOLEAN
    /\ RowLostTold /\ HoldsLast

\* A command is a number.
LEMMA Commands == ASSUME NEW x \in Int PROVE Clamp(x) \in Int
<1>1. SliderLimit \in Nat
  BY SliderAssumption
<1>2. Min({SliderLimit, x}) \in Int
  BY <1>1, OfTwo
<1> DEFINE m == Min({SliderLimit, x})
<1> HIDE DEF m
<1>3. m \in Int
  BY <1>2 DEF m
<1>4. Max({-SliderLimit, m}) \in Int
  BY <1>1, <1>3, OfTwo
<1> QED  BY <1>4 DEF Clamp, m

\* What the action property asks of a step.
KeepsCommand == rowLost' => lastCmd' = lastCmd

-----------------------------------------------------------------------------
\* A topic of limited depth keeps what is published last.
LEMMA Published ==
    ASSUME SliderInv, NEW c \in Int, PublishCmd(c)
    PROVE  cmdTopic' \in Seq(Int) /\ cmdTopic' # <<>> /\ cmdTopic'[Len(cmdTopic')] = c
<1> DEFINE q == Append(cmdTopic, c)
<1>1. q \in Seq(Int) /\ Len(q) = Len(cmdTopic) + 1 /\ q[Len(q)] = c /\ Len(cmdTopic) \in Nat
  BY DEF SliderInv
<1> HIDE DEF q
<1>2. SliderDepth \in Nat \ {0}
  BY SliderAssumption
<1>3. cmdTopic' = IF Len(q) > SliderDepth THEN Tail(q) ELSE q
  BY DEF PublishCmd, Kept, q
<1>4. CASE Len(q) > SliderDepth
  <2>1. Len(q) > 1
    BY <1>1, <1>2, <1>4
  <2>2. Tail(q) \in Seq(Int) /\ Len(Tail(q)) = Len(q) - 1 /\ Tail(q)[Len(q) - 1] = q[Len(q)]
    BY <1>1, <2>1
  <2>3. Tail(q) # <<>>
    BY <1>1, <2>1, <2>2
  <2> QED  BY <1>1, <1>3, <1>4, <2>2, <2>3
<1>5. CASE ~(Len(q) > SliderDepth)
  BY <1>1, <1>3, <1>5
<1> QED  BY <1>4, <1>5

\* The row is lost: the last command is sent again.
LEMMA LostHolds ==
    ASSUME SliderInv, HandleRowLost
    PROVE  /\ rowLost' = TRUE /\ rowTopic' = TRUE /\ lastCmd' = lastCmd
           /\ cmdTopic' \in Seq(Int) /\ HoldsLast'
<1>1. rowLost' = TRUE /\ rowTopic' = TRUE /\ lastCmd' = lastCmd /\ PublishCmd(lastCmd)
  BY DEF HandleRowLost
<1>2. cmdTopic' \in Seq(Int) /\ cmdTopic' # <<>> /\ cmdTopic'[Len(cmdTopic')] = lastCmd
  BY <1>1, Published DEF SliderInv
<1> QED  BY <1>1, <1>2 DEF HoldsLast, LastSent

LEMMA DetectKeeps == SliderInv /\ Detect => SliderInv' /\ KeepsCommand
<1> SUFFICES ASSUME SliderInv, Detect PROVE SliderInv' /\ KeepsCommand
  OBVIOUS
<1> USE SliderAssumption
<1>1. msgAge' = 0
  BY DEF Detect
<1>2. CASE detects = Lost
  <2>1. HandleRowLost /\ detects' = detects
    BY <1>2 DEF Detect
  <2> QED  BY <1>1, <2>1, LostHolds DEF SliderInv, RowLostTold, KeepsCommand
<1>3. CASE detects # Lost
  <2>1. /\ lastCmd' = Clamp(detects + CalOffset) /\ PublishCmd(lastCmd')
        /\ rowLost' = FALSE /\ rowTopic' = (rowTopic /\ ~rowLost)
    BY <1>3 DEF Detect
  <2>2. ~rowTopic' /\ rowTopic' \in BOOLEAN /\ ~rowLost' /\ rowLost' \in BOOLEAN
    BY <2>1, Zenon DEF SliderInv, RowLostTold
  <2>3. CalOffset \in Int /\ detects' = detects
    BY SliderAssumption DEF Detect
  <2>4. lastCmd' \in Int
    BY <2>1, <2>3, Commands DEF SliderInv
  <2>5. cmdTopic' \in Seq(Int)
    BY <2>1, <2>4, Published
  <2> QED  BY <1>1, <2>2, <2>3, <2>4, <2>5 DEF SliderInv, RowLostTold, HoldsLast, KeepsCommand
<1> QED  BY <1>2, <1>3

LEMMA WatchdogKeeps == SliderInv /\ Watchdog => SliderInv' /\ KeepsCommand
<1> SUFFICES ASSUME SliderInv, Watchdog PROVE SliderInv' /\ KeepsCommand
  OBVIOUS
<1>1. LostTimeout \in Nat
  BY SliderAssumption
<1>2. msgAge' = Min({msgAge + 1, LostTimeout + 1}) /\ UNCHANGED <<detects, barCmd>>
  BY DEF Watchdog
<1>3. msgAge' \in Nat
  <2> DEFINE older == msgAge + 1
             most == LostTimeout + 1
  <2>1. older \in Nat /\ most \in Nat
    BY <1>1 DEF SliderInv
  <2> HIDE DEF older, most
  <2>2. Min({older, most}) = IF older <= most THEN older ELSE most
    BY <2>1, OfTwo
  <2> QED  BY <1>2, <2>1, <2>2 DEF older, most
<1>4. CASE ~rowLost /\ msgAge' > LostTimeout
  <2>1. HandleRowLost
    BY <1>4 DEF Watchdog
  <2> QED  BY <1>2, <1>3, <2>1, LostHolds DEF SliderInv, RowLostTold, KeepsCommand
<1>5. CASE ~(~rowLost /\ msgAge' > LostTimeout)
  <2>1. UNCHANGED <<lastCmd, rowLost, rowTopic, cmdTopic>>
    BY <1>5 DEF Watchdog
  <2> QED  BY <1>2, <1>3, <1>5, <2>1 DEF SliderInv, RowLostTold, HoldsLast, LastSent, KeepsCommand
<1> QED  BY <1>4, <1>5

\* The actuator takes the commands in their order.
LEMMA BarKeeps == SliderInv /\ (BarCommand \/ BarMoves) => SliderInv' /\ KeepsCommand
<1> SUFFICES ASSUME SliderInv, BarCommand \/ BarMoves PROVE SliderInv' /\ KeepsCommand
  OBVIOUS
<1>1. UNCHANGED <<lastCmd, rowLost, rowTopic, msgAge, detects>>
  BY DEF BarCommand, BarMoves
<1>2. cmdTopic' \in Seq(Int) /\ LastSent' = LastSent
  <2>1. CASE BarMoves
    BY <2>1 DEF BarMoves, LastSent, SliderInv
  <2>2. CASE BarCommand
    <3>1. cmdTopic # <<>> /\ barCmd' = Head(cmdTopic) /\ cmdTopic' = Tail(cmdTopic) /\ cmdTopic \in Seq(Int)
      BY <2>2 DEF BarCommand, SliderInv
    <3>2. Len(cmdTopic) \in Nat \ {0} /\ Len(cmdTopic') = Len(cmdTopic) - 1 /\ cmdTopic' \in Seq(Int)
      BY <3>1
    <3>3. CASE Len(cmdTopic) = 1
      <4>1. cmdTopic' = <<>>
        BY <3>2, <3>3
      <4> QED  BY <3>1, <3>2, <3>3, <4>1 DEF LastSent
    <3>4. CASE Len(cmdTopic) > 1
      <4>1. cmdTopic'[Len(cmdTopic) - 1] = cmdTopic[Len(cmdTopic)]
        BY <3>1, <3>2, <3>4
      <4>2. cmdTopic' # <<>>
        BY <3>2, <3>4
      <4> QED  BY <3>1, <3>2, <4>1, <4>2 DEF LastSent
    <3> QED  BY <3>2, <3>3, <3>4
  <2> QED  BY <2>1, <2>2
<1> QED  BY <1>1, <1>2 DEF SliderInv, RowLostTold, HoldsLast, KeepsCommand

LEMMA SliderStep == SliderInv /\ [SliderNext]_sliderVars => SliderInv' /\ KeepsCommand
<1> SUFFICES ASSUME SliderInv, [SliderNext]_sliderVars PROVE SliderInv' /\ KeepsCommand
  OBVIOUS
<1>1. CASE RowChanges
  <2>1. UNCHANGED <<lastCmd, rowLost, rowTopic, msgAge, cmdTopic, barCmd>>
    BY <1>1 DEF RowChanges
  <2>2. detects' \in Int
    BY <1>1, SliderAssumption DEF RowChanges, Offsets, Lost, Silent
  <2> QED  BY <2>1, <2>2 DEF SliderInv, RowLostTold, HoldsLast, LastSent, KeepsCommand
<1>2. CASE UNCHANGED sliderVars
  BY <1>2 DEF sliderVars, SliderInv, RowLostTold, HoldsLast, LastSent, KeepsCommand
<1> QED  BY <1>1, <1>2, DetectKeeps, WatchdogKeeps, BarKeeps DEF SliderNext, SliderTask

\* The listeners know whether the row is lost, it counts as lost after the
\* timeout, and while it is the command of the last row seen stands and nothing
\* is on its way after it.  This is the safety part of BarHolds.
THEOREM BarStays == SliderSpec => []RowLostTold /\ BarFrozen
<1>1. SliderInit => SliderInv
  <2> SUFFICES ASSUME SliderInit PROVE SliderInv
    OBVIOUS
  <2>1. ~rowLost /\ ~rowTopic /\ rowLost \in BOOLEAN /\ rowTopic \in BOOLEAN
    BY Zenon DEF SliderInit
  <2>2. cmdTopic = <<>> /\ lastCmd = 0 /\ msgAge = 0 /\ detects = 0
    BY DEF SliderInit
  <2> QED  BY <2>1, <2>2, SliderAssumption DEF SliderInv, RowLostTold, HoldsLast
<1>2. SliderInv => RowLostTold /\ (rowLost => lastCmd = IF cmdTopic = <<>> THEN barCmd ELSE cmdTopic[Len(cmdTopic)])
  BY DEF SliderInv, HoldsLast, LastSent
<1>3. SliderInv /\ [SliderNext]_sliderVars => SliderInv'
  BY SliderStep
<1>4. SliderInv /\ [SliderNext]_sliderVars => [rowLost' => lastCmd' = lastCmd]_sliderVars
  BY SliderStep DEF KeepsCommand
<1> QED  BY <1>1, <1>2, <1>3, <1>4, PTL DEF SliderSpec, BarFrozen

-----------------------------------------------------------------------------
(* The segments of a path.  A search that starts at the current waypoint     *)
(* ends in the segment unless the robot is past its end, and of a waypoint's *)
(* segment all waypoints are left in one direction.  Both are inductions     *)
(* over the waypoints, proved from a least counterexample.                   *)

\* The controller alone; safety needs no fairness.
RsSpec == RsInit /\ [][RsNext]_rsVars

\* Waypoints that are a step apart, ahead or back.
Stepwise(p) == p \in Seq(Int) /\ \A i \in 1 .. Len(p) - 1 : p[i + 1] - p[i] \in {Ahead, -Back}

RsInv ==
    /\ Stepwise(rsPath) /\ rsIdx \in Nat /\ (rsPath # <<>> => rsIdx \in 1 .. Len(rsPath))
    /\ rsRobot.x \in Int /\ rsRobot.y \in -1 .. 1
    /\ rsLimit.value \in Nat
    /\ AimsWithinSegment

-----------------------------------------------------------------------------
LEMMA Lengths ==
    /\ Ahead \in Nat \ {0} /\ Back \in Nat \ {0} /\ DesiredV \in Nat
    /\ MinApproach \in Nat /\ ApproachDist \in Nat \ {0}
    /\ MinLook \in Nat \ {0} /\ MaxLook \in Nat \ {0}
BY RsAssumption

\* A set of numbers that is not empty has a least one.
LEMMA LeastNumber ==
    ASSUME NEW T \in SUBSET Nat, T # {}
    PROVE  \E n \in T : \A m \in T : n <= m
<1>1. IsWellFoundedOn(OpToRel(<, Nat), Nat)
  BY NatLessThanWellFounded
<1>2. PICK n \in T : \A m \in T : ~(<<m, n>> \in OpToRel(<, Nat))
  BY <1>1, WFMin
<1>3. \A m \in T : ~(m < n)
  BY <1>2 DEF OpToRel
<1> QED  BY <1>3

LEMMA MinOf ==
    ASSUME NEW T \in SUBSET Nat, T # {}
    PROVE  Min(T) \in T /\ \A m \in T : Min(T) <= m
<1>1. \E n \in T : \A m \in T : n <= m
  BY LeastNumber
<1> QED  BY <1>1 DEF Min

\* What is counted up to a number is a number, and one more or the same for the next.
LEMMA CountsOn ==
    ASSUME NEW P, NEW i \in Nat \ {0}
    PROVE  /\ IsFiniteSet(P \cap (1 .. i - 1)) /\ Cardinality(P \cap (1 .. i - 1)) \in Nat
           /\ Cardinality(P \cap (1 .. i)) = IF i \in P THEN Cardinality(P \cap (1 .. i - 1)) + 1
                                                        ELSE Cardinality(P \cap (1 .. i - 1))
<1>1. IsFiniteSet(1 .. i - 1)
  BY FS_Interval
<1>2. IsFiniteSet(P \cap (1 .. i - 1))
  BY <1>1, FS_Subset
<1>3. Cardinality(P \cap (1 .. i - 1)) \in Nat
  BY <1>2, FS_CardinalityType
<1>4. CASE i \in P
  <2>1. P \cap (1 .. i) = (P \cap (1 .. i - 1)) \cup {i}
    BY <1>4
  <2>2. i \notin P \cap (1 .. i - 1)
    OBVIOUS
  <2> QED  BY <1>2, <1>3, <1>4, <2>1, <2>2, FS_AddElement
<1>5. CASE i \notin P
  <2>1. P \cap (1 .. i) = P \cap (1 .. i - 1)
    BY <1>5
  <2> QED  BY <1>2, <1>3, <1>5, <2>1
<1> QED  BY <1>2, <1>3, <1>4, <1>5

\* The paths the controller is given are made of steps.
LEMMA PathsStep == ASSUME NEW p \in Paths PROVE Stepwise(p)
<1> USE Lengths
<1>1. CASE p \in {<<>>, <<0>>}
  <2>1. CASE p = <<>>
    BY <2>1 DEF Stepwise
  <2>2. CASE p = <<0>>
    <3>1. p \in Seq(Int) /\ Len(p) = 1
      BY <2>2
    <3> QED  BY <3>1 DEF Stepwise
  <2> QED  BY <1>1, <2>1, <2>2
<1>2. CASE \E s \in StepPaths : p = Waypoints(s)
  <2>1. PICK s \in StepPaths : p = Waypoints(s)
    BY <1>2
  <2>2. PICK n \in 1 .. MaxRsPoses : s \in [1 .. n -> {Ahead, -Back}]
    BY DEF StepPaths
  <2>3. n \in Nat \ {0} /\ Len(s) = n
    BY <2>2, RsAssumption
  <2> DEFINE P == {k \in 1 .. n : s[k] = Ahead}
             Q == {k \in 1 .. n : s[k] # Ahead}
             a(i) == Cardinality(P \cap (1 .. i - 1))
             b(i) == Cardinality(Q \cap (1 .. i - 1))
  <2>4. ASSUME NEW i \in 1 .. n + 1 PROVE p[i] = Ahead * a(i) - Back * b(i)
    <3>1. {k \in 1 .. i - 1 : s[k] = Ahead} = P \cap (1 .. i - 1)
      BY <2>3
    <3>2. {k \in 1 .. i - 1 : s[k] # Ahead} = Q \cap (1 .. i - 1)
      BY <2>3
    <3>3. p[i] = Ahead * Cardinality({k \in 1 .. i - 1 : s[k] = Ahead})
                    - Back * Cardinality({k \in 1 .. i - 1 : s[k] # Ahead})
      BY <2>1, <2>3 DEF Waypoints
    <3> QED  BY <3>1, <3>2, <3>3
  <2>5. ASSUME NEW i \in 1 .. n + 1 PROVE a(i) \in Nat /\ b(i) \in Nat
    <3> HIDE DEF P, Q
    <3>1. i \in Nat \ {0}
      BY <2>3
    <3> QED  BY <3>1, CountsOn, Zenon
  <2>6. ASSUME NEW i \in 1 .. n
        PROVE  \/ s[i] = Ahead /\ a(i + 1) = a(i) + 1 /\ b(i + 1) = b(i)
               \/ s[i] # Ahead /\ a(i + 1) = a(i) /\ b(i + 1) = b(i) + 1
    <3>1. i \in Nat \ {0} /\ i + 1 - 1 = i
      BY <2>3
    <3>2. a(i + 1) = IF i \in P THEN a(i) + 1 ELSE a(i)
      <4> HIDE DEF P
      <4>1. a(i + 1) = Cardinality(P \cap (1 .. i))
        BY <3>1
      <4> QED  BY <3>1, <4>1, CountsOn, Zenon
    <3>3. b(i + 1) = IF i \in Q THEN b(i) + 1 ELSE b(i)
      <4> HIDE DEF Q
      <4>1. b(i + 1) = Cardinality(Q \cap (1 .. i))
        BY <3>1
      <4> QED  BY <3>1, <4>1, CountsOn, Zenon
    <3>4. (i \in P <=> s[i] = Ahead) /\ (i \in Q <=> s[i] # Ahead)
      BY <3>1
    <3> HIDE DEF a, b, P, Q
    <3> QED  BY <3>2, <3>3, <3>4
  <2>7. p = [i \in 1 .. n + 1 |-> p[i]]
    BY <2>1, <2>3 DEF Waypoints
  <2> HIDE DEF a, b, P, Q
  <2>8. ASSUME NEW i \in 1 .. n + 1 PROVE p[i] \in Int
    BY <2>4, <2>5
  <2>9. p \in Seq(Int) /\ Len(p) = n + 1
    <3> DEFINE m == n + 1
    <3>1. m \in Nat
      BY <2>3
    <3> HIDE DEF m
    <3>2. p \in [1 .. m -> Int]
      BY <2>7, <2>8 DEF m
    <3>3. p \in Seq(Int) /\ Len(p) = m
      BY <3>1, <3>2
    <3> QED  BY <3>3 DEF m
  <2>10. ASSUME NEW i \in 1 .. n PROVE p[i + 1] - p[i] \in {Ahead, -Back}
    <3>1. i \in 1 .. n + 1 /\ i + 1 \in 1 .. n + 1
      BY <2>3
    <3>2. p[i] = Ahead * a(i) - Back * b(i) /\ p[i + 1] = Ahead * a(i + 1) - Back * b(i + 1)
      BY <2>4, <3>1
    <3>3. a(i) \in Nat /\ b(i) \in Nat
      BY <2>5, <3>1
    <3>4. CASE s[i] = Ahead /\ a(i + 1) = a(i) + 1 /\ b(i + 1) = b(i)
      <4>1. Ahead * (a(i) + 1) = Ahead * a(i) + Ahead /\ Ahead * a(i) \in Int /\ Back * b(i) \in Int
        BY <3>3
      <4> QED  BY <3>2, <3>3, <3>4, <4>1
    <3>5. CASE s[i] # Ahead /\ a(i + 1) = a(i) /\ b(i + 1) = b(i) + 1
      <4>1. Back * (b(i) + 1) = Back * b(i) + Back /\ Back * b(i) \in Int /\ Ahead * a(i) \in Int
        BY <3>3
      <4> QED  BY <3>2, <3>3, <3>5, <4>1
    <3> QED  BY <2>6, <3>4, <3>5
  <2> QED  BY <2>3, <2>9, <2>10 DEF Stepwise
<1> QED  BY <1>1, <1>2 DEF Paths

-----------------------------------------------------------------------------
\* Every waypoint is left ahead or back.
LEMMA Directions ==
    ASSUME Stepwise(rsPath), NEW i \in 1 .. Len(rsPath)
    PROVE  TangentYaw(i) \in {-1, 1} /\ IsReverse(i) \in BOOLEAN
<1> USE Lengths
<1>1. ASSUME NEW d \in {Ahead, -Back} PROVE Sign(d) \in {-1, 1}
  BY DEF Sign
<1>2. CASE Len(rsPath) < 2
  BY <1>2 DEF TangentYaw, IsReverse
<1>3. CASE Len(rsPath) >= 2 /\ i < Len(rsPath)
  <2>1. rsPath[i + 1] - rsPath[i] \in {Ahead, -Back}
    BY <1>3 DEF Stepwise
  <2> QED  BY <1>1, <1>3, <2>1 DEF TangentYaw, IsReverse
<1>4. CASE Len(rsPath) >= 2 /\ i = Len(rsPath)
  <2>1. i - 1 \in 1 .. Len(rsPath) - 1
    BY <1>4 DEF Stepwise
  <2>2. rsPath[i - 1 + 1] - rsPath[i - 1] \in {Ahead, -Back}
    BY <2>1 DEF Stepwise
  <2>3. rsPath[i] - rsPath[i - 1] \in {Ahead, -Back}
    BY <2>2
  <2> QED  BY <1>1, <1>4, <2>3 DEF TangentYaw, IsReverse
<1>5. Len(rsPath) \in Nat
  BY DEF Stepwise
<1> QED  BY <1>2, <1>3, <1>4, <1>5

\* A segment is driven in one direction to its end.
LEMMA SegmentEnds ==
    ASSUME Stepwise(rsPath), NEW i \in 1 .. Len(rsPath)
    PROVE  /\ SegmentEndIndex(i) \in i .. Len(rsPath)
           /\ \A k \in i .. SegmentEndIndex(i) : IsReverse(k) <=> IsReverse(i)
<1>1. Len(rsPath) \in Nat
  BY DEF Stepwise
<1> DEFINE Flips == {j \in i .. Len(rsPath) : j = Len(rsPath) \/ IsReverse(j + 1) # IsReverse(i)}
           end == SegmentEndIndex(i)
<1>2. Flips \in SUBSET Nat /\ Flips # {}
  BY <1>1
<1>3. end = Min(Flips)
  BY DEF SegmentEndIndex
<1>4. end \in Flips /\ \A j \in Flips : end <= j
  BY <1>2, <1>3, MinOf
<1> HIDE DEF end
<1> DEFINE Others == {k \in i .. end : IsReverse(k) # IsReverse(i)}
<1>5. Others = {}
  <2> SUFFICES ASSUME Others # {} PROVE FALSE
    OBVIOUS
  <2>1. PICK k \in Others : \A j \in Others : k <= j
    <3>1. Others \in SUBSET Nat
      BY <1>1, <1>4
    <3> HIDE DEF Others
    <3> QED  BY <3>1, LeastNumber
  <2>2. k \in i .. end /\ IsReverse(k) # IsReverse(i)
    BY <2>1
  <2>3. k # i
    BY <2>2
  <2>4. k - 1 \in i .. Len(rsPath) /\ k - 1 < end
    BY <1>1, <1>4, <2>2, <2>3
  <2>5. k - 1 \in Flips
    <3>1. k - 1 + 1 = k
      BY <2>2
    <3>2. IsReverse(k - 1 + 1) # IsReverse(i)
      BY <2>2, <3>1, Zenon
    <3>3. k - 1 \in i .. Len(rsPath)
      BY <2>4
    <3> QED  BY <3>2, <3>3, Zenon
  <2> HIDE DEF Flips
  <2>6. end <= k - 1
    BY <1>4, <2>5
  <2>7. end \in i .. Len(rsPath)
    BY <1>4 DEF Flips
  <2> QED  BY <1>1, <2>2, <2>4, <2>6, <2>7
<1>6. end \in i .. Len(rsPath)
  BY <1>4
<1>7. \A k \in i .. end : IsReverse(k) = IsReverse(i)
  BY <1>5
<1> QED  BY <1>6, <1>7 DEF end

LEMMA ArcsAreNumbers == ASSUME NEW i \in Nat, NEW j \in Nat PROVE Arc(i, j) \in Nat
<1> DEFINE S == {k \in i .. j - 1 : ~IsReverse(k)}
           T == {k \in i .. j - 1 : IsReverse(k)}
<1>1. IsFiniteSet(i .. j - 1)
  BY FS_Interval
<1>2. S \subseteq i .. j - 1 /\ T \subseteq i .. j - 1
  OBVIOUS
<1>3. Arc(i, j) = Ahead * Cardinality(S) + Back * Cardinality(T)
  BY DEF Arc
<1> HIDE DEF S, T
<1>4. Cardinality(S) \in Nat /\ Cardinality(T) \in Nat
  BY <1>1, <1>2, FS_Subset, FS_CardinalityType
<1> QED  BY <1>3, <1>4, Lengths

\* The search goes on to the end of the segment at most, or of the path for a
\* robot that is past it.
LEMMA SearchEnds ==
    ASSUME RsInv, rsPath # <<>>, NEW x \in Int
    PROVE  /\ SearchEnd(x) \in rsIdx .. Len(rsPath)
           /\ ~PastSegmentEnd(x) => SearchEnd(x) <= SegmentEndIndex(rsIdx)
<1> DEFINE end == IF PastSegmentEnd(x) THEN Len(rsPath) ELSE SegmentEndIndex(rsIdx)
           Stops(j) == /\ Arc(rsIdx, j) <= 3 * MaxLook
                       /\ j < end => Arc(rsIdx, j + 1) > 3 * MaxLook
<1>1. rsIdx \in 1 .. Len(rsPath) /\ Len(rsPath) \in Nat
  BY DEF RsInv, Stepwise
<1>2. end \in rsIdx .. Len(rsPath)
  BY <1>1, SegmentEnds DEF RsInv
<1>3. SearchEnd(x) = CHOOSE j \in rsIdx .. end : Stops(j)
  BY DEF SearchEnd
<1> HIDE DEF end
<1>4. Arc(rsIdx, rsIdx) = 0
  <2>1. rsIdx .. rsIdx - 1 = {}
    BY <1>1
  <2>2. {k \in rsIdx .. rsIdx - 1 : ~IsReverse(k)} = {} /\ {k \in rsIdx .. rsIdx - 1 : IsReverse(k)} = {}
    BY <2>1
  <2>3. Arc(rsIdx, rsIdx) = Ahead * 0 + Back * 0
    BY <2>2, FS_EmptySet DEF Arc
  <2> QED  BY <2>3, Lengths
<1>5. \E j \in rsIdx .. end : Stops(j)
  <2> DEFINE Far == {j \in rsIdx .. end : j = end \/ Arc(rsIdx, j + 1) > 3 * MaxLook}
  <2>1. Far \in SUBSET Nat
    BY <1>1, <1>2
  <2>2. end \in Far
    BY <1>1, <1>2
  <2>3. PICK j \in Far : \A m \in Far : j <= m
    <3> HIDE DEF Far
    <3> QED  BY <2>1, <2>2, LeastNumber
  <2>4. j \in rsIdx .. end /\ (j < end => Arc(rsIdx, j + 1) > 3 * MaxLook)
    BY <1>1, <1>2, <2>3
  <2>5. Arc(rsIdx, j) <= 3 * MaxLook
    <3>1. CASE j = rsIdx
      BY <1>4, <3>1, Lengths
    <3>2. CASE j # rsIdx
      <4>1. j - 1 \in rsIdx .. end /\ j - 1 # end /\ j - 1 + 1 = j /\ ~(j <= j - 1)
        BY <1>1, <1>2, <2>4, <3>2
      <4>2. j - 1 \notin Far
        <5> HIDE DEF Far
        <5> QED  BY <2>3, <4>1
      <4>3. ~(Arc(rsIdx, j) > 3 * MaxLook)
        BY <4>1, <4>2
      <4>4. Arc(rsIdx, j) \in Nat
        <5>1. rsIdx \in Nat /\ j \in Nat
          BY <1>1, <1>2, <2>4
        <5> QED  BY <5>1, ArcsAreNumbers, Zenon
      <4> QED  BY <4>3, <4>4, Lengths
    <3> QED  BY <3>1, <3>2
  <2> QED  BY <2>4, <2>5
<1> HIDE DEF Stops
<1>6. SearchEnd(x) \in rsIdx .. end
  BY <1>3, <1>5
<1> QED  BY <1>1, <1>2, <1>6 DEF end

\* The closest of the waypoints searched is one of them, and its target lies
\* between it and the end of its segment.
LEMMA ClosestFound ==
    ASSUME RsInv, rsPath # <<>>, NEW x \in Int
    PROVE  ClosestIndex(x) \in Searched(x) /\ Searched(x) \subseteq 1 .. Len(rsPath)
<1>1. rsIdx \in 1 .. Len(rsPath) /\ Len(rsPath) \in Nat /\ SearchEnd(x) \in rsIdx .. Len(rsPath)
  <2>1. rsIdx \in 1 .. Len(rsPath) /\ Len(rsPath) \in Nat
    BY DEF RsInv, Stepwise
  <2>2. SearchEnd(x) \in rsIdx .. Len(rsPath)
    BY SearchEnds, Zenon
  <2> QED  BY <2>1, <2>2
<1> DEFINE S == Searched(x)
           d(i) == Dist(x, rsPath[i])
<1>2. S \subseteq 1 .. Len(rsPath) /\ rsIdx \in S /\ \A i \in S : \A j \in rsIdx .. i : j \in S
  <2>1. S = rsIdx .. SearchEnd(x)
    BY DEF Searched
  <2> HIDE DEF S
  <2> QED  BY <1>1, <2>1
<1> HIDE DEF S
<1>3. \A i \in S : d(i) \in Nat
  <2>1. \A i \in S : rsPath[i] \in Int
    BY <1>2 DEF RsInv, Stepwise
  <2> QED  BY <2>1 DEF Dist
<1> HIDE DEF d
<1>4. PICK m \in S : \A j \in S : d(m) <= d(j)
  <2> DEFINE T == {d(i) : i \in S}
  <2>1. T \in SUBSET Nat /\ T # {}
    BY <1>2, <1>3
  <2> HIDE DEF T
  <2>2. PICK t \in T : \A u \in T : t <= u
    BY <2>1, LeastNumber
  <2> QED  BY <2>2 DEF T
<1>5. PICK i \in S : d(i) = d(m) /\ \A j \in S : d(j) = d(m) => i <= j
  <2> DEFINE T == {j \in S : d(j) = d(m)}
  <2>1. T \in SUBSET Nat /\ m \in T
    <3>1. S \in SUBSET Nat
      BY <1>1, <1>2
    <3>2. T \subseteq S /\ m \in T
      BY Zenon
    <3> HIDE DEF T
    <3> QED  BY <3>1, <3>2
  <2>2. PICK t \in T : \A u \in T : t <= u
    <3> HIDE DEF T
    <3> QED  BY <2>1, LeastNumber
  <2>3. t \in S /\ d(t) = d(m) /\ \A j \in S : d(j) = d(m) => t <= j
    BY <2>2
  <2> QED  BY <2>3
<1>6. \A j \in S : d(i) <= d(j)
  BY <1>4, <1>5
<1>7. \A j \in rsIdx .. i - 1 : d(i) < d(j)
  <2> SUFFICES ASSUME NEW j \in rsIdx .. i - 1 PROVE d(i) < d(j)
    OBVIOUS
  <2>1. j \in S /\ ~(i <= j)
    BY <1>1, <1>2
  <2>2. d(j) # d(i) /\ d(i) <= d(j)
    BY <1>5, <1>6, <2>1
  <2> QED  BY <1>3, <2>1, <2>2
<1>8. ClosestIndex(x) \in S
  BY <1>6, <1>7, Zenon DEF ClosestIndex, S, d
<1> QED  BY <1>2, <1>8 DEF S

LEMMA LooksWithin ==
    ASSUME Stepwise(rsPath), NEW i \in 1 .. Len(rsPath)
    PROVE  LookIndex(i) \in i .. SegmentEndIndex(i)
<1>1. Len(rsPath) \in Nat /\ SegmentEndIndex(i) \in i .. Len(rsPath)
  BY SegmentEnds DEF Stepwise
<1> DEFINE far == LookaheadIndex(i, Lookahead(i))
           T == {Len(rsPath)} \cup {j \in i + 1 .. Len(rsPath) : Arc(i, j) >= Lookahead(i)}
           end == SegmentEndIndex(i)
<1>2. far = Min(T)
  BY DEF LookaheadIndex
<1>3. T \in SUBSET Nat /\ T # {} /\ \A j \in T : j >= i
  BY <1>1
<1> HIDE DEF T, far
<1>4. far \in Nat /\ far >= i
  BY <1>2, <1>3, MinOf
<1>5. LookIndex(i) = Min({far, end})
  BY DEF LookIndex, far
<1> HIDE DEF end
<1>6. Min({far, end}) = IF far <= end THEN far ELSE end
  <2>1. far \in Int /\ end \in Int
    BY <1>1, <1>4 DEF end
  <2> QED  BY <2>1, OfTwo
<1> QED  BY <1>1, <1>4, <1>5, <1>6 DEF end

-----------------------------------------------------------------------------
\* A part of a number, rounded down, is no more than the number.
LEMMA PartOf ==
    ASSUME NEW l \in Nat, NEW d \in Nat, NEW a \in Nat \ {0}, d < a
    PROVE  (l * d) \div a \in Nat /\ (l * d) \div a <= l
<1>1. l * d <= l * a /\ l * d \in Nat /\ l * a \in Nat
  OBVIOUS
<1>2. (l * d) \div a \in Nat /\ ((l * d) \div a) * a <= l * d
  BY <1>1
<1>3. \A q \in Nat : q * a <= l * a => q <= l
  OBVIOUS
<1> QED  BY <1>1, <1>2, <1>3

\* The speed is a limit's share, but no less than the least to approach with.
LEMMA Speeds ==
    ASSUME RsInv, rsPath # <<>>
    PROVE  /\ Limited \in Nat /\ Speed \in Nat /\ DistToEnd \in Nat
           /\ Speed <= Max({MinApproach, Limited})
           /\ DistToEnd >= ApproachDist => Speed = Limited
<1> USE Lengths
<1>1. rsPath[Len(rsPath)] \in Int /\ rsLimit.value \in Nat
  BY DEF RsInv, Stepwise
<1>2. DistToEnd \in Nat
  BY <1>1 DEF DistToEnd, Dist, Last, RsInv
<1>3. Limited \in Nat
  BY <1>1 DEF Limited
<1> DEFINE share == (Limited * DistToEnd) \div ApproachDist
<1>4. CASE DistToEnd < ApproachDist
  <2>1. share \in Nat /\ share <= Limited
    BY <1>2, <1>3, <1>4, PartOf
  <2>2. Speed = Max({MinApproach, share})
    BY <1>4 DEF Speed
  <2> HIDE DEF share
  <2>3. Max({MinApproach, share}) = IF MinApproach >= share THEN MinApproach ELSE share
    BY <2>1, OfTwo
  <2>4. Max({MinApproach, Limited}) = IF MinApproach >= Limited THEN MinApproach ELSE Limited
    BY <1>3, OfTwo
  <2> QED  BY <1>2, <1>3, <1>4, <2>1, <2>2, <2>3, <2>4
<1>5. CASE ~(DistToEnd < ApproachDist)
  <2>1. Speed = Limited
    BY <1>5 DEF Speed
  <2>2. Max({MinApproach, Limited}) = IF MinApproach >= Limited THEN MinApproach ELSE Limited
    BY <1>3, OfTwo
  <2> QED  BY <1>2, <1>3, <2>1, <2>2
<1> QED  BY <1>4, <1>5

-----------------------------------------------------------------------------
\* What the action properties ask of a step.
CuspStep ==
    rsPath # <<>> /\ rsPath' = rsPath /\ rsIdx' # rsIdx =>
        /\ rsIdx' > rsIdx
        /\ LET end == SegmentEndIndex(rsIdx) IN
           rsIdx < end /\ rsIdx' > end => TangentYaw(end) * (rsRobot.x - rsPath[end]) > 0

SteerStep ==
    rsRobot'.x # rsRobot.x /\ rsCmd' # Idle =>
        rsCmd'.turn * Sign(rsCmd'.v) = -Sign(rsRobot.y)

LimitStep ==
    rsRobot'.x # rsRobot.x /\ rsCmd' # Idle /\ ~rsLimit.percent =>
        /\ Dist(rsCmd'.v, 0) <= Max({MinApproach, rsLimit.value})
        /\ Dist(rsCmd'.v, 0) <= Max({MinApproach, DesiredV})
        /\ DistToEnd >= ApproachDist => Dist(rsCmd'.v, 0) <= rsLimit.value

\* A cycle of the controller.
LEMMA CycleFollows ==
    RsInv /\ ComputeVelocityCommands => RsInv' /\ CuspStep /\ SteerStep /\ LimitStep
<1> SUFFICES ASSUME RsInv, ComputeVelocityCommands PROVE RsInv' /\ CuspStep /\ SteerStep /\ LimitStep
  OBVIOUS
<1> USE Lengths
<1>1. rsPath # <<>> /\ rsPath' = rsPath /\ rsLimit' = rsLimit
  BY DEF ComputeVelocityCommands
<1>2. rsRobot.x \in Int /\ rsRobot.y \in -1 .. 1 /\ Stepwise(rsPath) /\ rsIdx \in 1 .. Len(rsPath)
      /\ Len(rsPath) \in Nat
  BY <1>1 DEF RsInv, Stepwise
<1> DEFINE i == ClosestIndex(rsRobot.x)
           end == SegmentEndIndex(rsIdx)
<1>3. i \in Searched(rsRobot.x) /\ i \in 1 .. Len(rsPath)
  BY <1>1, <1>2, ClosestFound
<1>4. i >= rsIdx /\ i <= SearchEnd(rsRobot.x)
  BY <1>2, <1>3 DEF Searched
<1>5. /\ rsIdx' = i /\ rsCmd' = Steered(i)
      /\ \E k \in Min({1, Dist(rsCmd'.v, 0)}) .. Dist(rsCmd'.v, 0), y \in {rsRobot.y, 0} :
           rsRobot' = [x |-> rsRobot.x + k * Sign(rsCmd'.v), y |-> y]
  BY Zenon DEF ComputeVelocityCommands
<1>6. /\ rsCmd'.v = IF IsReverse(i) THEN -Speed ELSE Speed
      /\ rsCmd'.turn = IF Speed = 0 THEN 0 ELSE Turn(i)
      /\ rsCmd'.look = LookIndex(i)
  BY <1>5, Zenon DEF Steered
<1> HIDE DEF i
<1>7. Speed \in Nat /\ TangentYaw(i) \in {-1, 1} /\ (IsReverse(i) <=> TangentYaw(i) = -1)
  BY <1>1, <1>2, <1>3, Speeds, Directions DEF IsReverse
<1>8. rsCmd'.v = TangentYaw(i) * Speed /\ Dist(rsCmd'.v, 0) = Speed
  BY <1>6, <1>7 DEF Dist
<1>9. PICK k \in Int, y \in {rsRobot.y, 0} : rsRobot' = [x |-> rsRobot.x + k * Sign(rsCmd'.v), y |-> y]
  BY <1>5
<1>10. rsRobot'.x = rsRobot.x + k * Sign(rsCmd'.v) /\ rsRobot'.y = y
  BY <1>9, Zenon
<1>11. Sign(rsCmd'.v) \in {-1, 0, 1}
  BY <1>7, <1>8 DEF Sign
<1>12. AimsWithinSegment'
  <2> SUFFICES ASSUME rsCmd'.v # 0
               PROVE  /\ \A j \in i .. LookIndex(i) : IsReverse(j)' <=> rsCmd'.v < 0
                      /\ LookIndex(i) >= i
    BY <1>5, <1>6, Zenon DEF AimsWithinSegment, i
  <2>1. LookIndex(i) \in i .. SegmentEndIndex(i) /\ SegmentEndIndex(i) \in i .. Len(rsPath)
    BY <1>2, <1>3, LooksWithin, SegmentEnds
  <2>2. \A j \in i .. SegmentEndIndex(i) : IsReverse(j) <=> IsReverse(i)
    BY <1>2, <1>3, SegmentEnds
  <2>3. IsReverse(i) <=> rsCmd'.v < 0
    BY <1>7, <1>8
  <2>4. \A j : IsReverse(j)' <=> IsReverse(j)
    BY <1>1 DEF IsReverse, TangentYaw
  <2> QED  BY <1>3, <2>1, <2>2, <2>3, <2>4
<1>13. RsInv'
  <2>1. rsRobot'.x \in Int /\ rsRobot'.y \in -1 .. 1
    BY <1>2, <1>9, <1>10, <1>11
  <2>2. Stepwise(rsPath')
    BY <1>1, <1>2
  <2>3. rsIdx' \in 1 .. Len(rsPath') /\ rsIdx' \in Nat /\ rsLimit'.value \in Nat
    BY <1>1, <1>3, <1>5 DEF RsInv
  <2> QED  BY <1>12, <2>1, <2>2, <2>3 DEF RsInv
<1>14. CuspStep
  <2>1. rsIdx' = i
    BY <1>5 DEF i
  <2>2. i # rsIdx => i > rsIdx
    BY <1>2, <1>3, <1>4
  <2>3. rsIdx < end /\ i > end => TangentYaw(end) * (rsRobot.x - rsPath[end]) > 0
    <3> SUFFICES ASSUME rsIdx < end, i > end PROVE TangentYaw(end) * (rsRobot.x - rsPath[end]) > 0
      OBVIOUS
    <3>1. end \in rsIdx .. Len(rsPath)
      BY <1>2, SegmentEnds
    <3>2. SearchEnd(rsRobot.x) \in rsIdx .. Len(rsPath)
          /\ (~PastSegmentEnd(rsRobot.x) => SearchEnd(rsRobot.x) <= end)
      BY <1>1, <1>2, SearchEnds
    <3>3. PastSegmentEnd(rsRobot.x)
      BY <1>2, <1>3, <1>4, <3>1, <3>2
    <3>4. ~(rsIdx >= end)
      BY <1>2, <3>1
    <3> QED  BY <3>3, <3>4 DEF PastSegmentEnd
  <2> QED  BY <2>1, <2>2, <2>3 DEF CuspStep
<1>15. SteerStep
  <2> SUFFICES ASSUME rsRobot'.x # rsRobot.x PROVE rsCmd'.turn * Sign(rsCmd'.v) = -Sign(rsRobot.y)
    BY DEF SteerStep
  <2>1. Sign(rsCmd'.v) # 0
    BY <1>2, <1>9, <1>10
  <2>2. Speed > 0
    BY <1>7, <1>8, <2>1 DEF Sign
  <2>3. Sign(rsCmd'.v) = TangentYaw(i)
    BY <1>7, <1>8, <2>2 DEF Sign
  <2>4. rsCmd'.turn = -Sign(TangentYaw(i) * rsRobot.y)
    BY <1>6, <2>2 DEF Turn
  <2>5. CASE TangentYaw(i) = 1
    <3>1. rsCmd'.turn = -Sign(rsRobot.y) /\ Sign(rsRobot.y) \in {-1, 0, 1}
      BY <1>2, <2>4, <2>5 DEF Sign
    <3> QED  BY <2>3, <2>5, <3>1
  <2>6. CASE TangentYaw(i) = -1
    <3>1. rsCmd'.turn = Sign(rsRobot.y) /\ Sign(rsRobot.y) \in {-1, 0, 1}
      BY <1>2, <2>4, <2>6 DEF Sign
    <3> QED  BY <2>3, <2>6, <3>1
  <2> QED  BY <1>7, <2>5, <2>6
<1>16. LimitStep
  <2> SUFFICES ASSUME ~rsLimit.percent
               PROVE  /\ Speed <= Max({MinApproach, rsLimit.value})
                      /\ Speed <= Max({MinApproach, DesiredV})
                      /\ DistToEnd >= ApproachDist => Speed <= rsLimit.value
    BY <1>8 DEF LimitStep
  <2>1. rsLimit.value \in Nat
    BY DEF RsInv
  <2>2. Limited <= rsLimit.value /\ Limited <= DesiredV /\ Limited \in Nat
    BY <2>1 DEF Limited
  <2>3. Speed <= Max({MinApproach, Limited}) /\ (DistToEnd >= ApproachDist => Speed = Limited)
    BY <1>1, Speeds
  <2>4. \A l \in Nat : Max({MinApproach, l}) = IF MinApproach >= l THEN MinApproach ELSE l
    BY OfTwo
  <2> QED  BY <1>7, <2>1, <2>2, <2>3, <2>4
<1> QED  BY <1>13, <1>14, <1>15, <1>16

LEMMA RsStep == RsInv /\ [RsNext]_rsVars => RsInv' /\ [CuspStep /\ SteerStep /\ LimitStep]_rsVars
<1> SUFFICES ASSUME RsInv, [RsNext]_rsVars PROVE RsInv' /\ [CuspStep /\ SteerStep /\ LimitStep]_rsVars
  OBVIOUS
<1>1. CASE SetPlan
  <2>1. PICK p \in Paths \ {<<>>}, y \in -1 .. 1 : rsPath' = p /\ rsRobot' = [x |-> 0, y |-> y]
    BY <1>1 DEF SetPlan
  <2>2. rsRobot'.x = 0 /\ rsRobot'.y = y /\ rsCmd'.v = 0 /\ rsCmd' = Idle
    BY <1>1, <2>1, Zenon DEF SetPlan, Idle
  <2>3. Stepwise(rsPath') /\ rsPath' # <<>>
    BY <2>1, PathsStep
  <2>4. Len(rsPath') >= 1 /\ Len(rsPath') \in Nat
    BY <2>3 DEF Stepwise
  <2>5. rsIdx' = 1 /\ rsLimit' = rsLimit /\ rsPath = <<>>
    BY <1>1 DEF SetPlan
  <2>6. AimsWithinSegment'
    BY <2>2 DEF AimsWithinSegment
  <2>7. RsInv'
    BY <2>2, <2>3, <2>4, <2>5, <2>6 DEF RsInv
  <2> QED  BY <2>2, <2>5, <2>7 DEF CuspStep, SteerStep, LimitStep
<1>2. CASE GoalReached \/ Abandoned
  <2>1. rsPath' = <<>> /\ rsIdx' = 1 /\ rsRobot' = Home /\ rsCmd' = Idle /\ rsLimit' = rsLimit /\ rsPath # <<>>
    BY <1>2 DEF GoalReached, Abandoned, AtGoal
  <2>2. rsRobot'.x = 0 /\ rsRobot'.y = 0 /\ rsCmd'.v = 0
    BY <2>1, Zenon DEF Home, Idle
  <2>3. Stepwise(rsPath')
    BY <2>1 DEF Stepwise
  <2>4. AimsWithinSegment'
    BY <2>2 DEF AimsWithinSegment
  <2>5. RsInv'
    BY <2>1, <2>2, <2>3, <2>4 DEF RsInv
  <2> QED  BY <2>1, <2>5 DEF CuspStep, SteerStep, LimitStep
<1>3. CASE SetSpeedLimit \/ UNCHANGED rsVars
  <2>1. UNCHANGED <<rsPath, rsIdx, rsRobot, rsCmd>> /\ rsLimit'.value \in Nat
    BY <1>3, RsAssumption DEF SetSpeedLimit, rsVars, RsInv
  <2>2. AimsWithinSegment'
    BY <2>1 DEF RsInv, AimsWithinSegment, IsReverse, TangentYaw
  <2>3. RsInv'
    BY <2>1, <2>2 DEF RsInv
  <2> QED  BY <2>1, <2>3 DEF CuspStep, SteerStep, LimitStep
<1> QED  BY <1>1, <1>2, <1>3, CycleFollows DEF RsNext, RsTask

LEMMA RsStarts == RsInit => RsInv
<1> SUFFICES ASSUME RsInit PROVE RsInv
  OBVIOUS
<1>1. rsRobot.x = 0 /\ rsRobot.y = 0 /\ rsCmd.v = 0 /\ rsLimit.value = 1
  BY Zenon DEF RsInit, Home, Idle, NoLimit
<1>2. Stepwise(rsPath) /\ rsPath = <<>> /\ rsIdx = 1
  BY DEF RsInit, Stepwise
<1>3. AimsWithinSegment
  BY <1>1 DEF AimsWithinSegment
<1> QED  BY <1>1, <1>2, <1>3 DEF RsInv

\* On any path of steps ahead and back the robot aims within the segment it
\* drives, goes on to another only past the cusp, steers towards the path and
\* keeps the limit.  This is the safety part of FollowsSegments.
THEOREM PathIsFollowed == RsSpec => []AimsWithinSegment /\ DrivesToCusp /\ SteersBack /\ LimitKept
<1>1. RsInit => RsInv
  BY RsStarts
<1>2. RsInv => AimsWithinSegment
  BY DEF RsInv
<1>3. RsInv /\ [RsNext]_rsVars => RsInv'
  BY RsStep
<1>4. RsInv /\ [RsNext]_rsVars => [CuspStep]_rsVars /\ [SteerStep]_rsVars /\ [LimitStep]_rsVars
  BY RsStep
<1>5. [][CuspStep]_rsVars => DrivesToCusp
  BY DEF CuspStep, DrivesToCusp
<1>6. [][SteerStep]_rsVars => SteersBack
  BY DEF SteerStep, SteersBack
<1>7. [][LimitStep]_rsVars => LimitKept
  BY DEF LimitStep, LimitKept
<1> QED  BY <1>1, <1>2, <1>3, <1>4, <1>5, <1>6, <1>7, PTL DEF RsSpec

-----------------------------------------------------------------------------
(* The planners. *)

\* What f lists, from base on, by F.
Lists(f, base, F, n, D) == /\ f \in [0 .. n -> D] /\ f[0] = base
                           /\ \A i \in 1 .. n : f[i] = F[i][f[i - 1]]

\* A recursive function exists: F says how it goes on within D.
LEMMA ListsOn ==
    ASSUME NEW D, NEW base \in D, NEW N \in Nat, NEW F \in [1 .. N -> [D -> D]]
    PROVE  \E f : Lists(f, base, F, N, D)
<1> DEFINE Fails == {n \in 0 .. N : ~ \E f : Lists(f, base, F, n, D)}
<1>1. SUFFICES ASSUME Fails # {} PROVE FALSE
  OBVIOUS
<1>2. PICK n \in Fails : \A m \in Fails : n <= m
  <2>1. Fails \in SUBSET Nat
    OBVIOUS
  <2> HIDE DEF Fails
  <2> QED  BY <1>1, <2>1, LeastNumber
<1>3. CASE n = 0
  <2>1. [i \in 0 .. 0 |-> base] \in [0 .. 0 -> D]
    OBVIOUS
  <2>2. Lists([i \in 0 .. 0 |-> base], base, F, 0, D)
    BY DEF Lists
  <2> QED  BY <1>2, <1>3, <2>1, <2>2
<1>4. CASE n # 0
  <2>1. n \in 0 .. N /\ n - 1 \in 0 .. N /\ ~(n <= n - 1)
    BY <1>2, <1>4
  <2>2. PICK f : Lists(f, base, F, n - 1, D)
    BY <1>2, <2>1
  <2> DEFINE g == [i \in 0 .. n |-> IF i = n THEN F[n][f[n - 1]] ELSE f[i]]
  <2>3. F[n][f[n - 1]] \in D
    <3>1. f \in [0 .. n - 1 -> D]
      BY <2>2, Zenon DEF Lists
    <3>2. f[n - 1] \in D /\ n \in 1 .. N
      BY <1>4, <2>1, <3>1
    <3> QED  BY <3>2
  <2>4. g \in [0 .. n -> D]
    <3>1. f \in [0 .. n - 1 -> D]
      BY <2>2, Zenon DEF Lists
    <3> QED  BY <2>1, <2>3, <3>1
  <2>5. g[0] = base
    BY <1>4, <2>1, <2>2 DEF Lists
  <2>6. ASSUME NEW i \in 1 .. n PROVE g[i] = F[i][g[i - 1]]
    <3>1. g[i - 1] = f[i - 1]
      BY <2>1
    <3>2. CASE i = n
      BY <2>1, <3>1, <3>2
    <3>3. CASE i # n
      <4>1. i \in 1 .. n - 1
        BY <2>1, <3>3
      <4>2. f[i] = F[i][f[i - 1]]
        BY <2>2, <4>1 DEF Lists
      <4>3. g[i] = f[i]
        BY <3>3
      <4> QED  BY <3>1, <4>2, <4>3
    <3> QED  BY <3>2, <3>3
  <2> HIDE DEF g
  <2>8. Lists(g, base, F, n, D)
    BY <2>4, <2>5, <2>6, Zenon DEF Lists
  <2> QED  BY <1>2, <2>8
<1> QED  BY <1>3, <1>4

\* p does so, as long as it stays in D.
Follows(p, base, F, n, D) == p[0] = base /\ \A i \in 1 .. n : p[i - 1] \in D => p[i] = F[i][p[i - 1]]

\* There is no other.
LEMMA ListsOnce ==
    ASSUME NEW D, NEW base, NEW N \in Nat, NEW F, NEW f, Lists(f, base, F, N, D),
           NEW p, Follows(p, base, F, N, D)
    PROVE  \A i \in 0 .. N : p[i] = f[i]
<1> DEFINE Apart == {i \in 0 .. N : p[i] # f[i]}
<1>1. SUFFICES ASSUME Apart # {} PROVE FALSE
  OBVIOUS
<1>2. PICK k \in Apart : \A m \in Apart : k <= m
  <2>1. Apart \in SUBSET Nat
    OBVIOUS
  <2> HIDE DEF Apart
  <2> QED  BY <1>1, <2>1, LeastNumber
<1>3. k \in 0 .. N /\ p[k] # f[k]
  BY <1>2
<1>4. k # 0
  BY <1>3 DEF Lists, Follows
<1>5. k \in 1 .. N /\ k - 1 \in 0 .. N /\ ~(k <= k - 1)
  BY <1>3, <1>4
<1>6. p[k - 1] = f[k - 1] /\ f[k - 1] \in D
  <2>1. f \in [0 .. N -> D]
    BY Zenon DEF Lists
  <2> QED  BY <1>2, <1>5, <2>1
<1> QED  BY <1>3, <1>5, <1>6, Zenon DEF Lists, Follows

PlanPose == [x : Int, y : Int, h : 0 .. 3]
PlanMark == [pose : PlanPose, rev : BOOLEAN]
PlanPath == Seq(PlanMark)

\* A step leads from a pose of the grid to another, and back again.
LEMMA StepsOnGrid ==
    ASSUME NEW type \in Types, NEW ds \in {-1, 1}, NEW p \in PlanPose
    PROVE  /\ StepPose(type, ds, p) \in PlanPose
           /\ StepPose(type, -ds, StepPose(type, ds, p)) = p
<1>1. PICK x \in Int, y \in Int, h \in 0 .. 3 : p = [x |-> x, y |-> y, h |-> h]
  BY DEF PlanPose
<1>2. /\ Dir(0) = <<1, 0>> /\ Dir(1) = <<0, 1>> /\ Dir(2) = <<-1, 0>> /\ Dir(3) = <<0, -1>>
  BY DEF Dir
<1> DEFINE s == CASE type = "L" -> 1 [] type = "R" -> -1 [] type = "S" -> 0
           Near(u) == Dir((u.h + 1) % 4)
           Moved(e, u) == [x |-> u.x + e * Dir(u.h)[1] + s * Near(u)[1],
                           y |-> u.y + e * Dir(u.h)[2] + s * Near(u)[2], h |-> (u.h + e * s) % 4]
<1>3. s \in {-1, 0, 1}
  BY DEF Types
<1>4. \A e \in {-1, 1} : \A u : StepPose(type, e, u) = Moved(e, u)
  BY DEF StepPose
<1> HIDE DEF s
<1>6. Moved(ds, p) \in PlanPose /\ Moved(-ds, Moved(ds, p)) = p
  <2>1. ASSUME NEW e \in {-1, 1}, NEW k \in {-1, 0, 1}, s = k, ds = e
        PROVE  Moved(ds, p) \in PlanPose /\ Moved(-ds, Moved(ds, p)) = p
    <3>1. CASE e = 1 /\ k = 1
      BY <1>1, <1>2, <2>1, <3>1 DEF PlanPose
    <3>2. CASE e = 1 /\ k = -1
      BY <1>1, <1>2, <2>1, <3>2 DEF PlanPose
    <3>3. CASE e = 1 /\ k = 0
      BY <1>1, <1>2, <2>1, <3>3 DEF PlanPose
    <3>4. CASE e = -1 /\ k = 1
      BY <1>1, <1>2, <2>1, <3>4 DEF PlanPose
    <3>5. CASE e = -1 /\ k = -1
      BY <1>1, <1>2, <2>1, <3>5 DEF PlanPose
    <3>6. CASE e = -1 /\ k = 0
      BY <1>1, <1>2, <2>1, <3>6 DEF PlanPose
    <3> QED  BY <2>1, <3>1, <3>2, <3>3, <3>4, <3>5, <3>6
  <2> HIDE DEF Moved
  <2> QED  BY <1>3, <2>1
<1>7. ds \in {-1, 1} /\ -ds \in {-1, 1}
  OBVIOUS
<1> HIDE DEF Moved
<1> QED  BY <1>4, <1>6, <1>7

\* The poses of an arc are reached one from the other.
LEMMA PosesGoOn ==
    ASSUME NEW type \in Types, NEW ds \in {-1, 1}, NEW n \in Nat, NEW p \in PlanPose
    PROVE  /\ Poses(type, ds, n, p) \in [0 .. n -> PlanPose]
           /\ Poses(type, ds, n, p)[0] = p
           /\ \A k \in 1 .. n : Poses(type, ds, n, p)[k] = StepPose(type, ds, Poses(type, ds, n, p)[k - 1])
<1> DEFINE F == [k \in 1 .. n |-> [q \in PlanPose |-> StepPose(type, ds, q)]]
           IsPoses(at) == at = [k \in 0 .. n |-> IF k = 0 THEN p ELSE StepPose(type, ds, at[k - 1])]
<1>1. F \in [1 .. n -> [PlanPose -> PlanPose]]
  BY StepsOnGrid
<1> HIDE DEF F
<1>2. PICK f : Lists(f, p, F, n, PlanPose)
  BY <1>1, ListsOn
<1>3. \A k \in 1 .. n : f[k] = StepPose(type, ds, f[k - 1])
  <2> TAKE k \in 1 .. n
  <2>1. f[k] = F[k][f[k - 1]]
    BY <1>2, Zenon DEF Lists
  <2>2. f[k - 1] \in PlanPose
    <3>1. f \in [0 .. n -> PlanPose]
      BY <1>2, Zenon DEF Lists
    <3> QED  BY <3>1
  <2> QED  BY <2>1, <2>2 DEF F
<1>4. \A k \in 0 .. n : f[k] = IF k = 0 THEN p ELSE StepPose(type, ds, f[k - 1])
  <2> TAKE k \in 0 .. n
  <2>1. f[0] = p
    BY <1>2, Zenon DEF Lists
  <2>2. k # 0 => k \in 1 .. n
    OBVIOUS
  <2> QED  BY <1>3, <2>1, <2>2
<1>5. IsPoses(f)
  BY <1>2, <1>4, Zenon DEF Lists
<1> DEFINE at == Poses(type, ds, n, p)
<1>6. at = CHOOSE g : IsPoses(g)
  BY Zenon DEF Poses
<1> HIDE DEF at, IsPoses
<1>7. IsPoses(at)
  BY <1>5, <1>6, Zenon
<1>8. DOMAIN at = 0 .. n /\ \A k \in 0 .. n : at[k] = IF k = 0 THEN p ELSE StepPose(type, ds, at[k - 1])
  BY <1>7, Zenon DEF IsPoses
<1>9. at[0] = p /\ \A k \in 1 .. n : at[k] = StepPose(type, ds, at[k - 1])
  BY <1>8
<1>10. \A k \in 0 .. n : at[k] = f[k]
  <2>1. \A k \in 1 .. n : at[k - 1] \in PlanPose => at[k] = F[k][at[k - 1]]
    BY <1>9 DEF F
  <2>2. Follows(at, p, F, n, PlanPose)
    BY <1>9, <2>1, Zenon DEF Follows
  <2> QED  BY <1>2, <2>2, ListsOnce
<1>11. at \in [0 .. n -> PlanPose]
  <2>1. \A k \in 0 .. n : at[k] \in PlanPose
    <3>1. f \in [0 .. n -> PlanPose]
      BY <1>2, Zenon DEF Lists
    <3> QED  BY <1>10, <3>1
  <2>2. at = [k \in 0 .. n |-> at[k]]
    BY <1>7, Zenon DEF IsPoses
  <2> QED  BY <2>1, <2>2
<1> QED  BY <1>9, <1>11 DEF at

\* An arc driven back from its end leads to where it began.
LEMMA Retraces ==
    ASSUME NEW type \in Types, NEW ds \in {-1, 1}, NEW n \in Nat, NEW p \in PlanPose
    PROVE  Poses(type, -ds, n, Poses(type, ds, n, p)[n])[n] = p
<1> DEFINE f == Poses(type, ds, n, p)
<1>1. f \in [0 .. n -> PlanPose] /\ f[0] = p /\ \A k \in 1 .. n : f[k] = StepPose(type, ds, f[k - 1])
  BY PosesGoOn, Zenon
<1>2. f[n] \in PlanPose
  BY <1>1
<1> HIDE DEF f
<1>a. PICK e \in {-1, 1} : e = -ds
  OBVIOUS
<1>b. PICK u \in PlanPose : u = f[n]
  BY <1>2
<1> DEFINE g == Poses(type, e, n, u)
<1>3. g \in [0 .. n -> PlanPose] /\ g[0] = u /\ \A k \in 1 .. n : g[k] = StepPose(type, e, g[k - 1])
  BY PosesGoOn, Zenon
<1> HIDE DEF g
<1> DEFINE Astray == {k \in 0 .. n : g[k] # f[n - k]}
<1>4. Astray = {}
  <2> SUFFICES ASSUME Astray # {} PROVE FALSE
    OBVIOUS
  <2>1. PICK k \in Astray : \A m \in Astray : k <= m
    <3>1. Astray \in SUBSET Nat
      OBVIOUS
    <3> HIDE DEF Astray
    <3> QED  BY <3>1, LeastNumber
  <2>2. k # 0
    BY <1>b, <1>3, <2>1
  <2>3. k - 1 \in 0 .. n /\ k \in 1 .. n /\ g[k - 1] = f[n - (k - 1)] /\ n - (k - 1) \in 1 .. n
        /\ n - (k - 1) - 1 = n - k /\ n - k \in 0 .. n
    BY <2>1, <2>2
  <2>4. f[n - (k - 1)] = StepPose(type, ds, f[n - k]) /\ f[n - k] \in PlanPose
    BY <1>1, <2>3
  <2>5. g[k] = f[n - k]
    BY <1>a, <1>3, <2>3, <2>4, StepsOnGrid
  <2> QED  BY <2>1, <2>5
<1>5. g[n] = f[0]
  <2>1. n \in 0 .. n /\ n - n = 0
    OBVIOUS
  <2> QED  BY <1>4, <2>1
<1> QED  BY <1>1, <1>a, <1>b, <1>5 DEF f, g

\* Each waypoint is a step from the one before, the first from the start.
Connected(path) ==
    \A i \in 1 .. Len(path) : Drivable(IF i = 1 THEN Origin ELSE path[i - 1].pose, path[i])

\* q is the path and n waypoints more.
Advanced(q, path, type, ds, n) ==
    /\ q \in PlanPath /\ Len(q) = Len(path) + n
    /\ PoseAt(path) \in PlanPose /\ PoseAt(q) = Poses(type, ds, n, PoseAt(path))[n]
    /\ \A i \in 1 .. Len(path) : q[i] = path[i]
    /\ \A i \in Len(path) + 1 .. Len(path) + n : q[i].rev = (ds < 0)
    /\ Connected(path) => Connected(q)

\* More waypoints are as connected as those before, and driven one way.
LEMMA AdvanceKeeps ==
    ASSUME NEW path \in PlanPath, NEW type \in Types, NEW ds \in {-1, 1}, NEW n \in Nat
    PROVE  Advanced(Advance(path, type, ds, n), path, type, ds, n)
<1> DEFINE p == PoseAt(path)
           f == Poses(type, ds, n, p)
           more == [k \in 1 .. n |-> Waypoint(f[k], ds < 0)]
           m == Len(path)
           q == Advance(path, type, ds, n)
<1>1. p \in PlanPose /\ m \in Nat /\ (m # 0 => p = path[m].pose) /\ (m = 0 => p = Origin)
  <2>1. CASE path = <<>>
    BY <2>1 DEF PoseAt, PlanPath, PlanPose, Origin
  <2>2. CASE path # <<>>
    <3>1. m \in Nat \ {0}
      BY <2>2 DEF PlanPath
    <3>2. path[m] \in PlanMark
      <4>1. path \in Seq(PlanMark)
        BY DEF PlanPath
      <4> QED  BY <3>1, <4>1
    <3>3. p = path[m].pose
      BY <2>2 DEF PoseAt, Last
    <3> HIDE DEF p
    <3> QED  BY <3>1, <3>2, <3>3 DEF PlanMark
  <2> QED  BY <2>1, <2>2
<1> HIDE DEF p
<1>2. f \in [0 .. n -> PlanPose] /\ f[0] = p /\ \A k \in 1 .. n : f[k] = StepPose(type, ds, f[k - 1])
  <2>1. p \in PlanPose
    BY <1>1
  <2> QED  BY <2>1, PosesGoOn, Zenon
<1> HIDE DEF f
<1>3. more \in Seq(PlanMark) /\ Len(more) = n
      /\ \A k \in 1 .. n : more[k].pose = f[k] /\ more[k].rev = (ds < 0)
  <2>1. ASSUME NEW k \in 1 .. n
        PROVE  /\ Waypoint(f[k], ds < 0) \in PlanMark
               /\ Waypoint(f[k], ds < 0).pose = f[k] /\ Waypoint(f[k], ds < 0).rev = (ds < 0)
    BY <1>2 DEF Waypoint, PlanMark
  <2>2. more \in [1 .. n -> PlanMark]
    BY <2>1
  <2>3. \A k \in 1 .. n : more[k] = Waypoint(f[k], ds < 0)
    OBVIOUS
  <2> HIDE DEF more
  <2>4. more \in Seq(PlanMark) /\ Len(more) = n
    BY <2>2
  <2> QED  BY <2>1, <2>3, <2>4, Zenon
<1>4. q = path \o more
  BY DEF Advance, f, p
<1> HIDE DEF more, q
<1>5. q \in PlanPath /\ Len(q) = m + n
  <2>1. path \in Seq(PlanMark)
    BY DEF PlanPath
  <2>2. more \in Seq(PlanMark) /\ Len(more) = n
    BY <1>3
  <2>3. path \o more \in Seq(PlanMark) /\ Len(path \o more) = m + n
    BY <2>1, <2>2
  <2> QED  BY <1>4, <2>3 DEF PlanPath
<1>6. \A i \in 1 .. m : q[i] = path[i]
  <2>1. path \in Seq(PlanMark)
    BY DEF PlanPath
  <2> QED  BY <1>3, <1>4, <2>1
<1>7. \A i \in m + 1 .. m + n : q[i] = more[i - m] /\ i - m \in 1 .. n
  <2>1. path \in Seq(PlanMark)
    BY DEF PlanPath
  <2> QED  BY <1>1, <1>3, <1>4, <2>1
<1>8. PoseAt(q) = f[n]
  <2>1. CASE m + n = 0
    <3>1. q = <<>> /\ n = 0 /\ m = 0
      BY <1>1, <1>5, <2>1 DEF PlanPath
    <3> QED  BY <1>1, <1>2, <3>1 DEF PoseAt
  <2>2. CASE m + n # 0
    <3>1. q # <<>> /\ PoseAt(q) = q[m + n].pose
      BY <1>1, <1>5, <2>2 DEF PoseAt, Last
    <3>2. CASE n = 0
      BY <1>1, <1>2, <1>6, <2>2, <3>1, <3>2
    <3>3. CASE n # 0
      <4>1. m + n \in m + 1 .. m + n /\ m + n - m = n /\ n \in 1 .. n
        BY <1>1, <3>3
      <4> QED  BY <1>3, <1>7, <3>1, <4>1
    <3> QED  BY <3>2, <3>3
  <2> QED  BY <2>1, <2>2
<1>9. ASSUME Connected(path) PROVE Connected(q)
  <2> SUFFICES ASSUME NEW i \in 1 .. m + n
               PROVE  Drivable(IF i = 1 THEN Origin ELSE q[i - 1].pose, q[i])
    BY <1>5 DEF Connected
  <2>1. CASE i <= m
    <3>1. i \in 1 .. m /\ (i # 1 => i - 1 \in 1 .. m)
      BY <1>1, <2>1
    <3>2. q[i] = path[i] /\ (i # 1 => q[i - 1] = path[i - 1])
      BY <1>6, <3>1
    <3> QED  BY <1>9, <3>1, <3>2 DEF Connected
  <2>2. CASE i > m
    <3>1. i \in m + 1 .. m + n /\ i - m \in 1 .. n
      BY <1>1, <2>2
    <3>2. q[i].pose = StepPose(type, ds, f[i - m - 1]) /\ q[i].rev = (ds < 0)
      BY <1>2, <1>3, <1>7, <3>1
    <3>3. (IF i = 1 THEN Origin ELSE q[i - 1].pose) = f[i - m - 1]
      <4>1. CASE i = m + 1
        <5>1. i - m - 1 = 0 /\ i - 1 = m
          BY <1>1, <4>1
        <5>2. CASE m = 0
          BY <1>1, <1>2, <4>1, <5>1, <5>2
        <5>3. CASE m # 0
          BY <1>1, <1>2, <1>6, <4>1, <5>1, <5>3
        <5> QED  BY <5>2, <5>3
      <4>2. CASE i # m + 1
        <5>1. i - 1 \in m + 1 .. m + n /\ i # 1 /\ i - 1 - m = i - m - 1
          BY <1>1, <3>1, <4>2
        <5> QED  BY <1>3, <1>7, <5>1
      <4> QED  BY <4>1, <4>2
    <3>4. (IF q[i].rev THEN -1 ELSE 1) = ds
      <4>1. CASE ds = 1
        <5>1. (ds < 0) = FALSE
          BY <4>1
        <5> QED  BY <3>2, <4>1, <5>1, Zenon
      <4>2. CASE ds = -1
        <5>1. (ds < 0) = TRUE
          BY <4>2
        <5> QED  BY <3>2, <4>2, <5>1, Zenon
      <4> QED  BY <4>1, <4>2
    <3> QED  BY <3>2, <3>3, <3>4 DEF Drivable
  <2> QED  BY <1>1, <2>1, <2>2
<1>10. \A i \in m + 1 .. m + n : q[i].rev = (ds < 0)
  BY <1>3, <1>7
<1>11. PoseAt(q) = Poses(type, ds, n, p)[n]
  BY <1>8 DEF f
<1>12. Advanced(q, path, type, ds, n)
  BY <1>1, <1>5, <1>6, <1>9, <1>10, <1>11, Zenon DEF Advanced, p
<1> QED  BY <1>12 DEF q

LEMMA PathsOfNumbers == ASSUME NEW path \in PlanPath PROVE Len(path) \in Nat /\ path \in Seq(PlanMark)
BY DEF PlanPath

\* A segment has a direction and a length.
LEMMA SegmentSteps ==
    ASSUME NEW s \in Segments
    PROVE  /\ s.type \in Types /\ s.steps \in Int /\ SignOf(s.steps) \in {-1, 1}
           /\ Magnitude2(s.steps) \in Nat \ {0}
           /\ (SignOf(s.steps) < 0) = (s.steps < 0)
<1>1. s.type \in Types /\ s.steps \in Int /\ s.steps # 0
  BY PlannersAssumption DEF Segments
<1>2. CASE s.steps < 0
  BY <1>1, <1>2 DEF SignOf, Magnitude2
<1>3. CASE ~(s.steps < 0)
  BY <1>1, <1>3 DEF SignOf, Magnitude2
<1> QED  BY <1>2, <1>3, <1>1

\* What a segment makes of a path.
Continues(q, path, s) ==
    /\ q \in PlanPath /\ Len(q) > Len(path)
    /\ \A i \in 1 .. Len(path) : q[i] = path[i]
    /\ q[Len(path) + 1].rev = (s.steps < 0)
    /\ PoseAt(q) = SegmentEnd(s, PoseAt(path))
    /\ Connected(path) => Connected(q)

LEMMA AlongContinues ==
    ASSUME NEW path \in PlanPath, NEW s \in Segments
    PROVE  /\ Continues(Along(path, s), path, s)
           /\ Len(Along(path, s)) = Len(path) + Magnitude2(s.steps)
           /\ \A i \in Len(path) + 1 .. Len(Along(path, s)) : Along(path, s)[i].rev = (s.steps < 0)
<1> DEFINE q == Along(path, s)
<1>1. PICK e \in {-1, 1} : e = SignOf(s.steps) /\ (e < 0) = (s.steps < 0)
  BY SegmentSteps
<1>2. PICK n \in Nat \ {0} : n = Magnitude2(s.steps)
  BY SegmentSteps
<1>3. s.type \in Types /\ n \in Nat
  BY SegmentSteps
<1>4. q = Advance(path, s.type, e, n)
  BY <1>1, <1>2 DEF Along
<1> HIDE DEF q
<1>5. /\ q \in PlanPath /\ Len(q) = Len(path) + n
      /\ PoseAt(q) = Poses(s.type, e, n, PoseAt(path))[n]
      /\ \A i \in 1 .. Len(path) : q[i] = path[i]
      /\ \A i \in Len(path) + 1 .. Len(path) + n : q[i].rev = (e < 0)
      /\ Connected(path) => Connected(q)
  <2>1. Advanced(q, path, s.type, e, n)
    BY <1>3, <1>4, AdvanceKeeps, Zenon
  <2> QED  BY <2>1, Zenon DEF Advanced
<1>6. PoseAt(q) = SegmentEnd(s, PoseAt(path))
  BY <1>1, <1>2, <1>5 DEF SegmentEnd
<1>7. Len(path) + 1 \in Len(path) + 1 .. Len(path) + n /\ Len(q) > Len(path)
  BY <1>5, PathsOfNumbers
<1>8. Continues(q, path, s)
  BY <1>1, <1>5, <1>6, <1>7, Zenon DEF Continues
<1>9. Len(q) = Len(path) + Magnitude2(s.steps)
  BY <1>2, <1>5
<1>10. \A i \in Len(path) + 1 .. Len(q) : q[i].rev = (s.steps < 0)
  BY <1>1, <1>5, Zenon
<1> QED  BY <1>8, <1>9, <1>10, Zenon DEF q

\* q is the path and what leads back to its end, reverse first.
Returned(q, path, w, i) ==
    /\ q \in PlanPath /\ Len(q) >= Len(path) /\ PoseAt(q) = PoseAt(path)
    /\ \A k \in 1 .. Len(path) : q[k] = path[k]
    /\ Connected(path) => Connected(q)
    /\ Leadout > 0 /\ w[i].steps < 0 /\ NextIsForward(w, i)
       => Len(q) > Len(path) /\ q[Len(path) + 1].rev = TRUE

\* The leadout leads back to where the segment ended.
LEMMA LeadoutReturns ==
    ASSUME NEW path \in PlanPath, NEW w, NEW i, w[i].type \in Types
    PROVE  Returned(WithLeadout(path, w, i), path, w, i)
<1> DEFINE q == WithLeadout(path, w, i)
<1>1. CASE w[i].steps < 0 /\ NextIsForward(w, i)
  <2> DEFINE t == w[i].type
  <2>1. PICK e \in {-1, 1} : e = -1
    OBVIOUS
  <2>2. PICK f \in {-1, 1} : f = 1
    OBVIOUS
  <2>3. Leadout \in Nat /\ t \in Types
    BY PlannersAssumption
  <2> HIDE DEF t
  <2>4. PICK b : b = Advance(path, t, e, Leadout)
    OBVIOUS
  <2>5. q = Advance(b, t, f, Leadout)
    BY <1>1, <2>1, <2>2, <2>4, Zenon DEF WithLeadout, t
  <2> HIDE DEF q
  <2>6. /\ b \in PlanPath /\ Len(b) = Len(path) + Leadout
        /\ PoseAt(path) \in PlanPose /\ PoseAt(b) = Poses(t, e, Leadout, PoseAt(path))[Leadout]
        /\ \A k \in 1 .. Len(path) : b[k] = path[k]
        /\ \A k \in Len(path) + 1 .. Len(path) + Leadout : b[k].rev = (e < 0)
        /\ Connected(path) => Connected(b)
    <3>1. Advanced(b, path, t, e, Leadout)
      BY <2>3, <2>4, AdvanceKeeps, Zenon
    <3> QED  BY <3>1, Zenon DEF Advanced
  <2>7. /\ q \in PlanPath /\ Len(q) = Len(b) + Leadout
        /\ PoseAt(q) = Poses(t, f, Leadout, PoseAt(b))[Leadout]
        /\ \A k \in 1 .. Len(b) : q[k] = b[k]
        /\ Connected(b) => Connected(q)
    <3>1. Advanced(q, b, t, f, Leadout)
      BY <2>3, <2>5, <2>6, AdvanceKeeps, Zenon
    <3> QED  BY <3>1, Zenon DEF Advanced
  <2>8. PoseAt(q) = PoseAt(path)
    <3>1. f = -e

      <4>1. \A x, y \in Int : x + y = 0 => x = -y
        OBVIOUS
      <4>2. f \in Int /\ e \in Int /\ f + e = 0
        BY <2>1, <2>2
      <4> QED  BY <4>1, <4>2, Zenon
    <3>2. Poses(t, -e, Leadout, Poses(t, e, Leadout, PoseAt(path))[Leadout])[Leadout] = PoseAt(path)
      BY <2>3, <2>6, Retraces, Zenon
    <3> QED  BY <2>6, <2>7, <3>1, <3>2, Zenon
  <2>9. Len(path) \in Nat /\ Len(b) \in Nat /\ Len(q) \in Nat
    BY <2>6, <2>7, PathsOfNumbers, Zenon
  <2>10. Len(q) >= Len(path)
    BY <2>3, <2>6, <2>7, <2>9
  <2>11. ASSUME NEW k \in 1 .. Len(path) PROVE q[k] = path[k]
    <3>1. k \in 1 .. Len(b)
      BY <2>3, <2>6, <2>9
    <3> QED  BY <2>6, <2>7, <3>1, Zenon
  <2>12. ASSUME Leadout > 0 PROVE Len(q) > Len(path) /\ q[Len(path) + 1].rev = TRUE
    <3>1. Len(path) + 1 \in 1 .. Len(b) /\ Len(path) + 1 \in Len(path) + 1 .. Len(path) + Leadout
      BY <2>3, <2>6, <2>9, <2>12
    <3>2. (e < 0) = TRUE
      BY <2>1
    <3>3. q[Len(path) + 1].rev = TRUE
      BY <2>6, <2>7, <3>1, <3>2, Zenon
    <3>4. Len(q) > Len(path)
      BY <2>3, <2>6, <2>7, <2>9, <2>12
    <3> QED  BY <3>3, <3>4
  <2>13. Returned(q, path, w, i)
    BY <2>6, <2>7, <2>8, <2>10, <2>11, <2>12, Zenon DEF Returned
  <2> QED  BY <2>13 DEF q
<1>2. CASE ~(w[i].steps < 0 /\ NextIsForward(w, i))
  <2>1. q = path
    BY <1>2, Zenon DEF WithLeadout
  <2>2. Len(path) >= Len(path)
    BY PathsOfNumbers
  <2> QED  BY <1>2, <2>1, <2>2, Zenon DEF Returned
<1> QED  BY <1>1, <1>2, Zenon

\* So does a segment with its leadout.
LEMMA SampleContinues ==
    ASSUME NEW path \in PlanPath, NEW w, NEW i, w[i] \in Segments
    PROVE  Continues(WithLeadout(Along(path, w[i]), w, i), path, w[i])
<1>1. PICK a : a = Along(path, w[i])
  OBVIOUS
<1>2. PICK q : q = WithLeadout(a, w, i)
  OBVIOUS
<1>3. Continues(a, path, w[i])
  BY <1>1, AlongContinues, Zenon
<1>4. a \in PlanPath /\ Len(a) > Len(path) /\ w[i].type \in Types
  BY <1>3, SegmentSteps, Zenon DEF Continues
<1>5. /\ q \in PlanPath /\ Len(q) >= Len(a) /\ PoseAt(q) = PoseAt(a)
      /\ \A k \in 1 .. Len(a) : q[k] = a[k]
      /\ Connected(a) => Connected(q)
  <2>1. Returned(q, a, w, i)
    BY <1>2, <1>4, LeadoutReturns, Zenon
  <2> QED  BY <2>1, Zenon DEF Returned
<1>6. Len(path) \in Nat /\ Len(a) \in Nat /\ Len(q) \in Nat
  BY <1>4, <1>5, PathsOfNumbers, Zenon
<1>7. Len(q) > Len(path) /\ Len(path) + 1 \in 1 .. Len(a) /\ \A k \in 1 .. Len(path) : k \in 1 .. Len(a)
  BY <1>4, <1>5, <1>6
<1> QED  BY <1>1, <1>2, <1>3, <1>5, <1>7, Zenon DEF Continues

-----------------------------------------------------------------------------
\* A word's segments, whatever their number.
LEMMA WordsAreSequences == ASSUME NEW w \in Words PROVE w \in Seq(Segments)
<1>1. PICK n \in 0 .. MaxSegments : w \in [1 .. n -> Segments]
  BY DEF Words
<1>2. n \in Nat
  BY PlannersAssumption
<1> QED  BY <1>1, <1>2

\* The paths sampled up to each segment.
Samples(g, w) ==
    /\ g \in [0 .. Len(w) -> PlanPath] /\ g[0] = <<>>
    /\ \A i \in 1 .. Len(w) : Continues(g[i], g[i - 1], w[i])

LEMMA RsSamples ==
    ASSUME NEW w \in Seq(Segments)
    PROVE  \E g : /\ Samples(g, w) /\ SampleRsPath(w) = g[Len(w)]
                  /\ \A i \in 1 .. Len(w) : g[i] = WithLeadout(Along(g[i - 1], w[i]), w, i)
<1> DEFINE N == Len(w)
           Longer(i, path) == WithLeadout(Along(path, w[i]), w, i)
           F == [i \in 1 .. N |-> [path \in PlanPath |-> Longer(i, path)]]
           IsPath(g) == g = [i \in 0 .. N |-> IF i = 0 THEN <<>> ELSE Longer(i, g[i - 1])]
<1>1. N \in Nat /\ \A i \in 1 .. N : w[i] \in Segments
  OBVIOUS
<1>2. \A i \in 1 .. N, path \in PlanPath : Continues(Longer(i, path), path, w[i])
  BY <1>1, SampleContinues, Zenon
<1>3. F \in [1 .. N -> [PlanPath -> PlanPath]]
  <2>1. \A i \in 1 .. N, path \in PlanPath : Longer(i, path) \in PlanPath
    BY <1>2, Zenon DEF Continues
  <2> HIDE DEF Longer
  <2> QED  BY <2>1
<1>4. <<>> \in PlanPath
  BY DEF PlanPath
<1> HIDE DEF F
<1>5. PICK g : Lists(g, <<>>, F, N, PlanPath)
  BY <1>1, <1>3, <1>4, ListsOn, Zenon
<1> HIDE DEF N, Longer
<1>6. ASSUME NEW i \in 1 .. N PROVE g[i] = Longer(i, g[i - 1]) /\ g[i - 1] \in PlanPath
  <2>1. i - 1 \in 0 .. N
    BY <1>1
  <2>2. g[i - 1] \in PlanPath
    <3>1. g \in [0 .. N -> PlanPath]
      BY <1>5, Zenon DEF Lists
    <3> QED  BY <2>1, <3>1
  <2>3. g[i] = F[i][g[i - 1]]
    BY <1>5, Zenon DEF Lists
  <2> QED  BY <2>2, <2>3 DEF F
<1>7. \A i \in 0 .. N : i # 0 => i \in 1 .. N
  BY <1>1
<1>8. IsPath(g)
  BY <1>5, <1>6, <1>7, Zenon DEF Lists
<1> HIDE DEF IsPath
<1> DEFINE p == CHOOSE h : IsPath(h)
<1>9. SampleRsPath(w) = p[N]
  BY Zenon DEF SampleRsPath, IsPath, Longer, N
<1>10. IsPath(p)
  BY <1>8, Zenon
<1> HIDE DEF p
<1>11. p[0] = <<>> /\ \A i \in 1 .. N : p[i] = Longer(i, p[i - 1])
  <2>1. \A i \in 0 .. N : p[i] = IF i = 0 THEN <<>> ELSE Longer(i, p[i - 1])
    BY <1>10, Zenon DEF IsPath
  <2>2. 0 \in 0 .. N /\ \A i \in 1 .. N : i \in 0 .. N /\ i # 0
    BY <1>1
  <2> QED  BY <2>1, <2>2, Zenon
<1>12. \A i \in 0 .. N : p[i] = g[i]
  <2>1. \A i \in 1 .. N : p[i - 1] \in PlanPath => p[i] = F[i][p[i - 1]]
    BY <1>11 DEF F
  <2>2. Follows(p, <<>>, F, N, PlanPath)
    BY <1>11, <2>1, Zenon DEF Follows
  <2> QED  BY <1>1, <1>5, <2>2, ListsOnce
<1>13. N \in 0 .. N
  BY <1>1
<1>14. SampleRsPath(w) = g[N]
  BY <1>9, <1>12, <1>13
<1>15. \A i \in 1 .. N : Continues(g[i], g[i - 1], w[i])
  BY <1>2, <1>6, Zenon
<1>16. Samples(g, w)
  BY <1>5, <1>15, Zenon DEF Samples, Lists, N
<1> QED  BY <1>6, <1>14, <1>16, Zenon DEF N, Longer

LEMMA UniversalSamples ==
    ASSUME NEW w \in Seq(Segments)
    PROVE  \E g : Samples(g, w) /\ UniversalPath(w) = g[Len(w)]
<1> DEFINE N == Len(w)
           Longer(i, path) == Along(path, w[i])
           F == [i \in 1 .. N |-> [path \in PlanPath |-> Longer(i, path)]]
           IsPath(g) == g = [i \in 0 .. N |-> IF i = 0 THEN <<>> ELSE Longer(i, g[i - 1])]
<1>1. N \in Nat /\ \A i \in 1 .. N : w[i] \in Segments
  OBVIOUS
<1>2. \A i \in 1 .. N, path \in PlanPath : Continues(Longer(i, path), path, w[i])
  BY <1>1, AlongContinues, Zenon
<1>3. F \in [1 .. N -> [PlanPath -> PlanPath]]
  <2>1. \A i \in 1 .. N, path \in PlanPath : Longer(i, path) \in PlanPath
    BY <1>2, Zenon DEF Continues
  <2> HIDE DEF Longer
  <2> QED  BY <2>1
<1>4. <<>> \in PlanPath
  BY DEF PlanPath
<1> HIDE DEF F
<1>5. PICK g : Lists(g, <<>>, F, N, PlanPath)
  BY <1>1, <1>3, <1>4, ListsOn, Zenon
<1> HIDE DEF N, Longer
<1>6. ASSUME NEW i \in 1 .. N PROVE g[i] = Longer(i, g[i - 1]) /\ g[i - 1] \in PlanPath
  <2>1. i - 1 \in 0 .. N
    BY <1>1
  <2>2. g[i - 1] \in PlanPath
    <3>1. g \in [0 .. N -> PlanPath]
      BY <1>5, Zenon DEF Lists
    <3> QED  BY <2>1, <3>1
  <2>3. g[i] = F[i][g[i - 1]]
    BY <1>5, Zenon DEF Lists
  <2> QED  BY <2>2, <2>3 DEF F
<1>7. \A i \in 0 .. N : i # 0 => i \in 1 .. N
  BY <1>1
<1>8. IsPath(g)
  BY <1>5, <1>6, <1>7, Zenon DEF Lists
<1> HIDE DEF IsPath
<1> DEFINE p == CHOOSE h : IsPath(h)
<1>9. UniversalPath(w) = p[N]
  BY Zenon DEF UniversalPath, IsPath, Longer, N
<1>10. IsPath(p)
  BY <1>8, Zenon
<1> HIDE DEF p
<1>11. p[0] = <<>> /\ \A i \in 1 .. N : p[i] = Longer(i, p[i - 1])
  <2>1. \A i \in 0 .. N : p[i] = IF i = 0 THEN <<>> ELSE Longer(i, p[i - 1])
    BY <1>10, Zenon DEF IsPath
  <2>2. 0 \in 0 .. N /\ \A i \in 1 .. N : i \in 0 .. N /\ i # 0
    BY <1>1
  <2> QED  BY <2>1, <2>2, Zenon
<1>12. \A i \in 0 .. N : p[i] = g[i]
  <2>1. \A i \in 1 .. N : p[i - 1] \in PlanPath => p[i] = F[i][p[i - 1]]
    BY <1>11 DEF F
  <2>2. Follows(p, <<>>, F, N, PlanPath)
    BY <1>11, <2>1, Zenon DEF Follows
  <2> QED  BY <1>1, <1>5, <2>2, ListsOnce
<1>13. N \in 0 .. N
  BY <1>1
<1>14. UniversalPath(w) = g[N]
  BY <1>9, <1>12, <1>13
<1>15. \A i \in 1 .. N : Continues(g[i], g[i - 1], w[i])
  BY <1>2, <1>6, Zenon
<1>16. Samples(g, w)
  BY <1>5, <1>15, Zenon DEF Samples, Lists, N
<1> QED  BY <1>14, <1>16, Zenon DEF N

LEMMA SegmentEndsOnGrid == ASSUME NEW s \in Segments, NEW p \in PlanPose PROVE SegmentEnd(s, p) \in PlanPose
<1>1. PICK n \in Nat : n = Magnitude2(s.steps)
  BY SegmentSteps
<1>2. PICK e \in {-1, 1} : e = SignOf(s.steps)
  BY SegmentSteps
<1>3. s.type \in Types
  BY SegmentSteps
<1>4. Poses(s.type, e, n, p) \in [0 .. n -> PlanPose]
  BY <1>3, PosesGoOn, Zenon
<1>5. n \in 0 .. n
  OBVIOUS
<1> QED  BY <1>1, <1>2, <1>4, <1>5 DEF SegmentEnd

\* The poses at the ends of a word's segments.
LEMMA WordLeads ==
    ASSUME NEW w \in Seq(Segments)
    PROVE  \E g : /\ g \in [0 .. Len(w) -> PlanPose] /\ g[0] = Origin /\ WordEnd(w) = g[Len(w)]
                  /\ \A i \in 1 .. Len(w) : g[i] = SegmentEnd(w[i], g[i - 1])
<1> DEFINE N == Len(w)
           Longer(i, q) == SegmentEnd(w[i], q)
           F == [i \in 1 .. N |-> [q \in PlanPose |-> Longer(i, q)]]
           IsPath(g) == g = [i \in 0 .. N |-> IF i = 0 THEN Origin ELSE Longer(i, g[i - 1])]
<1>1. N \in Nat /\ \A i \in 1 .. N : w[i] \in Segments
  OBVIOUS
<1>2. \A i \in 1 .. N, q \in PlanPose : Longer(i, q) \in PlanPose
  BY <1>1, SegmentEndsOnGrid, Zenon
<1>3. F \in [1 .. N -> [PlanPose -> PlanPose]]
  <2> HIDE DEF Longer
  <2> QED  BY <1>2
<1>4. Origin \in PlanPose
  BY DEF PlanPose, Origin
<1> HIDE DEF F
<1>5. PICK g : Lists(g, Origin, F, N, PlanPose)
  BY <1>1, <1>3, <1>4, ListsOn, Zenon
<1> HIDE DEF N, Longer
<1>6. ASSUME NEW i \in 1 .. N PROVE g[i] = Longer(i, g[i - 1]) /\ g[i - 1] \in PlanPose
  <2>1. i - 1 \in 0 .. N
    BY <1>1
  <2>2. g[i - 1] \in PlanPose
    <3>1. g \in [0 .. N -> PlanPose]
      BY <1>5, Zenon DEF Lists
    <3> QED  BY <2>1, <3>1
  <2>3. g[i] = F[i][g[i - 1]]
    BY <1>5, Zenon DEF Lists
  <2> QED  BY <2>2, <2>3 DEF F
<1>7. \A i \in 0 .. N : i # 0 => i \in 1 .. N
  BY <1>1
<1>8. IsPath(g)
  BY <1>5, <1>6, <1>7, Zenon DEF Lists
<1> HIDE DEF IsPath
<1> DEFINE p == CHOOSE h : IsPath(h)
<1>9. WordEnd(w) = p[N]
  BY Zenon DEF WordEnd, IsPath, Longer, N
<1>10. IsPath(p)
  BY <1>8, Zenon
<1> HIDE DEF p
<1>11. p[0] = Origin /\ \A i \in 1 .. N : p[i] = Longer(i, p[i - 1])
  <2>1. \A i \in 0 .. N : p[i] = IF i = 0 THEN Origin ELSE Longer(i, p[i - 1])
    BY <1>10, Zenon DEF IsPath
  <2>2. 0 \in 0 .. N /\ \A i \in 1 .. N : i \in 0 .. N /\ i # 0
    BY <1>1
  <2> QED  BY <2>1, <2>2, Zenon
<1>12. \A i \in 0 .. N : p[i] = g[i]
  <2>1. \A i \in 1 .. N : p[i - 1] \in PlanPose => p[i] = F[i][p[i - 1]]
    BY <1>11 DEF F
  <2>2. Follows(p, Origin, F, N, PlanPose)
    BY <1>11, <2>1, Zenon DEF Follows
  <2> QED  BY <1>1, <1>5, <2>2, ListsOnce
<1>13. N \in 0 .. N
  BY <1>1
<1>14. WordEnd(w) = g[N]
  BY <1>9, <1>12, <1>13
<1> QED  BY <1>5, <1>6, <1>14, Zenon DEF N, Longer, Lists

\* What was sampled stays.
LEMMA SamplesStay ==
    ASSUME NEW w \in Seq(Segments), NEW g, Samples(g, w), NEW j \in 0 .. Len(w)
    PROVE  \A i \in j .. Len(w) : /\ Len(g[j]) <= Len(g[i])
                                  /\ \A k \in 1 .. Len(g[j]) : g[i][k] = g[j][k]
<1> DEFINE N == Len(w)
           Stays(i) == Len(g[j]) <= Len(g[i]) /\ \A k \in 1 .. Len(g[j]) : g[i][k] = g[j][k]
           Parted == {i \in j .. N : ~Stays(i)}
<1>1. N \in Nat
  OBVIOUS
<1>2. \A i \in 0 .. N : Len(g[i]) \in Nat
  <2>1. g \in [0 .. N -> PlanPath]
    BY Zenon DEF Samples
  <2> QED  BY <2>1, PathsOfNumbers
<1>3. SUFFICES ASSUME Parted # {} PROVE FALSE
  OBVIOUS
<1>4. PICK i \in Parted : \A m \in Parted : i <= m
  <2>1. Parted \in SUBSET Nat
    OBVIOUS
  <2> HIDE DEF Parted
  <2> QED  BY <1>3, <2>1, LeastNumber
<1>5. i \in j .. N /\ ~Stays(i)
  BY <1>4
<1>6. i # j
  BY <1>2, <1>5
<1>7. i \in 1 .. N /\ i - 1 \in j .. N /\ i - 1 \in 0 .. N /\ i \in 0 .. N /\ ~(i <= i - 1)
  BY <1>1, <1>5, <1>6
<1>8. Stays(i - 1)
  BY <1>4, <1>7
<1>9. Continues(g[i], g[i - 1], w[i])
  BY <1>7, Zenon DEF Samples
<1>10. Len(g[i]) > Len(g[i - 1]) /\ \A k \in 1 .. Len(g[i - 1]) : g[i][k] = g[i - 1][k]
  BY <1>9, Zenon DEF Continues
<1>11. Len(g[j]) <= Len(g[i])
  BY <1>2, <1>7, <1>8, <1>10
<1>12. \A k \in 1 .. Len(g[j]) : k \in 1 .. Len(g[i - 1])
  BY <1>2, <1>7, <1>8
<1> HIDE DEF N
<1>13. \A k \in 1 .. Len(g[j]) : g[i][k] = g[j][k]
  BY <1>8, <1>10, <1>12, Zenon
<1> QED  BY <1>5, <1>11, <1>13

\* The path is connected and leads where the word does; it starts in the word's
\* direction.
LEMMA WordIsDriven ==
    ASSUME NEW w \in Seq(Segments), NEW g, Samples(g, w)
    PROVE  /\ g[Len(w)] \in PlanPath /\ Connected(g[Len(w)]) /\ PoseAt(g[Len(w)]) = WordEnd(w)
           /\ w # <<>> => Len(g[Len(w)]) > 0 /\ g[Len(w)][1].rev = (w[1].steps < 0)
<1> DEFINE N == Len(w)
<1>1. N \in Nat /\ N \in 0 .. N
  OBVIOUS
<1>2. PICK e : /\ e[0] = Origin /\ WordEnd(w) = e[N]
               /\ \A i \in 1 .. N : e[i] = SegmentEnd(w[i], e[i - 1])
  BY WordLeads, Zenon
<1>3. \A i \in 0 .. N : g[i] \in PlanPath
  <2>1. g \in [0 .. N -> PlanPath]
    BY Zenon DEF Samples
  <2> QED  BY <2>1
<1> DEFINE Fits(i) == Connected(g[i]) /\ PoseAt(g[i]) = e[i]
           Unfit == {i \in 0 .. N : ~Fits(i)}
<1>4. Unfit = {}
  <2> SUFFICES ASSUME Unfit # {} PROVE FALSE
    OBVIOUS
  <2>1. PICK i \in Unfit : \A m \in Unfit : i <= m
    <3>1. Unfit \in SUBSET Nat
      OBVIOUS
    <3> HIDE DEF Unfit
    <3> QED  BY <3>1, LeastNumber
  <2>2. i \in 0 .. N /\ ~Fits(i)
    BY <2>1
  <2>3. i # 0
    <3>1. g[0] = <<>>
      BY Zenon DEF Samples
    <3>2. Connected(<<>>)
      BY DEF Connected
    <3>3. PoseAt(<<>>) = Origin
      BY DEF PoseAt
    <3> QED  BY <1>2, <2>2, <3>1, <3>2, <3>3, Zenon
  <2>4. i \in 1 .. N /\ i - 1 \in 0 .. N /\ ~(i <= i - 1)
    BY <1>1, <2>2, <2>3
  <2>5. Fits(i - 1)
    BY <2>1, <2>4
  <2>6. Continues(g[i], g[i - 1], w[i])
    BY <2>4, Zenon DEF Samples
  <2> QED  BY <1>2, <2>2, <2>4, <2>5, <2>6, Zenon DEF Continues
<1>5. Fits(N)
  BY <1>1, <1>4
<1>6. ASSUME w # <<>> PROVE Len(g[N]) > 0 /\ g[N][1].rev = (w[1].steps < 0)
  <2>1. 1 \in 1 .. N /\ 1 \in 0 .. N /\ N \in 1 .. N /\ 1 - 1 = 0
    BY <1>6
  <2>2. Continues(g[1], g[0], w[1]) /\ g[0] = <<>>
    BY <2>1, Zenon DEF Samples
  <2>3. Len(g[1]) > 0 /\ g[1][1].rev = (w[1].steps < 0)
    <3>1. Len(<<>>) = 0 /\ 0 + 1 = 1
      OBVIOUS
    <3> QED  BY <2>2, <3>1, Zenon DEF Continues
  <2>4. Len(g[1]) <= Len(g[N]) /\ \A k \in 1 .. Len(g[1]) : g[N][k] = g[1][k]
    BY <2>1, SamplesStay
  <2>5. Len(g[1]) \in Nat /\ Len(g[N]) \in Nat
    BY <1>1, <1>3, <2>1, PathsOfNumbers
  <2>6. Len(g[N]) > 0 /\ 1 \in 1 .. Len(g[1])
    BY <2>3, <2>4, <2>5
  <2> QED  BY <2>3, <2>4, <2>6, Zenon
<1> HIDE DEF N
<1>7. g[N] \in PlanPath /\ Connected(g[N]) /\ PoseAt(g[N]) = WordEnd(w)
  BY <1>1, <1>2, <1>3, <1>5, Zenon
<1> QED  BY <1>6, <1>7, Zenon DEF N

\* A word turned round is one, and starts the other way.
LEMMA NegatedWord ==
    ASSUME NEW w \in Words
    PROVE  Negated(w) \in Words /\ \A i \in 1 .. Len(w) : Negated(w)[i].steps = -w[i].steps
<1>1. PICK n \in 0 .. MaxSegments : w \in [1 .. n -> Segments]
  BY DEF Words
<1>2. n \in Nat /\ Len(w) = n /\ MaxSteps \in Nat
  BY <1>1, PlannersAssumption
<1>3. ASSUME NEW i \in 1 .. n
      PROVE  /\ Negated(w)[i] \in Segments /\ Negated(w)[i].type = w[i].type
             /\ Negated(w)[i].steps = -w[i].steps
  <2>1. Negated(w)[i] = [w[i] EXCEPT !.steps = -w[i].steps] /\ w[i] \in Segments
    BY <1>1, <1>2, <1>3 DEF Negated
  <2>2. -w[i].steps \in (-MaxSteps .. MaxSteps) \ {0}
    <3>1. w[i].steps \in (-MaxSteps .. MaxSteps) \ {0}
      BY <2>1 DEF Segments
    <3> QED  BY <1>2, <3>1
  <2> QED  BY <2>1, <2>2 DEF Segments
<1>4. Negated(w) = [i \in 1 .. n |-> Negated(w)[i]]
  BY <1>2 DEF Negated
<1>5. Negated(w) \in [1 .. n -> Segments]
  BY <1>3, <1>4
<1>6. Len(Negated(w)) = n
  BY <1>2, <1>5
<1>7. \A i \in 1 .. n - 1 : Negated(w)[i].type # Negated(w)[i + 1].type
  <2> TAKE i \in 1 .. n - 1
  <2>1. i \in 1 .. n /\ i + 1 \in 1 .. n /\ i \in 1 .. Len(w) - 1
    BY <1>2
  <2>2. w[i].type # w[i + 1].type
    BY <2>1 DEF Words
  <2> QED  BY <1>3, <2>1, <2>2
<1>8. Negated(w) \in Words
  <2>1. Negated(w) \in UNION {[1 .. m -> Segments] : m \in 0 .. MaxSegments}
    BY <1>5
  <2> QED  BY <1>6, <1>7, <2>1 DEF Words
<1> QED  BY <1>2, <1>3, <1>8

\* A path that begins in reverse goes on in reverse for two waypoints.
LEMMA ReverseGoesOn ==
    ASSUME NEW w \in Seq(Segments), w # <<>>, w[1].steps < 0, Leadout > 0
    PROVE  ~SampledForward(SampleRsPath(w))
<1> DEFINE N == Len(w)
<1>1. 1 \in 1 .. N /\ 1 \in 0 .. N /\ N \in 1 .. N /\ 1 - 1 = 0 /\ N \in Nat /\ w[1] \in Segments
  OBVIOUS
<1>2. PICK g : /\ Samples(g, w) /\ SampleRsPath(w) = g[N]
               /\ \A i \in 1 .. N : g[i] = WithLeadout(Along(g[i - 1], w[i]), w, i)
  BY RsSamples, Zenon
<1>3. g[0] = <<>> /\ g[1] = WithLeadout(Along(<<>>, w[1]), w, 1)
  BY <1>1, <1>2, Zenon DEF Samples
<1> DEFINE a == Along(<<>>, w[1])
           m == Magnitude2(w[1].steps)
<1>4. /\ a \in PlanPath /\ Len(a) = m /\ m \in Nat \ {0}
      /\ \A i \in 1 .. m : a[i].rev = TRUE
  <2>1. <<>> \in PlanPath /\ Len(<<>>) = 0
    BY DEF PlanPath
  <2>2. /\ Continues(a, <<>>, w[1]) /\ Len(a) = Len(<<>>) + m
        /\ \A i \in Len(<<>>) + 1 .. Len(a) : a[i].rev = (w[1].steps < 0)
    BY <1>1, <2>1, AlongContinues, Zenon
  <2>3. m \in Nat \ {0} /\ w[1].steps \in Int
    BY <1>1, SegmentSteps
  <2> HIDE DEF a, m
  <2>4. Len(a) = m /\ \A i \in 1 .. m : i \in Len(<<>>) + 1 .. Len(a)
    BY <2>1, <2>2, <2>3
  <2>5. (w[1].steps < 0) = TRUE
    BY <2>3
  <2>6. \A i \in 1 .. m : a[i].rev = TRUE
    BY <2>2, <2>4, <2>5, Zenon
  <2> QED  BY <2>2, <2>3, <2>4, <2>6, Zenon DEF Continues
<1> HIDE DEF a, m
<1>5. Returned(g[1], a, w, 1)
  <2>1. w[1].type \in Types
    BY <1>1, SegmentSteps
  <2> QED  BY <1>3, <1>4, <2>1, LeadoutReturns, Zenon DEF a
<1>6. \A i \in 1 .. N : Len(g[i]) <= Len(g[N]) /\ \A k \in 1 .. Len(g[i]) : g[N][k] = g[i][k]
  <2> TAKE i \in 1 .. N
  <2>1. i \in 0 .. N /\ N \in i .. N
    BY <1>1
  <2> QED  BY <1>2, <2>1, SamplesStay
<1>7. \A i \in 0 .. N : Len(g[i]) \in Nat
  <2>1. g \in [0 .. N -> PlanPath]
    BY <1>2, Zenon DEF Samples
  <2> QED  BY <2>1, PathsOfNumbers
<1> HIDE DEF N
<1>8. CASE m # 1
  <2>1. Len(g[1]) >= Len(a) /\ \A k \in 1 .. Len(a) : g[1][k] = a[k]
    BY <1>5, Zenon DEF Returned
  <2>2. 2 \in 1 .. m /\ 2 \in 1 .. Len(g[1])
    BY <1>1, <1>4, <1>7, <1>8, <2>1
  <2>3. g[N][2].rev = TRUE
    BY <1>1, <1>4, <1>6, <2>1, <2>2, Zenon
  <2> QED  BY <1>2, <2>3, Zenon DEF SampledForward
<1>9. CASE m = 1 /\ N = 1
  <2>1. ~NextIsForward(w, 1)
    BY <1>9 DEF NextIsForward, N
  <2>2. g[1] = a
    BY <1>3, <2>1, Zenon DEF WithLeadout, a
  <2>3. ~(Len(g[N]) >= 2)
    <3>1. Len(g[N]) = 1
      BY <1>4, <1>9, <2>2, Zenon
    <3> QED  BY <3>1
  <2> QED  BY <1>2, <2>3, Zenon DEF SampledForward
<1>10. CASE m = 1 /\ N # 1 /\ NextIsForward(w, 1)
  <2>1. Len(g[1]) > Len(a) /\ g[1][Len(a) + 1].rev = TRUE
    BY <1>5, <1>10, Zenon DEF Returned
  <2>2. Len(a) + 1 = 2 /\ 2 \in 1 .. Len(g[1])
    BY <1>1, <1>4, <1>7, <1>10, <2>1
  <2>3. g[N][2].rev = TRUE
    <3>1. g[1][2].rev = TRUE
      BY <2>1, <2>2, Zenon
    <3>2. 1 \in 1 .. N
      BY <1>1
    <3> QED  BY <1>6, <2>2, <3>1, <3>2, Zenon
  <2> QED  BY <1>2, <2>3, Zenon DEF SampledForward
<1>11. CASE m = 1 /\ N # 1 /\ ~NextIsForward(w, 1)
  <2>1. g[1] = a
    BY <1>3, <1>11, Zenon DEF WithLeadout, a
  <2>2. 2 \in 1 .. N /\ 2 \in 0 .. N /\ 2 - 1 = 1 /\ 1 < N /\ 1 + 1 = 2
    <3>1. N > 1
      BY <1>1, <1>11
    <3> QED  BY <1>1, <3>1
  <2>3. w[2] \in Segments /\ ~(w[2].steps > 0)
    BY <1>11, <2>2 DEF NextIsForward, N
  <2>4. (w[2].steps < 0) = TRUE
    <3>1. w[2].steps \in Int /\ w[2].steps # 0
      BY <2>3, PlannersAssumption DEF Segments
    <3> QED  BY <2>3, <3>1
  <2>5. Continues(g[2], g[1], w[2])
    <3>1. Continues(g[2], g[2 - 1], w[2])
      BY <1>2, <2>2, Zenon DEF Samples, N
    <3> QED  BY <2>2, <3>1, Zenon
  <2>6. Len(g[2]) > Len(g[1]) /\ g[2][Len(g[1]) + 1].rev = TRUE
    BY <2>4, <2>5, Zenon DEF Continues
  <2>7. Len(g[1]) + 1 = 2 /\ 2 \in 1 .. Len(g[2])
    <3>1. Len(g[1]) = 1 /\ Len(g[2]) \in Nat
      BY <1>4, <1>7, <1>11, <2>1, <2>2, Zenon
    <3> QED  BY <2>6, <3>1
  <2>8. g[N][2].rev = TRUE
    BY <1>6, <2>2, <2>6, <2>7, Zenon
  <2> QED  BY <1>2, <2>8, Zenon DEF SampledForward
<1> QED  BY <1>8, <1>9, <1>10, <1>11

\* Where forward is asked for, the first waypoint is driven forward.
LEMMA ForwardStarts ==
    ASSUME NEW w \in Words, w # <<>>
    PROVE  /\ ForwardFirst(w) \in Words
           /\ SampleRsPath(ForwardFirst(w)) \in PlanPath /\ Len(SampleRsPath(ForwardFirst(w))) > 0
           /\ Leadout > 0 => SampleRsPath(ForwardFirst(w))[1].rev = FALSE
<1> DEFINE v == ForwardFirst(w)
<1>1. w \in Seq(Segments) /\ Negated(w) \in Words
  BY WordsAreSequences, NegatedWord
<1>2. v \in Words /\ v # <<>>
  <2>1. Negated(w) # <<>>
    <3>1. DOMAIN Negated(w) = 1 .. Len(w) /\ 1 \in 1 .. Len(w)
      BY <1>1 DEF Negated
    <3>2. 1 \notin DOMAIN <<>>
      OBVIOUS
    <3> QED  BY <3>1, <3>2
  <2> QED  BY <1>1, <2>1 DEF ForwardFirst
<1>3. v \in Seq(Segments)
  BY <1>2, WordsAreSequences
<1> HIDE DEF v
<1>4. PICK g : Samples(g, v) /\ SampleRsPath(v) = g[Len(v)]
  BY <1>3, RsSamples, Zenon
<1>5. g[Len(v)] \in PlanPath /\ Len(g[Len(v)]) > 0 /\ g[Len(v)][1].rev = (v[1].steps < 0)
  BY <1>2, <1>3, <1>4, WordIsDriven, Zenon
<1>6. ASSUME Leadout > 0 PROVE (v[1].steps < 0) = FALSE
  <2>1. 1 \in 1 .. Len(w) /\ w[1].steps \in Int /\ w[1].steps # 0
    <3>1. 1 \in 1 .. Len(w) /\ w[1] \in Segments
      BY <1>1
    <3> QED  BY <3>1, PlannersAssumption DEF Segments
  <2>2. CASE w[1].steps < 0
    <3>1. v = Negated(w)
      BY <1>1, <1>6, <2>2, ReverseGoesOn DEF v, ForwardFirst, FirstReverse
    <3>2. v[1].steps = -w[1].steps
      BY <2>1, <3>1, NegatedWord
    <3> QED  BY <2>1, <2>2, <3>2
  <2>3. CASE ~(w[1].steps < 0)
    <3>1. v = w
      BY <2>3 DEF v, ForwardFirst, FirstReverse
    <3> QED  BY <2>1, <2>3, <3>1
  <2> QED  BY <2>2, <2>3
<1> QED  BY <1>2, <1>4, <1>5, <1>6, Zenon DEF v

-----------------------------------------------------------------------------
(* A word turned round leads to the mirror image of where it led.          *)

\* A step the other way from the mirror image leads to the mirror image.
LEMMA MirroredStep ==
    ASSUME NEW type \in Types, NEW ds \in {-1, 1}, NEW p \in PlanPose
    PROVE  /\ Mirrored(p) \in PlanPose
           /\ StepPose(type, -ds, Mirrored(p)) = Mirrored(StepPose(type, ds, p))
<1>1. PICK x \in Int, y \in Int, h \in 0 .. 3 : p = [x |-> x, y |-> y, h |-> h]
  BY DEF PlanPose
<1> DEFINE s == CASE type = "L" -> 1 [] type = "R" -> -1 [] type = "S" -> 0
           m == (4 - h) % 4
           Near(u) == Dir((u.h + 1) % 4)
           Moved(e, u) == [x |-> u.x + e * Dir(u.h)[1] + s * Near(u)[1],
                           y |-> u.y + e * Dir(u.h)[2] + s * Near(u)[2], h |-> (u.h + e * s) % 4]
<1>2. PICK a \in Int, b \in Int, c \in Int, d \in Int :
         /\ Dir(h) = <<a, b>> /\ Dir((h + 1) % 4) = <<c, d>>
         /\ Dir(m) = <<a, -b>> /\ Dir((m + 1) % 4) = <<-c, d>>
  <2>1. CASE h = 0
    BY <2>1 DEF Dir
  <2>2. CASE h = 1
    BY <2>2 DEF Dir
  <2>3. CASE h = 2
    BY <2>3 DEF Dir
  <2>4. CASE h = 3
    BY <2>4 DEF Dir
  <2> QED  BY <2>1, <2>2, <2>3, <2>4
<1>3. s \in {-1, 0, 1}
  BY DEF Types
<1>4. \A e \in {-1, 1} : \A u : StepPose(type, e, u) = Moved(e, u)
  BY DEF StepPose
<1> HIDE DEF s
<1>5. Mirrored(p) = [x |-> -x, y |-> y, h |-> m] /\ m \in 0 .. 3
  BY <1>1 DEF Mirrored
<1>6. Mirrored(p) \in PlanPose
  BY <1>5 DEF PlanPose
<1>7. \A t \in {-1, 0, 1} : ((m - t) % 4) = (4 - ((h + t) % 4)) % 4
  OBVIOUS
<1> HIDE DEF m
<1>8. ASSUME NEW e \in {-1, 1}, NEW k \in {-1, 0, 1}, s = k, ds = e
      PROVE  Moved(-ds, Mirrored(p)) = Mirrored(Moved(ds, p))
  <2>1. /\ Moved(ds, p) = [x |-> x + e * a + k * c, y |-> y + e * b + k * d, h |-> (h + e * k) % 4]
        /\ Moved(-ds, Mirrored(p)) = [x |-> -x + (-e) * a + k * (-c), y |-> y + (-e) * (-b) + k * d,
                                      h |-> (m + (-e) * k) % 4]
    BY <1>1, <1>2, <1>5, <1>8
  <2>2. ((m + (-e) * k) % 4) = (4 - ((h + e * k) % 4)) % 4
    <3>1. PICK t \in {-1, 0, 1} : t = e * k /\ (-e) * k = -t
      OBVIOUS
    <3>2. m + (-e) * k = m - t
      BY <1>5, <3>1
    <3> QED  BY <1>7, <3>1, <3>2
  <2>3. /\ -x + (-e) * a + k * (-c) = -(x + e * a + k * c)
        /\ y + (-e) * (-b) + k * d = y + e * b + k * d
    OBVIOUS
  <2> HIDE DEF Moved
  <2> QED  BY <2>1, <2>2, <2>3 DEF Mirrored
<1>9. ds \in {-1, 1} /\ -ds \in {-1, 1}
  OBVIOUS
<1> HIDE DEF Moved
<1> QED  BY <1>3, <1>4, <1>6, <1>8, <1>9

\* So do n of them.
LEMMA MirroredPoses ==
    ASSUME NEW type \in Types, NEW ds \in {-1, 1}, NEW n \in Nat, NEW p \in PlanPose
    PROVE  Poses(type, -ds, n, Mirrored(p))[n] = Mirrored(Poses(type, ds, n, p)[n])
<1> DEFINE f == Poses(type, ds, n, p)
<1>1. f \in [0 .. n -> PlanPose] /\ f[0] = p /\ \A k \in 1 .. n : f[k] = StepPose(type, ds, f[k - 1])
  BY PosesGoOn, Zenon
<1> HIDE DEF f
<1>2. PICK e \in {-1, 1} : e = -ds
  OBVIOUS
<1>3. PICK u \in PlanPose : u = Mirrored(p)
  BY MirroredStep
<1> DEFINE g == Poses(type, e, n, u)
<1>4. g[0] = u /\ \A k \in 1 .. n : g[k] = StepPose(type, e, g[k - 1])
  BY PosesGoOn, Zenon
<1> HIDE DEF g
<1> DEFINE Astray == {k \in 0 .. n : g[k] # Mirrored(f[k])}
<1>5. Astray = {}
  <2> SUFFICES ASSUME Astray # {} PROVE FALSE
    OBVIOUS
  <2>1. PICK k \in Astray : \A m \in Astray : k <= m
    <3>1. Astray \in SUBSET Nat
      OBVIOUS
    <3> HIDE DEF Astray
    <3> QED  BY <3>1, LeastNumber
  <2>2. k # 0
    BY <1>1, <1>3, <1>4, <2>1
  <2>3. k - 1 \in 0 .. n /\ k \in 1 .. n /\ g[k - 1] = Mirrored(f[k - 1])
    BY <2>1, <2>2
  <2>4. g[k] = StepPose(type, -ds, Mirrored(f[k - 1])) /\ f[k] = StepPose(type, ds, f[k - 1])
    BY <1>1, <1>2, <1>4, <2>3
  <2>5. g[k] = Mirrored(f[k])
    <3>1. PICK q \in PlanPose : q = f[k - 1]
      BY <1>1, <2>3
    <3>2. StepPose(type, -ds, Mirrored(q)) = Mirrored(StepPose(type, ds, q))
      BY MirroredStep
    <3> QED  BY <2>4, <3>1, <3>2
  <2> QED  BY <2>1, <2>5
<1>6. g[n] = Mirrored(f[n])
  <2>1. n \in 0 .. n
    OBVIOUS
  <2> QED  BY <1>5, <2>1
<1> QED  BY <1>2, <1>3, <1>6 DEF f, g

\* A segment turned round, from the mirror image on.
LEMMA MirroredSegment ==
    ASSUME NEW s \in Segments, NEW r \in Segments, r.type = s.type, r.steps = -s.steps,
           NEW p \in PlanPose
    PROVE  SegmentEnd(r, Mirrored(p)) = Mirrored(SegmentEnd(s, p))
<1>1. s.steps \in Int /\ s.steps # 0 /\ s.type \in Types
  BY PlannersAssumption DEF Segments
<1>2. PICK m \in Int : m = s.steps
  BY <1>1
<1>3. PICK e \in {-1, 1} : e = SignOf(m)
  BY DEF SignOf
<1>4. SignOf(-m) = -e
  BY <1>1, <1>2, <1>3 DEF SignOf
<1>5. PICK n \in Nat : n = Magnitude2(m)
  BY <1>1, <1>2, SegmentSteps
<1>6. Magnitude2(-m) = n
  <2>1. CASE m < 0
    BY <1>5, <2>1 DEF SignOf, Magnitude2
  <2>2. CASE ~(m < 0)
    BY <1>1, <1>2, <1>5, <2>2 DEF SignOf, Magnitude2
  <2> QED  BY <2>1, <2>2
<1>7. /\ SegmentEnd(s, p) = Poses(s.type, e, n, p)[n]
      /\ SegmentEnd(r, Mirrored(p)) = Poses(s.type, -e, n, Mirrored(p))[n]
  BY <1>2, <1>3, <1>4, <1>5, <1>6, Zenon DEF SegmentEnd
<1> QED  BY <1>1, <1>7, MirroredPoses, Zenon

\* A whole word.
LEMMA NegatedLeads == ASSUME NEW w \in Words PROVE WordEnd(Negated(w)) = Mirrored(WordEnd(w))
<1>1. PICK N \in Nat : N = Len(w)
  BY WordsAreSequences
<1>2. PICK v : v = Negated(w)
  OBVIOUS
<1>3. v \in Words /\ v \in Seq(Segments) /\ w \in Seq(Segments)
  BY <1>2, NegatedWord, WordsAreSequences
<1>4. Len(v) = N /\ \A i \in 1 .. N : /\ v[i] \in Segments /\ w[i] \in Segments
                                     /\ v[i].type = w[i].type /\ v[i].steps = -w[i].steps
  <2>1. DOMAIN v = 1 .. N
    BY <1>1, <1>2 DEF Negated
  <2>2. Len(v) = N
    BY <1>1, <1>3, <2>1
  <2>3. ASSUME NEW i \in 1 .. N
        PROVE  v[i] \in Segments /\ w[i] \in Segments /\ v[i].type = w[i].type /\ v[i].steps = -w[i].steps
    <3>1. v[i] \in Segments /\ w[i] \in Segments
      BY <1>1, <1>3, <2>2
    <3>2. v[i] = [w[i] EXCEPT !.steps = -w[i].steps]
      BY <1>1, <1>2 DEF Negated
    <3> QED  BY <3>1, <3>2 DEF Segments
  <2> QED  BY <2>2, <2>3
<1>5. PICK f : /\ f \in [0 .. N -> PlanPose] /\ f[0] = Origin /\ WordEnd(w) = f[N]
               /\ \A i \in 1 .. N : f[i] = SegmentEnd(w[i], f[i - 1])
  BY <1>1, <1>3, WordLeads, Zenon
<1>6. PICK g : /\ g[0] = Origin /\ WordEnd(v) = g[N]
               /\ \A i \in 1 .. N : g[i] = SegmentEnd(v[i], g[i - 1])
  BY <1>3, <1>4, WordLeads, Zenon
<1>7. Mirrored(Origin) = Origin
  BY DEF Mirrored, Origin
<1> DEFINE Astray == {i \in 0 .. N : g[i] # Mirrored(f[i])}
<1>8. Astray = {}
  <2> SUFFICES ASSUME Astray # {} PROVE FALSE
    OBVIOUS
  <2>1. PICK i \in Astray : \A m \in Astray : i <= m
    <3>1. Astray \in SUBSET Nat
      OBVIOUS
    <3> HIDE DEF Astray
    <3> QED  BY <3>1, LeastNumber
  <2>2. i # 0
    BY <1>5, <1>6, <1>7, <2>1
  <2>3. i - 1 \in 0 .. N /\ i \in 1 .. N /\ g[i - 1] = Mirrored(f[i - 1])
    BY <2>1, <2>2
  <2>4. f[i - 1] \in PlanPose
    BY <1>5, <2>3
  <2>5. SegmentEnd(v[i], Mirrored(f[i - 1])) = Mirrored(SegmentEnd(w[i], f[i - 1]))
    BY <1>4, <2>3, <2>4, MirroredSegment, Zenon
  <2>6. g[i] = Mirrored(f[i])
    BY <1>5, <1>6, <2>3, <2>5, Zenon
  <2> QED  BY <2>1, <2>6
<1>9. N \in 0 .. N
  OBVIOUS
<1> QED  BY <1>2, <1>5, <1>6, <1>8, <1>9

-----------------------------------------------------------------------------
\* The planners alone.
PlanSpec == PlanInit /\ [][PlanNext]_planVars

\* Nothing but a leadout of at least a step makes a path that starts in reverse
\* known as one.
PlanInv ==
    /\ request.kind \in {"none", "rs", "universal", "cancelled", "straight"}
    /\ word \in Words /\ plan \in PlanPath
    /\ PlanConnects /\ EvenSwath /\ (Leadout > 0 => StartsForward)

LEMMA NoWord == <<>> \in Words /\ <<>> \in PlanPath
<1>1. MaxSegments \in Nat
  BY PlannersAssumption
<1>2. <<>> \in [1 .. 0 -> Segments] /\ 0 \in 0 .. MaxSegments /\ Len(<<>>) = 0
  BY <1>1
<1> QED  BY <1>1, <1>2 DEF Words, PlanPath

LEMMA PlanStart == PlanInit => PlanInv
BY NoWord DEF PlanInit, PlanInv, NoRequest, PlanConnects, EvenSwath, StartsForward

\* The goal is appended to a path that does not end there.
LEMMA GapClosed ==
    ASSUME NEW path \in PlanPath, path # <<>>, NEW goal, goal \in PlanPose,
           NEW q, q = CloseGap(path, goal)
    PROVE  /\ q \in PlanPath /\ q # <<>> /\ q[1].rev = path[1].rev
           /\ AtPlace(path, goal) => q = path
           /\ ~AtPlace(path, goal) => Front(q) = path /\ Last(q).pose = goal
<1>1. CASE AtPlace(path, goal)
  BY <1>1, Zenon DEF CloseGap
<1>2. CASE ~AtPlace(path, goal)
  <2> DEFINE e == Waypoint(goal, Last(path).rev)
             m == Len(path)
  <2>1. path \in Seq(PlanMark) /\ m \in Nat \ {0}
    BY DEF PlanPath
  <2>2. Last(path) \in PlanMark /\ 1 \in 1 .. m
    BY <2>1 DEF Last
  <2>3. e \in PlanMark /\ e.pose = goal
    BY <2>2 DEF PlanMark, Waypoint
  <2>4. q = Append(path, e)
    BY <1>2, Zenon DEF CloseGap
  <2> HIDE DEF e
  <2>5. /\ Append(path, e) \in Seq(PlanMark) /\ Len(Append(path, e)) = m + 1
        /\ Append(path, e)[m + 1] = e /\ Append(path, e)[1] = path[1]
    BY <2>1, <2>2, <2>3
  <2>6. q \in PlanPath /\ q # <<>> /\ q[1] = path[1] /\ Last(q) = e
    BY <2>1, <2>4, <2>5 DEF PlanPath, Last
  <2>7. Front(q) = path
    <3>1. q \in Seq(PlanMark) /\ Len(q) - 1 = m /\ \A i \in 1 .. m : q[i] = path[i]
      BY <2>1, <2>3, <2>4, <2>5
    <3>2. Front(q) = SubSeq(q, 1, m)
      BY <3>1 DEF Front
    <3> QED  BY <2>1, <3>1, <3>2
  <2> QED  BY <1>2, <2>3, <2>6, <2>7, Zenon
<1> QED  BY <1>1, <1>2, Zenon

\* A path driven to the goal is left as it is; one driven to its mirror image
\* leads there still, and on to the goal.
LEMMA GapDriven ==
    ASSUME NEW path \in PlanPath, path # <<>>, Connected(path), NEW goal \in PlanPose,
           NEW q, q = CloseGap(path, goal)
    PROVE  /\ PoseAt(path) = goal => DrivenTo(q, goal)
           /\ PoseAt(path) = Mirrored(goal) => LeadsToMirror(q, goal)
<1>1. /\ q # <<>> /\ (AtPlace(path, goal) => q = path)
      /\ ~AtPlace(path, goal) => Front(q) = path /\ Last(q).pose = goal
  BY GapClosed, Zenon
<1>2. \A p : PoseAt(path) = p => DrivenTo(path, p)
  BY Zenon DEF Connected, DrivenTo
<1>3. ASSUME PoseAt(path) = goal PROVE DrivenTo(q, goal)
  <2>1. AtPlace(path, goal)
    BY <1>3, Zenon DEF AtPlace
  <2> QED  BY <1>1, <1>2, <1>3, <2>1, Zenon
<1>4. ASSUME PoseAt(path) = Mirrored(goal) PROVE LeadsToMirror(q, goal)
  <2>1. AtPlace(path, goal) <=> goal.x = 0
    <3>1. goal.x \in Int /\ PoseAt(path).x = -goal.x /\ PoseAt(path).y = goal.y
      BY <1>4 DEF Mirrored, PlanPose
    <3> QED  BY <3>1 DEF AtPlace
  <2> QED  BY <1>1, <1>2, <1>4, <2>1, Zenon DEF LeadsToMirror
<1> QED  BY <1>3, <1>4

LEMMA WordEndsOnGrid == ASSUME NEW w \in Words PROVE WordEnd(w) \in PlanPose
<1>1. w \in Seq(Segments) /\ Len(w) \in Nat /\ Len(w) \in 0 .. Len(w)
  BY WordsAreSequences
<1>2. PICK e : e \in [0 .. Len(w) -> PlanPose] /\ WordEnd(w) = e[Len(w)]
  BY <1>1, WordLeads, Zenon
<1> QED  BY <1>1, <1>2

\* The planner of the one-line mission.
LEMMA RsPlanned == PlanInv /\ CreateRsPlan => PlanInv'
<1> SUFFICES ASSUME PlanInv, CreateRsPlan PROVE PlanInv'
  OBVIOUS
<1>1. PICK w \in Words, forward \in BOOLEAN :
         /\ request' = Asked("rs", WordEnd(w), forward, 0)
         /\ IF WordEnd(w) = Origin
            THEN plan' = <<>> /\ word' = <<>>
            ELSE /\ word' = w
                 /\ plan' = CloseGap(SampleRsPath(IF forward THEN ForwardFirst(w) ELSE w), WordEnd(w))
  BY Zenon DEF CreateRsPlan
<1>2. /\ request'.kind = "rs" /\ request'.goal = WordEnd(w) /\ request'.forward = forward
      /\ WordEnd(w) \in PlanPose
  BY <1>1, WordEndsOnGrid DEF Asked
<1>3. CASE WordEnd(w) = Origin
  BY <1>1, <1>2, <1>3, NoWord DEF PlanInv, PlanConnects, StartsForward, EvenSwath
<1>4. CASE WordEnd(w) # Origin
  <2>1. w # <<>> /\ w \in Seq(Segments)
    <3>1. <<>> \in Seq(Segments) /\ Len(<<>>) = 0
      OBVIOUS
    <3>2. PICK e : e[0] = Origin /\ WordEnd(<<>>) = e[Len(<<>>)]
      BY <3>1, WordLeads, Zenon
    <3>3. WordEnd(<<>>) = Origin
      BY <3>1, <3>2, Zenon
    <3> QED  BY <1>4, <3>3, WordsAreSequences
  <2>2. PICK v : v = IF forward THEN ForwardFirst(w) ELSE w
    OBVIOUS
  <2>3. v \in Words /\ (v = w \/ (v = Negated(w) /\ forward /\ FirstReverse(w)))
    BY <2>2, NegatedWord, Zenon DEF ForwardFirst
  <2>4. PICK p : p = SampleRsPath(v)
    OBVIOUS
  <2>5. p \in PlanPath /\ Connected(p) /\ PoseAt(p) = WordEnd(v)
    <3>1. PICK g : Samples(g, v) /\ SampleRsPath(v) = g[Len(v)]
      BY <2>3, RsSamples, WordsAreSequences, Zenon
    <3> QED  BY <2>3, <2>4, <3>1, WordIsDriven, WordsAreSequences, Zenon
  <2>6. p # <<>> /\ (forward /\ Leadout > 0 => p[1].rev = FALSE)
    <3>1. CASE forward
      <4>1. p = SampleRsPath(ForwardFirst(w))
        BY <2>2, <2>4, <3>1, Zenon
      <4>2. Len(p) > 0 /\ (Leadout > 0 => p[1].rev = FALSE)
        BY <2>1, <4>1, ForwardStarts, Zenon
      <4> QED  BY <2>5, <4>2 DEF PlanPath
    <3>2. CASE ~forward
      <4>1. p = SampleRsPath(w)
        BY <2>2, <2>4, <3>2, Zenon
      <4>2. PICK g : Samples(g, w) /\ SampleRsPath(w) = g[Len(w)]
        BY <2>1, RsSamples, Zenon
      <4>3. Len(p) > 0
        BY <2>1, <4>1, <4>2, WordIsDriven, Zenon
      <4> QED  BY <2>5, <3>2, <4>3 DEF PlanPath
    <3> QED  BY <3>1, <3>2
  <2>7. plan' = CloseGap(p, WordEnd(w)) /\ word' = w
    BY <1>1, <1>4, <2>2, <2>4, Zenon
  <2>8. plan' \in PlanPath /\ plan' # <<>> /\ plan'[1].rev = p[1].rev
    BY <1>2, <2>5, <2>6, <2>7, GapClosed, Zenon
  <2>9. PlanConnects'
    <3>1. CASE v = w
      <4>1. DrivenTo(plan', WordEnd(w))
        BY <1>2, <2>5, <2>6, <2>7, <3>1, GapDriven, Zenon
      <4> QED  BY <1>2, <4>1, Zenon DEF PlanConnects, DrivenTo
    <3>2. CASE v = Negated(w) /\ forward /\ FirstReverse(w)
      <4>1. PoseAt(p) = Mirrored(WordEnd(w))
        BY <2>5, <3>2, NegatedLeads, Zenon
      <4>2. LeadsToMirror(plan', WordEnd(w))
        BY <1>2, <2>5, <2>6, <2>7, <4>1, GapDriven, Zenon
      <4>3. request'.forward /\ FirstReverse(word') /\ LeadsToMirror(plan', request'.goal)
        BY <1>2, <2>7, <3>2, <4>2, Zenon
      <4> QED  BY <4>3, Zenon DEF PlanConnects, FirstReverse, LeadsToMirror, DrivenTo
    <3> QED  BY <2>3, <3>1, <3>2
  <2>10. EvenSwath'
    BY <1>2, Zenon DEF EvenSwath
  <2>11. ASSUME Leadout > 0 PROVE StartsForward'
    BY <1>2, <2>6, <2>8, <2>11, Zenon DEF StartsForward
  <2> QED  BY <1>2, <2>7, <2>8, <2>9, <2>10, <2>11, Zenon DEF PlanInv
<1> QED  BY <1>3, <1>4

LEMMA UniversalDriven ==
    ASSUME NEW w \in Seq(Segments)
    PROVE  /\ UniversalPath(w) \in PlanPath /\ Connected(UniversalPath(w))
           /\ PoseAt(UniversalPath(w)) = WordEnd(w)
<1>1. PICK g : Samples(g, w) /\ UniversalPath(w) = g[Len(w)]
  BY UniversalSamples, Zenon
<1> QED  BY <1>1, WordIsDriven, Zenon

\* The planner of the field's mission.
LEMMA UniversalPlanned == PlanInv /\ CreateUniversalPlan => PlanInv'
<1> SUFFICES ASSUME PlanInv, CreateUniversalPlan PROVE PlanInv'
  OBVIOUS
<1>1. PICK w \in Words, n \in 0 .. MaxSegments :
         /\ n <= Len(w)
         /\ request' = Asked(IF n = Len(w) THEN "universal" ELSE "cancelled", WordEnd(w), FALSE, 0)
         /\ word' = w
         /\ IF WordEnd(w) = Origin THEN plan' = <<>>
            ELSE IF n < Len(w) THEN plan' = UniversalPath(SubSeq(w, 1, n))
            ELSE plan' = CloseGap(UniversalPath(w), WordEnd(w))
  BY Zenon DEF CreateUniversalPlan
<1>2. request'.goal = WordEnd(w) /\ ~request'.forward /\ WordEnd(w) \in PlanPose /\ w \in Seq(Segments)
  BY <1>1, WordEndsOnGrid, WordsAreSequences DEF Asked
<1>3. request'.kind = IF n = Len(w) THEN "universal" ELSE "cancelled"
  BY <1>1 DEF Asked
<1>4. EvenSwath' /\ StartsForward' /\ word' \in Words
      /\ request'.kind \in {"none", "rs", "universal", "cancelled", "straight"}
  BY <1>1, <1>3 DEF EvenSwath, StartsForward
<1>5. CASE WordEnd(w) = Origin
  <2>1. plan' = <<>>
    BY <1>1, <1>5, Zenon
  <2> QED  BY <1>4, <2>1, NoWord, Zenon DEF PlanInv, PlanConnects
<1>6. CASE WordEnd(w) # Origin /\ n < Len(w)
  <2>1. plan' = UniversalPath(SubSeq(w, 1, n))
    BY <1>1, <1>6, Zenon
  <2>2. SubSeq(w, 1, n) \in Seq(Segments)
    BY <1>2, <1>6, PlannersAssumption
  <2>3. plan' \in PlanPath
    BY <2>1, <2>2, UniversalDriven, Zenon
  <2>4. n # Len(w)
    BY <1>2, <1>6, PlannersAssumption
  <2>5. request'.kind = "cancelled"
    BY <1>3, <2>4
  <2>6. PlanConnects'
    BY <2>5 DEF PlanConnects
  <2> QED  BY <1>4, <2>3, <2>6, Zenon DEF PlanInv
<1>7. CASE WordEnd(w) # Origin /\ ~(n < Len(w))
  <2>1. PICK p : p = UniversalPath(w)
    OBVIOUS
  <2>2. plan' = CloseGap(p, WordEnd(w))
    BY <1>1, <1>7, <2>1, Zenon
  <2>3. p \in PlanPath /\ Connected(p) /\ PoseAt(p) = WordEnd(w)
    BY <1>2, <2>1, UniversalDriven, Zenon
  <2>4. CASE p = <<>>
    <3>1. plan' = <<>>
      BY <2>2, <2>4, Zenon DEF CloseGap
    <3> QED  BY <1>4, <3>1, NoWord, Zenon DEF PlanInv, PlanConnects
  <2>5. CASE p # <<>>
    <3>1. plan' \in PlanPath /\ DrivenTo(plan', WordEnd(w))
      BY <1>2, <2>2, <2>3, <2>5, GapClosed, GapDriven, Zenon
    <3>2. PlanConnects'
      BY <1>2, <3>1, Zenon DEF PlanConnects, DrivenTo
    <3> QED  BY <1>4, <3>1, <3>2, Zenon DEF PlanInv
  <2> QED  BY <2>4, <2>5
<1> QED  BY <1>5, <1>6, <1>7

LEMMA LoopsCount ==
    ASSUME NEW d \in Nat
    PROVE  /\ Loops(d) \in Nat /\ Loops(d) * Resolution <= d
           /\ d >= Resolution => d < 2 * Loops(d) * Resolution
<1>1. PICK r \in Nat \ {0} : r = Resolution
  BY PlannersAssumption
<1>2. PICK n \in Nat : n = d \div r
  BY <1>1
<1>3. n * r <= d /\ d < n * r + r
  BY <1>2
<1>4. ASSUME d >= r PROVE r <= n * r
  <2>1. n # 0
    <3>1. 0 * r = 0
      OBVIOUS
    <3> QED  BY <1>3, <1>4, <3>1
  <2>2. PICK m \in Nat : n = m + 1
    BY <2>1, n - 1 \in Nat
  <2>3. n * r = m * r + r /\ m * r \in Nat
    BY <2>2
  <2> QED  BY <2>3
<1>5. 2 * n * r = n * r + n * r /\ n * r \in Nat
  OBVIOUS
<1> QED  BY <1>1, <1>2, <1>3, <1>4, <1>5 DEF Loops

\* The straight line.
LEMMA StraightPlanned == PlanInv /\ CreateStraightPlan => PlanInv'
<1> SUFFICES ASSUME PlanInv, CreateStraightPlan PROVE PlanInv'
  OBVIOUS
<1> DEFINE Mark(d, i) == Waypoint([x |-> (i - 1) * d, y |-> 0, h |-> 0], FALSE)
           End(d, n) == Waypoint([x |-> n * d, y |-> 0, h |-> 1], FALSE)
<1>1. PICK d \in 0 .. MaxSteps * Resolution + 1 :
         /\ request' = Asked("straight", [x |-> d, y |-> 0, h |-> 1], FALSE, d)
         /\ plan' = Append([i \in 1 .. Loops(d) |-> Mark(d, i)], End(d, Loops(d)))
         /\ word' = word
  BY Zenon DEF CreateStraightPlan
<1>2. PICK e \in Nat : e = d
  <2>1. MaxSteps \in Nat /\ Resolution \in Nat
    BY PlannersAssumption
  <2> QED  BY <2>1
<1>3. PICK n \in Nat : n = Loops(e)
  BY LoopsCount
<1> DEFINE marks == [i \in 1 .. n |-> Mark(e, i)]
<1>4. marks \in Seq(PlanMark) /\ Len(marks) = n /\ \A i \in 1 .. n : marks[i] = Mark(e, i)
  <2>1. \A i \in 1 .. n : Mark(e, i) \in PlanMark
    <3> TAKE i \in 1 .. n
    <3>1. (i - 1) * e \in Int
      OBVIOUS
    <3> QED  BY <3>1 DEF Waypoint, PlanMark, PlanPose
  <2> HIDE DEF Mark
  <2> QED  BY <2>1
<1>5. End(e, n) \in PlanMark
  <2>1. n * e \in Int
    OBVIOUS
  <2> QED  BY <2>1 DEF Waypoint, PlanMark, PlanPose
<1>6. plan' = Append(marks, End(e, n))
  BY <1>1, <1>2, <1>3
<1> HIDE DEF marks
<1>7. /\ plan' \in PlanPath /\ Len(plan') = n + 1 /\ plan'[n + 1] = End(e, n)
      /\ \A i \in 1 .. n : plan'[i] = Mark(e, i)
  <2> HIDE DEF Mark, End
  <2> QED  BY <1>4, <1>5, <1>6 DEF PlanPath
<1>8. request'.kind = "straight" /\ request'.distance = e /\ request'.goal.h = 1
  BY <1>1, <1>2 DEF Asked
<1>9. EvenSwath'
  <2>1. ASSUME e >= Resolution
        PROVE  /\ e >= n * Resolution /\ e < 2 * n * Resolution
    BY <1>3, <2>1, LoopsCount
  <2>2. ASSUME NEW i \in 1 .. n PROVE plan'[i + 1].pose.x - plan'[i].pose.x = e
    <3>1. plan'[i].pose.x = (i - 1) * e
      <4>1. plan'[i] = Mark(e, i)
        BY <1>7
      <4>2. Mark(e, i).pose.x = (i - 1) * e
        BY DEF Waypoint
      <4> HIDE DEF Mark
      <4> QED  BY <4>1, <4>2
    <3>2. plan'[i + 1].pose.x = i * e
      <4>1. CASE i = n
        <5>1. plan'[i + 1] = End(e, n)
          BY <1>7, <4>1
        <5>2. End(e, n).pose.x = n * e
          BY DEF Waypoint
        <5> HIDE DEF End
        <5> QED  BY <4>1, <5>1, <5>2
      <4>2. CASE i # n
        <5>1. PICK j \in 1 .. n : j = i + 1
          BY <4>2
        <5>2. plan'[j] = Mark(e, j)
          BY <1>7
        <5>3. Mark(e, j).pose.x = (j - 1) * e /\ j - 1 = i
          BY <5>1 DEF Waypoint
        <5> HIDE DEF Mark
        <5> QED  BY <5>1, <5>2, <5>3
      <4> QED  BY <4>1, <4>2
    <3>3. PICK k \in Nat : i = k + 1
      BY i - 1 \in Nat
    <3>4. i * e = k * e + e /\ (i - 1) * e = k * e /\ k * e \in Int
      BY <3>3
    <3> QED  BY <3>1, <3>2, <3>4
  <2>3. Last(plan').pose.h = 1 /\ Len(plan') - 1 = n
    BY <1>7 DEF Last, Waypoint
  <2> QED  BY <1>8, <2>1, <2>2, <2>3, Zenon DEF EvenSwath
<1>10. PlanConnects' /\ StartsForward' /\ word' \in Words
       /\ request'.kind \in {"none", "rs", "universal", "cancelled", "straight"}
  BY <1>1, <1>8 DEF PlanInv, PlanConnects, StartsForward
<1> QED  BY <1>7, <1>9, <1>10, Zenon DEF PlanInv

LEMMA PlanStep == PlanInv /\ [PlanNext]_planVars => PlanInv'
<1>1. ASSUME PlanInv, NextRequest PROVE PlanInv'
  BY <1>1, NoWord DEF NextRequest, PlanInv, NoRequest, PlanConnects, EvenSwath, StartsForward
<1>2. ASSUME PlanInv, UNCHANGED planVars PROVE PlanInv'
  BY <1>2, Zenon DEF planVars, PlanInv, PlanConnects, EvenSwath, StartsForward
<1> QED  BY <1>1, <1>2, RsPlanned, UniversalPlanned, StraightPlanned DEF PlanNext

\* Whatever word OMPL returns, of any number of segments: the path is driven step by
\* step to the goal or, where a forward request turned round a word that starts in
\* reverse, to the goal's mirror image, from where the goal is appended; forward
\* first where that was asked for; and a swath's waypoints are evenly spaced.
THEOREM PlansLeadThere ==
    ASSUME Leadout > 0
    PROVE  PlanSpec => []PlansReachGoalOrMirror
<1>1. PlanInv => PlansReachGoalOrMirror
  BY Zenon DEF PlanInv, PlansReachGoalOrMirror
<1> QED  BY <1>1, PlanStart, PlanStep, PTL DEF PlanSpec

\* The word is one, the waypoints are on the grid.
THEOREM PlansTyped == PlanSpec => []PlanTypeOK
<1>1. PlanInv => PlanTypeOK
  <2> SUFFICES ASSUME PlanInv, NEW i \in 1 .. Len(plan)
               PROVE  plan[i].rev \in BOOLEAN /\ plan[i].pose.h \in 0 .. 3
    BY DEF PlanInv, PlanTypeOK
  <2>1. plan[i] \in PlanMark
    BY DEF PlanInv, PlanPath
  <2> QED  BY <2>1 DEF PlanMark, PlanPose
<1> QED  BY <1>1, PlanStart, PlanStep, PTL DEF PlanSpec

-----------------------------------------------------------------------------
(* The types of the parts, and that a behaviour of all is one of each. *)

\* What was swept fits the cycles that have passed.
ArcTypeInv ==
    /\ arcPhase \in {"idle", "running", "succeeded", "timeout", "tf_error", "rejected", "cancelled"}
    /\ arcGoal \in ArcGoals /\ arcYaw0 \in Yaws /\ arcSwept \in Int /\ arcVel \in -1 .. 1
    /\ arcLeft \in 0 .. Allowance /\ Size(arcSwept) <= (Allowance - arcLeft) * MaxTurn

\* Numbers that are multiplied.
LEMMA OneCycleMore ==
    ASSUME NEW a \in Nat, NEW l \in 1 .. a, NEW m \in Nat
    PROVE  /\ (a - (l - 1)) * m = (a - l) * m + m
           /\ (a - l) * m \in Nat /\ (a - l) * m <= a * m
<1>1. PICK k \in Nat : k = a - l
  OBVIOUS
<1>2. a - (l - 1) = k + 1 /\ a = k + l
  BY <1>1
<1>3. (k + 1) * m = k * m + m /\ (k + l) * m = k * m + l * m /\ k * m \in Nat /\ l * m \in Nat
  OBVIOUS
<1> QED  BY <1>1, <1>2, <1>3

\* The arc's variables keep their types, and what was swept fits the time.
THEOREM ArcTyped == ArcSpec => []ArcTypeOK
<1> USE ArcAssumption
<1>a. Allowance * MaxTurn \in Nat /\ 0 * MaxTurn = 0 /\ Allowance - 0 = Allowance /\ Allowance - Allowance = 0
  OBVIOUS
<1>1. ArcInit => ArcTypeInv
  <2> SUFFICES ASSUME ArcInit PROVE ArcTypeInv
    OBVIOUS
  <2>1. arcGoal \in ArcGoals
    BY DEF ArcInit, ArcGoals
  <2> QED  BY <1>a, <2>1 DEF ArcInit, ArcTypeInv, Yaws, Size
<1>2. ArcTypeInv /\ [ArcNext]_arcVars => ArcTypeInv'
  <2> SUFFICES ASSUME ArcTypeInv, [ArcNext]_arcVars PROVE ArcTypeInv'
    OBVIOUS
  <2>1. CASE OnRun
    <3>1. PICK goal \in ArcGoals, yaw \in Yaws :
            arcGoal' = goal /\ arcYaw0' = yaw /\ arcSwept' = 0 /\ arcPhase' \in {"running", "rejected"}
      BY <2>1 DEF OnRun
    <3>2. arcLeft' = Allowance /\ arcVel' = arcVel
      BY <2>1 DEF OnRun
    <3> QED  BY <1>a, <3>1, <3>2 DEF ArcTypeInv, Size
  <2>2. CASE Answer
    <3>1. arcGoal' \in ArcGoals
      BY <2>2 DEF Answer, ArcGoals
    <3>2. arcPhase' = "idle" /\ arcYaw0' = 0 /\ arcSwept' = 0 /\ arcLeft' = 0 /\ arcVel' = arcVel
      BY <2>2 DEF Answer
    <3> QED  BY <1>a, <3>1, <3>2 DEF ArcTypeInv, Size, Yaws
  <2>3. CASE TimeIsUp \/ PoseLost \/ ArcCancel
    BY <2>3 DEF TimeIsUp, PoseLost, ArcCancel, ArcTypeInv
  <2>4. CASE OnCycleUpdate
    <3>1. arcLeft' = arcLeft - 1 /\ arcLeft \in 1 .. Allowance /\ UNCHANGED <<arcGoal, arcYaw0>>
      BY <2>4 DEF OnCycleUpdate, ArcTypeInv
    <3>2. PICK l \in 1 .. Allowance : l = arcLeft
      BY <3>1
    <3>3. (Allowance - (l - 1)) * MaxTurn = (Allowance - l) * MaxTurn + MaxTurn /\ (Allowance - l) * MaxTurn \in Nat
      BY OneCycleMore
    <3>4. CASE Done
      <4>1. arcPhase' = "succeeded" /\ arcVel' = 0 /\ arcSwept' = arcSwept
        BY <2>4, <3>4 DEF OnCycleUpdate
      <4>2. Size(arcSwept) <= (Allowance - l) * MaxTurn /\ Size(arcSwept) \in Nat
        BY <3>2 DEF ArcTypeInv, Size
      <4>3. Size(arcSwept') <= (Allowance - (l - 1)) * MaxTurn
        BY <3>3, <4>1, <4>2
      <4>4. arcLeft' = l - 1
        BY <3>1, <3>2
      <4> QED  BY <3>1, <3>2, <4>1, <4>3, <4>4 DEF ArcTypeInv
    <3>5. CASE ~Done
      <4>1. arcPhase' = "running" /\ arcVel' = Omega /\ \E k \in 0 .. MaxTurn : arcSwept' = arcSwept + k * Omega
        BY <2>4, <3>5 DEF OnCycleUpdate
      <4>2. Omega \in {-1, 1}
        BY DEF Omega
      <4>3. PICK k \in 0 .. MaxTurn : arcSwept' = arcSwept + k \/ arcSwept' = arcSwept - k
        BY <4>1, <4>2 DEF ArcTypeInv
      <4>4. Size(arcSwept) <= (Allowance - l) * MaxTurn /\ arcSwept \in Int
        BY <3>2 DEF ArcTypeInv
      <4>5. Size(arcSwept') <= (Allowance - (l - 1)) * MaxTurn /\ arcSwept' \in Int
        BY <3>3, <4>3, <4>4 DEF Size
      <4>6. arcLeft' = l - 1
        BY <3>1, <3>2
      <4> QED  BY <3>1, <3>2, <4>1, <4>2, <4>5, <4>6 DEF ArcTypeInv
    <3> QED  BY <3>4, <3>5
  <2>5. CASE UNCHANGED arcVars
    BY <2>5 DEF arcVars, ArcTypeInv
  <2> QED  BY <2>1, <2>2, <2>3, <2>4, <2>5 DEF ArcNext, ArcTask
<1>3. ArcTypeInv => ArcTypeOK
  <2> SUFFICES ASSUME ArcTypeInv PROVE ArcTypeOK
    OBVIOUS
  <2>1. PICK l \in 0 .. Allowance : l = arcLeft
    BY DEF ArcTypeInv
  <2>2. (Allowance - l) * MaxTurn <= Allowance * MaxTurn
    <3>1. l = 0 => Allowance - l = Allowance
      OBVIOUS
    <3>2. l # 0 => l \in 1 .. Allowance
      OBVIOUS
    <3> QED  BY <1>a, <3>1, <3>2, OneCycleMore
  <2>3. Size(arcSwept) <= (Allowance - l) * MaxTurn /\ Size(arcSwept) \in Int
    BY <2>1 DEF ArcTypeInv, Size
  <2>4. (Allowance - l) * MaxTurn \in Int /\ Allowance * MaxTurn \in Int
    OBVIOUS
  <2>5. Size(arcSwept) <= Allowance * MaxTurn
    BY <2>2, <2>3, <2>4
  <2> QED  BY <2>5 DEF ArcTypeInv, ArcTypeOK
<1> QED  BY <1>1, <1>2, <1>3, PTL DEF ArcSpec

-----------------------------------------------------------------------------
\* The bar, its commands and what is under way stay within the limit.
LEMMA ClampsToBar == ASSUME NEW x \in Int PROVE Clamp(x) \in Bar
<1>1. SliderLimit \in Nat
  BY SliderAssumption
<1>2. PICK m \in Int : m = Min({SliderLimit, x}) /\ m <= SliderLimit
  <2>1. Min({SliderLimit, x}) = IF SliderLimit <= x THEN SliderLimit ELSE x
    BY <1>1, OfTwo
  <2> QED  BY <1>1, <2>1
<1>3. Max({-SliderLimit, m}) = IF -SliderLimit >= m THEN -SliderLimit ELSE m
  BY <1>1, OfTwo
<1> QED  BY <1>1, <1>2, <1>3 DEF Clamp, Bar

\* A topic keeps so many commands.
LEMMA KeepsSome ==
    ASSUME SliderTypeOK, NEW c \in Bar, PublishCmd(c)
    PROVE  cmdTopic' \in Seq(Bar) /\ Len(cmdTopic') <= SliderDepth
<1>1. SliderDepth \in Nat \ {0}
  BY SliderAssumption
<1>2. PICK q \in Seq(Bar) : q = Append(cmdTopic, c)
  <2>1. cmdTopic \in Seq(Bar)
    BY DEF SliderTypeOK
  <2>2. Append(cmdTopic, c) \in Seq(Bar)
    BY <2>1
  <2> QED  BY <2>2, Zenon
<1>3. Len(q) = Len(cmdTopic) + 1 /\ Len(cmdTopic) \in Nat /\ Len(cmdTopic) <= SliderDepth
  BY <1>2 DEF SliderTypeOK
<1>4. cmdTopic' = IF Len(q) > SliderDepth THEN Tail(q) ELSE q
  BY <1>2 DEF PublishCmd, Kept
<1>5. q # <<>> => Tail(q) \in Seq(Bar) /\ Len(Tail(q)) = Len(q) - 1
  OBVIOUS
<1> QED  BY <1>1, <1>3, <1>4, <1>5

\* The row is lost: the last command is sent again.
LEMMA LostTyped ==
    ASSUME SliderTypeOK, HandleRowLost
    PROVE  /\ lastCmd' \in Bar /\ rowLost' \in BOOLEAN /\ rowTopic' \in BOOLEAN
           /\ cmdTopic' \in Seq(Bar) /\ Len(cmdTopic') <= SliderDepth
<1>1. lastCmd \in Bar /\ PublishCmd(lastCmd) /\ lastCmd' = lastCmd
  BY DEF HandleRowLost, SliderTypeOK
<1>2. rowLost' \in BOOLEAN /\ rowTopic' \in BOOLEAN
  BY Zenon DEF HandleRowLost
<1> QED  BY <1>1, <1>2, KeepsSome

\* The tool bar and its commands are clamped, the topics bounded.
THEOREM SliderTyped == SliderSpec => []SliderTypeOK
<1>a. SliderLimit \in Nat \ {0} /\ LostTimeout \in Nat \ {0} /\ SliderDepth \in Nat \ {0} /\ CalOffset \in Int
  BY SliderAssumption
<1>1. SliderInit => SliderTypeOK
  <2> SUFFICES ASSUME SliderInit PROVE SliderTypeOK
    OBVIOUS
  <2>1. rowLost \in BOOLEAN /\ rowTopic \in BOOLEAN
    BY Zenon DEF SliderInit
  <2>2. lastCmd = 0 /\ msgAge = 0 /\ detects = 0 /\ cmdTopic = <<>> /\ barCmd = 0 /\ bar = 0
    BY DEF SliderInit
  <2> QED  BY <1>a, <2>1, <2>2 DEF SliderTypeOK, Bar, Offsets
<1>2. SliderTypeOK /\ [SliderNext]_sliderVars => SliderTypeOK'
  <2> SUFFICES ASSUME SliderTypeOK, [SliderNext]_sliderVars PROVE SliderTypeOK'
    OBVIOUS
  <2>1. CASE RowChanges
    BY <2>1 DEF RowChanges, SliderTypeOK
  <2>2. CASE Detect
    <3>1. msgAge' = 0 /\ UNCHANGED <<detects, barCmd, bar>>
      BY <2>2 DEF Detect
    <3>2. /\ lastCmd' \in Bar /\ rowLost' \in BOOLEAN /\ rowTopic' \in BOOLEAN
          /\ cmdTopic' \in Seq(Bar) /\ Len(cmdTopic') <= SliderDepth
      <4>1. CASE detects = Lost
        BY <2>2, <4>1, LostTyped DEF Detect
      <4>2. CASE detects # Lost
        <5>1. lastCmd' = Clamp(detects + CalOffset) /\ PublishCmd(lastCmd')
          BY <2>2, <4>2 DEF Detect
        <5>2. detects + CalOffset \in Int
          BY <1>a, <2>2, <4>2 DEF Detect, SliderTypeOK, Offsets
        <5>3. rowLost' \in BOOLEAN /\ rowTopic' \in BOOLEAN
          BY <2>2, <4>2, Zenon DEF Detect, SliderTypeOK
        <5>4. lastCmd' \in Bar
          BY <5>1, <5>2, ClampsToBar
        <5> QED  BY <5>1, <5>3, <5>4, KeepsSome
      <4> QED  BY <4>1, <4>2
    <3> QED  BY <1>a, <3>1, <3>2 DEF SliderTypeOK
  <2>3. CASE Watchdog
    <3>1. UNCHANGED <<detects, barCmd, bar>> /\ msgAge' = Min({msgAge + 1, LostTimeout + 1})
      BY <2>3 DEF Watchdog
    <3>2. msgAge' \in 0 .. LostTimeout + 1
      <4>1. msgAge + 1 \in Nat /\ LostTimeout + 1 \in Nat
        BY <1>a DEF SliderTypeOK
      <4> QED  BY <3>1, <4>1, OfTwo
    <3>3. /\ lastCmd' \in Bar /\ rowLost' \in BOOLEAN /\ rowTopic' \in BOOLEAN
          /\ cmdTopic' \in Seq(Bar) /\ Len(cmdTopic') <= SliderDepth
      <4>1. HandleRowLost \/ UNCHANGED <<lastCmd, rowLost, rowTopic, cmdTopic>>
        BY <2>3, Zenon DEF Watchdog
      <4> QED  BY <4>1, LostTyped DEF SliderTypeOK
    <3> QED  BY <3>1, <3>2, <3>3 DEF SliderTypeOK
  <2>4. CASE BarCommand
    <3>1. /\ cmdTopic # <<>> /\ barCmd' = Head(cmdTopic) /\ cmdTopic' = Tail(cmdTopic)
          /\ UNCHANGED <<lastCmd, rowLost, rowTopic, msgAge, detects, bar>>
      BY <2>4 DEF BarCommand
    <3>2. barCmd' \in Bar /\ cmdTopic' \in Seq(Bar) /\ Len(cmdTopic') <= SliderDepth
      <4>1. cmdTopic \in Seq(Bar) /\ Len(cmdTopic) <= SliderDepth
        BY DEF SliderTypeOK
      <4> QED  BY <1>a, <3>1, <4>1
    <3> QED  BY <3>1, <3>2 DEF SliderTypeOK
  <2>5. CASE BarMoves
    <3>1. bar' = Clamp(IF bar < barCmd THEN bar + 1 ELSE bar - 1)
          /\ UNCHANGED <<lastCmd, rowLost, rowTopic, msgAge, detects, cmdTopic, barCmd>>
      BY <2>5 DEF BarMoves
    <3>2. PICK x \in Int : x = IF bar < barCmd THEN bar + 1 ELSE bar - 1
      BY <1>a DEF SliderTypeOK, Bar
    <3>3. bar' \in Bar
      BY <3>1, <3>2, ClampsToBar
    <3> QED  BY <3>1, <3>3 DEF SliderTypeOK
  <2>6. CASE UNCHANGED sliderVars
    BY <2>6 DEF sliderVars, SliderTypeOK
  <2> QED  BY <2>1, <2>2, <2>3, <2>4, <2>5, <2>6 DEF SliderNext, SliderTask
<1> QED  BY <1>1, <1>2, PTL DEF SliderSpec

-----------------------------------------------------------------------------
\* The queue holds a message of each publisher at most.
TopicKept ==
    /\ olTopic \in Seq(Sides) /\ Len(olTopic) <= 2
    /\ Len(olTopic) = 2 => ~((olTopic[1] = NoConstraint) <=> (olTopic[2] = NoConstraint))

OneLineTypeInv ==
    /\ olPhase \in Running \cup Ended
    /\ olGeo \in Ways /\ olMap \in Ways /\ olDriven \in Ways /\ olSide \in Sides
    /\ olAt \in [line : Lines \cup {Nowhere}, point : 0 .. 2]
    /\ olPreempted \in BOOLEAN /\ olForced \in BOOLEAN /\ olHeld \in Sides
    /\ TopicKept

\* Of two messages the other one is left.
OneLeft(S, q, n, k) ==
    /\ RemoveAt(q, k) \in Seq(S) /\ Len(RemoveAt(q, k)) = n - 1
    /\ n = 2 => RemoveAt(q, k)[1] = q[3 - k]

\* What RemoveAt takes out of a queue of two at most.
LEMMA OneOfTwo ==
    ASSUME NEW S, NEW q \in Seq(S), NEW n \in 1 .. 2, Len(q) = n, NEW k \in 1 .. n
    PROVE  OneLeft(S, q, n, k)
<1>1. PICK a \in Seq(S) : a = SubSeq(q, 1, k - 1) /\ Len(a) = k - 1 /\ \A i \in 1 .. k - 1 : a[i] = q[i]
  <2>1. SubSeq(q, 1, k - 1) \in Seq(S) /\ Len(SubSeq(q, 1, k - 1)) = k - 1
        /\ \A i \in 1 .. k - 1 : SubSeq(q, 1, k - 1)[i] = q[i]
    OBVIOUS
  <2> QED  BY <2>1
<1>2. PICK b \in Seq(S) : b = SubSeq(q, k + 1, n) /\ Len(b) = n - k /\ \A i \in 1 .. n - k : b[i] = q[k + i]
  <2>1. SubSeq(q, k + 1, n) \in Seq(S) /\ Len(SubSeq(q, k + 1, n)) = n - k
        /\ \A i \in 1 .. n - k : SubSeq(q, k + 1, n)[i] = q[k + i]
    OBVIOUS
  <2> QED  BY <2>1
<1>3. RemoveAt(q, k) = a \o b
  BY <1>1, <1>2 DEF RemoveAt
<1>4. a \o b \in Seq(S) /\ Len(a \o b) = n - 1 /\ (n = 2 => (a \o b)[1] = q[3 - k])
  BY <1>1, <1>2
<1> QED  BY <1>3, <1>4 DEF OneLeft

\* A queue that short has one of three lengths.
LEMMA TopicLength ==
    ASSUME NEW S, NEW q \in Seq(S), Len(q) <= 2
    PROVE  \E n \in 0 .. 2 : Len(q) = n /\ DOMAIN q = 1 .. n
<1>1. PICK n \in Nat : n = Len(q) /\ DOMAIN q = 1 .. n
  OBVIOUS
<1>2. n <= 2
  BY <1>1
<1>3. n \in 0 .. 2
  BY ONLY n \in Nat, <1>2
<1> QED  BY <1>1, <1>3, Zenon

\* A message takes the place of its publisher's last one.
LEMMA PublishKeeps == ASSUME TopicKept, NEW msg \in Sides, Publish(msg) PROVE TopicKept'
<1>1. olTopic \in Seq(Sides) /\ Len(olTopic) <= 2
  BY Zenon DEF TopicKept
<1>2. PICK n \in 0 .. 2 : Len(olTopic) = n /\ DOMAIN olTopic = 1 .. n
  BY <1>1, TopicLength
<1> DEFINE No(x) == x = NoConstraint
           older == {i \in DOMAIN olTopic : (olTopic[i] = NoConstraint) = (msg = NoConstraint)}
<1>3. older = {i \in DOMAIN olTopic : No(olTopic[i]) <=> No(msg)}
  BY Zenon
<1>4. PICK k : k = CHOOSE i \in older : TRUE
  OBVIOUS
<1>5. older # {} => k \in older
  BY <1>4
<1>6. olTopic' = Append(IF older = {} THEN olTopic ELSE RemoveAt(olTopic, k), msg)
  BY <1>4 DEF Publish
<1> HIDE DEF older
\* What was sent before and stays is of the other publisher.
<1>7. PICK q \in Seq(Sides) : olTopic' = Append(q, msg) /\ Len(q) <= 1 /\ (Len(q) = 1 => ~(No(q[1]) <=> No(msg)))
  <2>1. CASE older = {}
    <3>1. olTopic' = Append(olTopic, msg)
      BY <1>6, <2>1
    <3>2. \A i \in 1 .. n : ~(No(olTopic[i]) <=> No(msg))
      BY <1>2, <1>3, <2>1, Zenon
    <3>3. n # 2
      <4>1. 1 \in 1 .. 2 /\ 2 \in 1 .. 2
        OBVIOUS
      <4> QED  BY <1>2, <3>2, <4>1, Zenon DEF TopicKept
    <3>4. n <= 1 /\ (n = 1 => 1 \in 1 .. n)
      BY ONLY n \in 0 .. 2, <3>3
    <3> QED  BY <1>1, <1>2, <3>1, <3>2, <3>4, Zenon
  <2>2. CASE older # {}
    <3>1. k \in 1 .. n /\ (No(olTopic[k]) <=> No(msg))
      BY <1>2, <1>3, <1>5, <2>2, Zenon
    <3>2. olTopic' = Append(RemoveAt(olTopic, k), msg)
      BY <1>6, <2>2
    <3>3. n \in 1 .. 2 /\ k \in 1 .. n
      BY ONLY <3>1, n \in 0 .. 2
    <3>4. /\ RemoveAt(olTopic, k) \in Seq(Sides) /\ Len(RemoveAt(olTopic, k)) = n - 1
          /\ n = 2 => RemoveAt(olTopic, k)[1] = olTopic[3 - k]
      <4>1. olTopic \in Seq(Sides) /\ Len(olTopic) = n
        BY <1>1, <1>2, Zenon
      <4>2. OneLeft(Sides, olTopic, n, k)
        BY ONLY <3>3, <4>1, OneOfTwo, Zenon
      <4> QED  BY <4>2, Zenon DEF OneLeft
    <3>5. n = 2 => ~(No(olTopic[3 - k]) <=> No(msg))
      <4> SUFFICES ASSUME n = 2 PROVE ~(No(olTopic[3 - k]) <=> No(msg))
        OBVIOUS
      <4>1. ~(No(olTopic[1]) <=> No(olTopic[2]))
        BY <1>2, Zenon DEF TopicKept
      <4> HIDE DEF No
      <4>2. k = 1 \/ k = 2
        BY ONLY <3>3, n = 2
      <4>3. 3 - 1 = 2 /\ 3 - 2 = 1
        OBVIOUS
      <4> QED  BY <3>1, <4>1, <4>2, <4>3, Zenon
    <3> HIDE DEF No
    <3>6. n - 1 <= 1 /\ (n - 1 = 1 => n = 2)
      BY ONLY <3>3
    <3>7. Len(RemoveAt(olTopic, k)) = 1 => ~(No(RemoveAt(olTopic, k)[1]) <=> No(msg))
      BY <3>4, <3>5, <3>6, Zenon
    <3>8. Len(RemoveAt(olTopic, k)) <= 1
      BY <3>4, <3>6, Zenon
    <3> QED  BY <3>2, <3>4, <3>7, <3>8, Zenon
  <2> QED  BY <2>1, <2>2
<1>8. Len(olTopic') = Len(q) + 1 /\ olTopic' \in Seq(Sides) /\ olTopic'[Len(q) + 1] = msg
      /\ \A i \in 1 .. Len(q) : olTopic'[i] = q[i]
  BY <1>7
<1>9. Len(olTopic') <= 2 /\ (Len(olTopic') = 2 => ~(No(olTopic'[1]) <=> No(olTopic'[2])))
  <2>1. PICK m \in Nat : m = Len(q) /\ m <= 1
    BY <1>7
  <2>2. m = 0 \/ m = 1
    BY ONLY m \in Nat, <2>1
  <2>3. m + 1 <= 2 /\ (m + 1 = 2 => m = 1) /\ (m = 1 => m + 1 = 2 /\ 1 \in 1 .. m)
    BY <2>2
  <2> HIDE DEF No
  <2>4. Len(olTopic') = m + 1 /\ olTopic'[m + 1] = msg /\ \A i \in 1 .. m : olTopic'[i] = q[i]
    BY <1>8, <2>1, Zenon
  <2>5. CASE m + 1 = 2
    <3>1. olTopic'[2] = msg /\ olTopic'[1] = q[1] /\ Len(q) = 1
      BY <2>1, <2>3, <2>4, <2>5, Zenon
    <3> QED  BY <1>7, <2>3, <2>4, <2>5, <3>1, Zenon
  <2> QED  BY <2>3, <2>4, <2>5, Zenon
<1> QED  BY <1>8, <1>9, Zenon DEF TopicKept

\* The mission's variables keep their types; no more than two constraints wait.
THEOREM OneLineTyped == OneLineSpec => []OneLineTypeOK
<1>a. "left" \in Sides /\ "" \in Sides /\ NoConstraint \in Sides
  BY OneLineAssumption DEF NoConstraint
<1>b. NoWay \in Ways /\ Elsewhere \in [line : Lines \cup {Nowhere}, point : 0 .. 2]
  BY DEF NoWay, Ways, Elsewhere
<1>c. ASSUME NEW w \in Ways
      PROVE  /\ Turned(w) \in Ways /\ StartOf(w) \in [line : Lines \cup {Nowhere}, point : 0 .. 2]
             /\ EndOf(w) \in [line : Lines \cup {Nowhere}, point : 0 .. 2]
  BY DEF Ways, Turned, StartOf, EndOf
<1>d. ASSUME NEW l \in Lines \cup {Nowhere} PROVE [line |-> l, from |-> 1] \in Ways
  BY DEF Ways
<1>1. OneLineInit => OneLineTypeInv
  <2> SUFFICES ASSUME OneLineInit PROVE OneLineTypeInv
    OBVIOUS
  <2>1. olPreempted \in BOOLEAN /\ olForced \in BOOLEAN
    BY Zenon DEF OneLineInit
  <2>2. TopicKept
    <3>1. olTopic = <<>>
      BY Zenon DEF OneLineInit
    <3> QED  BY <3>1 DEF TopicKept
  <2>3. olSide = "" /\ olHeld = NoConstraint /\ olGeo = NoWay /\ olMap = NoWay /\ olDriven = NoWay
        /\ olAt = Elsewhere /\ olPhase \in Ended
    BY DEF OneLineInit, Ended
  <2> QED  BY <1>a, <1>b, <2>1, <2>2, <2>3, Zenon DEF OneLineTypeInv
<1>2. OneLineTypeInv /\ [OneLineNext]_olVars => OneLineTypeInv'
  <2> SUFFICES ASSUME OneLineTypeInv, [OneLineNext]_olVars PROVE OneLineTypeInv'
    OBVIOUS
  <2>a. olTopic' = olTopic => TopicKept'
    BY DEF OneLineTypeInv, TopicKept
  <2>1. CASE GoalReceived
    <3>1. PICK l \in Lines, side \in Sides :
             /\ olGeo' = [line |-> l, from |-> 1] /\ olSide' = side
             /\ olPhase' \in {"approachPlan", "failed"} /\ (olMap' = olGeo' \/ olMap' = olMap)
      BY <2>1 DEF GoalReceived
    <3>2. olPreempted' \in BOOLEAN
      BY <2>1, Zenon DEF GoalReceived
    <3>3. olAt' = Elsewhere /\ olDriven' = NoWay /\ UNCHANGED <<olTopic, olHeld, olForced>>
      BY <2>1 DEF GoalReceived
    <3>4. olGeo' \in Ways
      BY <1>d, <3>1
    <3>5. olPhase' \in Running \cup Ended
      BY <3>1 DEF Running, Ended
    <3> QED  BY <1>b, <2>a, <3>1, <3>2, <3>3, <3>4, <3>5, Zenon DEF OneLineTypeInv
  <2>2. CASE OnPreempt
    <3>1. PICK l \in Lines \cup {Nowhere}, side \in Sides :
             olGeo' = [line |-> l, from |-> 1] /\ olSide' = IF side = "" THEN olSide ELSE side
      BY <2>2 DEF OnPreempt
    <3>2. olPreempted' \in BOOLEAN
      BY <2>2, Zenon DEF OnPreempt
    <3>3. UNCHANGED <<olPhase, olMap, olAt, olDriven, olTopic, olHeld, olForced>>
      BY <2>2 DEF OnPreempt
    <3>4. olGeo' \in Ways /\ olSide' \in Sides
      BY <1>d, <3>1 DEF OneLineTypeInv
    <3> QED  BY <2>a, <3>2, <3>3, <3>4, Zenon DEF OneLineTypeInv
  <2>3. CASE GoalEnds
    <3>1. olPhase' \in Running \cup Ended
      BY <2>3 DEF GoalEnds, Ended
    <3> QED  BY <1>b, <2>3, <2>a, <3>1, Zenon DEF GoalEnds, OneLineTypeInv
  <2>4. CASE ApproachPlanned
    <3>1. olPhase' \in Running \cup Ended
      BY <2>4 DEF ApproachPlanned, Running
    <3>2. olForced' \in BOOLEAN
      BY <2>4, Zenon DEF ApproachPlanned, Planned
    <3> QED  BY <2>4, <2>a, <3>1, <3>2, Zenon DEF ApproachPlanned, OneLineTypeInv
  <2>5. CASE ApproachFollowed
    <3>1. olPhase' \in Running \cup Ended
      BY <2>5 DEF ApproachFollowed, Running
    <3>2. olAt' \in [line : Lines \cup {Nowhere}, point : 0 .. 2]
      BY <1>c, <2>5 DEF ApproachFollowed, OneLineTypeInv
    <3> QED  BY <2>5, <2>a, <3>1, <3>2, Zenon DEF ApproachFollowed, OneLineTypeInv
  <2>6. CASE SwathPlanned
    <3>1. olPhase' \in Running \cup Ended
      BY <2>6 DEF SwathPlanned, Running
    <3> QED  BY <2>6, <2>a, <3>1, Zenon DEF SwathPlanned, OneLineTypeInv
  <2>7. CASE SwathFollowed
    <3>1. /\ olAt' = EndOf(olMap) /\ olDriven' = olMap /\ olGeo' = Turned(olGeo)
          /\ UNCHANGED <<olSide, olHeld, olForced>>
      BY <2>7 DEF SwathFollowed, Reversed
    <3>2. olPreempted' \in BOOLEAN
      BY <2>7, Zenon DEF SwathFollowed
    <3>3. /\ olPhase' \in {"turnPlan", "failed"} /\ (olMap' = olGeo' \/ olMap' = olMap)
          /\ Publish(olSide) \/ olTopic' = olTopic
      BY <2>7 DEF SwathFollowed
    <3>4. olPhase' \in Running \cup Ended
      BY <3>3 DEF Running, Ended
    <3>5. olAt' \in [line : Lines \cup {Nowhere}, point : 0 .. 2] /\ olGeo' \in Ways
      BY <1>c, <3>1 DEF OneLineTypeInv
    <3>6. TopicKept'
      BY <2>a, <3>3, PublishKeeps DEF OneLineTypeInv
    <3> QED  BY <3>1, <3>2, <3>3, <3>4, <3>5, <3>6, Zenon DEF OneLineTypeInv
  <2>8. CASE TurnPlanned
    <3>1. olPhase' \in Running \cup Ended
      BY <2>8 DEF TurnPlanned, Running
    <3>2. olForced' \in BOOLEAN
      BY <2>8, Zenon DEF TurnPlanned, Planned
    <3>3. TopicKept'
      BY <1>a, <2>8, PublishKeeps, Zenon DEF TurnPlanned, OneLineTypeInv
    <3> QED  BY <2>8, <3>1, <3>2, <3>3, Zenon DEF TurnPlanned, OneLineTypeInv
  <2>9. CASE TurnFollowed
    <3>1. olPhase' \in Running \cup Ended
      BY <2>9 DEF TurnFollowed, Running
    <3>2. olAt' \in [line : Lines \cup {Nowhere}, point : 0 .. 2]
      BY <1>c, <2>9 DEF TurnFollowed, OneLineTypeInv
    <3> QED  BY <2>9, <2>a, <3>1, <3>2, Zenon DEF TurnFollowed, OneLineTypeInv
  <2>10. CASE ConstraintHeard
    <3>1. olTopic # <<>> /\ olHeld' = Head(olTopic) /\ olTopic' = Tail(olTopic)
          /\ UNCHANGED <<olPhase, olGeo, olMap, olSide, olAt, olDriven, olPreempted, olForced>>
      BY <2>10 DEF ConstraintHeard
    <3>2. olTopic \in Seq(Sides) /\ Len(olTopic) \in 1 .. 2
      <4>1. olTopic \in Seq(Sides) /\ Len(olTopic) <= 2
        BY Zenon DEF OneLineTypeInv, TopicKept
      <4>2. PICK n \in 0 .. 2 : Len(olTopic) = n
        BY <4>1, TopicLength
      <4>3. n # 0
        BY <3>1, <4>1, <4>2
      <4>4. n \in 1 .. 2
        BY ONLY n \in 0 .. 2, <4>3
      <4> QED  BY <4>1, <4>2, <4>4, Zenon
    <3>3. olHeld' \in Sides /\ TopicKept'
      BY <3>1, <3>2 DEF TopicKept
    <3> QED  BY <3>1, <3>3, Zenon DEF OneLineTypeInv
  <2>11. CASE UNCHANGED olVars
    BY <2>11, <2>a, Zenon DEF olVars, OneLineTypeInv
  <2> QED  BY <2>1, <2>2, <2>3, <2>4, <2>5, <2>6, <2>7, <2>8, <2>9, <2>10, <2>11 DEF OneLineNext
<1>3. OneLineTypeInv => OneLineTypeOK
  BY DEF OneLineTypeInv, OneLineTypeOK, TopicKept
<1> QED  BY <1>1, <1>2, <1>3, PTL DEF OneLineSpec

-----------------------------------------------------------------------------
\* The follower walks on its path, and has not set out while the approach is driven.
WalksPath ==
    /\ mapPoints \in Seq(Nat) /\ trimmed \in Seq(Nat) /\ lnAt \in 0 .. Len(trimmed)
    /\ lnPhase \in {"waitApproach", "approach"} => lnAt = 0

LineResults == {"NONE", "SUCCEEDED", "FAILED", "CANCELLED"}
LineFlags == atLine \in BOOLEAN /\ approached \in BOOLEAN /\ loaded \in BOOLEAN /\ isPaused \in BOOLEAN
PauseKept == pausedMsgs \in Seq(BOOLEAN) /\ Len(pausedMsgs) <= PauseDepth
LineTypeInv == LineInv /\ WalksPath /\ LineFlags /\ PauseKept /\ lnResult \in LineResults

\* What is trimmed is a path.
LEMMA TrimmedPath ==
    ASSUME NEW points \in Seq(Nat), Trim(points)
    PROVE  trimmed' \in Seq(Nat) /\ atLine' \in BOOLEAN
<1>1. PICK i \in 1 .. Len(points), near \in BOOLEAN :
         trimmed' = SubSeq(points, i, Len(points)) /\ atLine' = near
  BY Zenon DEF Trim
<1>2. SubSeq(points, i, Len(points)) \in Seq(Nat)
  OBVIOUS
<1> QED  BY <1>1, <1>2, Zenon

\* The points of a goal.
LEMMA OrientedPath == ASSUME NEW g \in LineGoals, Loads(g) PROVE Oriented(g) \in Seq(Nat)
<1>1. LineFiles[g.file] \in Seq(Nat)
  BY LineNavAssumption DEF LineGoals, Loads
<1>2. Reverse(LineFiles[g.file]) \in Seq(Nat)
  BY <1>1, ReversedLine
<1> QED  BY <1>1, <1>2, Zenon DEF Oriented

\* The nodes hear the last message.
LEMMA HeedsFlag == ASSUME LineTypeInv, Heeds PROVE isPaused' \in BOOLEAN /\ PauseKept'
<1>1. PauseDepth \in Nat
  BY LineNavAssumption
<1>2. pausedMsgs \in Seq(BOOLEAN) /\ isPaused \in BOOLEAN
  BY Zenon DEF LineTypeInv, LineFlags, PauseKept
<1>3. isPaused' = (IF pausedMsgs = <<>> THEN isPaused ELSE Last(pausedMsgs)) /\ pausedMsgs' = <<>>
  BY Zenon DEF Heeds
<1>4. \A q \in Seq(BOOLEAN) : q # <<>> => q[Len(q)] \in BOOLEAN
  OBVIOUS
<1>5. pausedMsgs # <<>> => Last(pausedMsgs) \in BOOLEAN
  BY <1>2, <1>4, Zenon DEF Last
<1>6. isPaused' \in BOOLEAN
  BY <1>2, <1>3, <1>5, Zenon
<1>7. <<>> \in Seq(BOOLEAN) /\ Len(<<>>) <= PauseDepth
  BY <1>1
<1> QED  BY <1>3, <1>6, <1>7, Zenon DEF PauseKept

\* The tree's first tick.
LEMMA FirstTickTyped ==
    ASSUME LineTypeInv, NEW points \in Seq(Nat), FirstTick(points)
    PROVE  WalksPath' /\ atLine' \in BOOLEAN /\ approached' \in BOOLEAN /\ lnResult' \in LineResults
<1>1. lnResult \in LineResults /\ atLine \in BOOLEAN /\ approached \in BOOLEAN
  BY Zenon DEF LineTypeInv, LineFlags
<1>2. mapPoints \in Seq(Nat) /\ trimmed \in Seq(Nat)
  BY Zenon DEF LineTypeInv, WalksPath
<1>3. CASE mapPoints' = points /\ Trim(points) /\ StartApproach /\ lnResult' = lnResult /\ lnAt' = 0
  <2>1. trimmed' \in Seq(Nat) /\ atLine' \in BOOLEAN
    BY <1>3, TrimmedPath
  <2>2. approached' \in BOOLEAN
    BY <1>3, Zenon DEF StartApproach
  <2>3. WalksPath'
    BY <1>3, <2>1 DEF WalksPath
  <2> QED  BY <1>1, <1>3, <2>1, <2>2, <2>3, Zenon
<1>4. CASE /\ EndMission("FAILED") /\ lnAt' = 0 /\ UNCHANGED <<trimmed, atLine, approached>>
           /\ mapPoints' = mapPoints \/ mapPoints' = points
  <2>1. mapPoints' \in Seq(Nat) /\ trimmed' \in Seq(Nat) /\ lnAt' = 0
    BY <1>2, <1>4, Zenon
  <2>2. WalksPath'
    BY <2>1 DEF WalksPath
  <2>3. lnResult' \in LineResults
    BY <1>4 DEF EndMission, LineResults
  <2> QED  BY <1>1, <1>4, <2>2, <2>3, Zenon
<1> QED
  <2>1. \/ mapPoints' = points /\ Trim(points) /\ StartApproach /\ lnResult' = lnResult /\ lnAt' = 0
        \/ /\ EndMission("FAILED") /\ lnAt' = 0 /\ UNCHANGED <<trimmed, atLine, approached>>
           /\ mapPoints' = mapPoints \/ mapPoints' = points
    BY Zenon DEF FirstTick, EnterLine
  <2> QED  BY <1>3, <1>4, <2>1, Zenon

\* What the loops change.
LEMMA TickTyped ==
    ASSUME LineTypeInv, ApproachTick \/ LineTick
    PROVE  WalksPath' /\ atLine' \in BOOLEAN /\ approached' \in BOOLEAN /\ lnResult' \in LineResults
<1>1. lnResult \in LineResults /\ atLine \in BOOLEAN /\ approached \in BOOLEAN
  BY Zenon DEF LineTypeInv, LineFlags
<1>2. WalksPath
  BY Zenon DEF LineTypeInv
<1>3. CASE FailMission
  <2>1. lnPhase' = "idle" /\ lnResult' = "FAILED" /\ UNCHANGED <<mapPoints, trimmed, atLine, approached, lnAt>>
    BY <1>3, Zenon DEF FailMission, EndMission
  <2>2. WalksPath' /\ lnResult' \in LineResults
    BY <1>2, <2>1 DEF WalksPath, LineResults
  <2> QED  BY <1>1, <2>1, <2>2, Zenon
<1>4. CASE lnPhase = "waitApproach" /\ RestartApproach
  <2>1. CASE Trim(mapPoints) /\ UNCHANGED <<mapPoints, approached, lnAt, lnResult>>
    <3>1. trimmed' \in Seq(Nat) /\ atLine' \in BOOLEAN
      BY <1>2, <2>1, TrimmedPath DEF WalksPath
    <3>2. WalksPath'
      <4>1. lnAt' = 0 /\ mapPoints' \in Seq(Nat)
        BY <1>2, <1>4, <2>1 DEF WalksPath
      <4> QED  BY <3>1, <4>1 DEF WalksPath
    <3> QED  BY <1>1, <2>1, <3>1, <3>2, Zenon
  <2> QED  BY <1>3, <1>4, <2>1, Zenon DEF RestartApproach
<1>5. CASE EnterLine /\ UNCHANGED <<mapPoints, trimmed, lnResult>> /\ approached' \in BOOLEAN /\ atLine' \in BOOLEAN
  <2>1. lnAt' = 0
    BY <1>5, Zenon DEF EnterLine
  <2>2. WalksPath'
    BY <1>2, <1>5, <2>1 DEF WalksPath
  <2> QED  BY <1>1, <1>5, <2>2, Zenon
<1>6. CASE ApproachTick
  <2>1. \/ lnPhase = "waitApproach" /\ RestartApproach
        \/ approached' = TRUE /\ atLine' = TRUE /\ EnterLine /\ UNCHANGED <<mapPoints, trimmed, lnResult>>
        \/ EnterLine /\ UNCHANGED <<mapPoints, trimmed, atLine, approached, lnResult>>
        \/ FailMission
    BY <1>6, Zenon DEF ApproachTick
  <2> QED  BY <1>1, <1>3, <1>4, <1>5, <2>1, Zenon
<1>7. CASE LineTick
  <2>1. CASE lnPhase' = "line" /\ UNCHANGED <<mapPoints, trimmed, atLine, approached, lnAt, lnResult>>
    <3>1. WalksPath'
      BY <1>2, <2>1 DEF WalksPath
    <3> QED  BY <1>1, <2>1, <3>1, Zenon
  <2>2. CASE lnPhase = "line" /\ lnAt < Len(trimmed) /\ lnAt' = lnAt + 1
             /\ UNCHANGED <<mapPoints, trimmed, atLine, approached, lnPhase, lnResult>>
    <3>1. WalksPath'
      BY <1>2, <2>2 DEF WalksPath
    <3> QED  BY <1>1, <2>2, <3>1, Zenon
  <2>3. CASE EndMission("SUCCEEDED") /\ UNCHANGED <<mapPoints, trimmed, atLine, approached, lnAt>>
    <3>1. WalksPath' /\ lnResult' \in LineResults
      BY <1>2, <2>3 DEF EndMission, WalksPath, LineResults
    <3> QED  BY <1>1, <2>3, <3>1, Zenon
  <2>4. \/ lnPhase' = "line" /\ UNCHANGED <<mapPoints, trimmed, atLine, approached, lnAt, lnResult>>
        \/ lnPhase = "line" /\ lnAt < Len(trimmed) /\ lnAt' = lnAt + 1
             /\ UNCHANGED <<mapPoints, trimmed, atLine, approached, lnPhase, lnResult>>
        \/ EndMission("SUCCEEDED") /\ UNCHANGED <<mapPoints, trimmed, atLine, approached, lnAt>>
        \/ FailMission
    BY <1>7, Zenon DEF LineTick
  <2> QED  BY <1>3, <2>1, <2>2, <2>3, <2>4, Zenon
<1> QED  BY <1>6, <1>7

\* Every step of the mission keeps the types.
LEMMA LineTypeStep == LineTypeInv /\ [LineNavNext]_lnVars => LineTypeInv'
<1> SUFFICES ASSUME LineTypeInv, [LineNavNext]_lnVars PROVE LineTypeInv'
  OBVIOUS
<1>1. LineInv'
  BY LineInvStep, Zenon DEF LineTypeInv
<1>2. WalksPath /\ LineFlags /\ PauseKept /\ lnResult \in LineResults /\ LineInv
  BY Zenon DEF LineTypeInv
<1>3. CASE LineGoalReceived
  <2>1. PICK g \in LineGoals :
          /\ loaded' = TRUE /\ Heeds
          /\ IF Loads(g) /\ Len(LineFiles[g.file]) >= 2
             THEN FirstTick(Oriented(g))
             ELSE UNCHANGED <<mapPoints, trimmed, atLine, approached, lnPhase, lnAt, lnResult>>
    BY <1>2, <1>3 DEF LineGoalReceived, LineInv
  <2>2. isPaused' \in BOOLEAN /\ PauseKept' /\ loaded' \in BOOLEAN
    BY <2>1, HeedsFlag, Zenon
  <2>3. WalksPath' /\ atLine' \in BOOLEAN /\ approached' \in BOOLEAN /\ lnResult' \in LineResults
    <3>1. CASE Loads(g) /\ FirstTick(Oriented(g))
      BY <3>1, OrientedPath, FirstTickTyped
    <3>2. CASE UNCHANGED <<mapPoints, trimmed, atLine, approached, lnPhase, lnAt, lnResult>>
      <4>1. WalksPath'
        BY <1>2, <3>2 DEF WalksPath
      <4> QED  BY <1>2, <3>2, <4>1, Zenon DEF LineFlags
    <3> QED  BY <2>1, <3>1, <3>2, Zenon
  <2> QED  BY <1>1, <2>2, <2>3, Zenon DEF LineTypeInv, LineFlags
<1>4. CASE LinePreempt
  <2>1. UNCHANGED <<mapPoints, trimmed, atLine, approached, lnPhase, lnAt, loaded, pausedMsgs, isPaused, lnResult>>
    BY <1>4, Zenon DEF LinePreempt
  <2>2. WalksPath'
    BY <1>2, <2>1 DEF WalksPath
  <2> QED  BY <1>1, <1>2, <2>1, <2>2, Zenon DEF LineTypeInv, LineFlags, PauseKept
<1>5. CASE Tick
  <2>1. isPaused' \in BOOLEAN /\ PauseKept' /\ loaded' = loaded
    BY <1>5, HeedsFlag, Zenon DEF Tick
  <2>2. WalksPath' /\ atLine' \in BOOLEAN /\ approached' \in BOOLEAN /\ lnResult' \in LineResults
    <3>1. CASE ApproachTick \/ LineTick
      BY <3>1, TickTyped
    <3>2. CASE HaltFollower /\ UNCHANGED <<mapPoints, trimmed, atLine, approached, lnAt, lnResult>>
      <4>1. WalksPath'
        BY <1>2, <3>2 DEF WalksPath, HaltFollower
      <4> QED  BY <1>2, <3>2, <4>1, Zenon DEF LineFlags
    <3> QED  BY <1>5, <3>1, <3>2, Zenon DEF Tick
  <2> QED  BY <1>1, <1>2, <2>1, <2>2, Zenon DEF LineTypeInv, LineFlags
<1>6. CASE LineCancel
  <2>1. lnPhase' = "idle" /\ lnResult' = "CANCELLED"
        /\ UNCHANGED <<mapPoints, trimmed, atLine, approached, lnAt, loaded, pausedMsgs, isPaused>>
    BY <1>6, Zenon DEF LineCancel, EndMission
  <2>2. WalksPath' /\ lnResult' \in LineResults
    BY <1>2, <2>1 DEF WalksPath, LineResults
  <2> QED  BY <1>1, <1>2, <2>1, <2>2, Zenon DEF LineTypeInv, LineFlags, PauseKept
<1>7. CASE PublishPause
  <2>1. UNCHANGED <<mapPoints, trimmed, atLine, approached, lnPhase, lnAt, loaded, isPaused, lnResult>>
    BY <1>7, Zenon DEF PublishPause
  <2>2. PICK p \in BOOLEAN : pausedMsgs' = IF loaded /\ Len(pausedMsgs) < PauseDepth
                                            THEN Append(pausedMsgs, p) ELSE pausedMsgs
    BY <1>7, Zenon DEF PublishPause
  <2>3. PauseKept'
    <3>1. \A q \in Seq(BOOLEAN), d \in Nat : Len(q) < d => Append(q, p) \in Seq(BOOLEAN) /\ Len(Append(q, p)) <= d
      OBVIOUS
    <3>2. PauseDepth \in Nat
      BY LineNavAssumption
    <3> QED  BY <1>2, <2>2, <3>1, <3>2, Zenon DEF PauseKept
  <2>4. WalksPath'
    BY <1>2, <2>1 DEF WalksPath
  <2> QED  BY <1>1, <1>2, <2>1, <2>3, <2>4, Zenon DEF LineTypeInv, LineFlags
<1>8. CASE UNCHANGED lnVars
  <2>1. UNCHANGED <<mapPoints, trimmed, atLine, approached, lnPhase, lnAt, loaded, pausedMsgs, isPaused, lnResult>>
    BY <1>8, Zenon DEF lnVars
  <2>2. WalksPath'
    BY <1>2, <2>1 DEF WalksPath
  <2> QED  BY <1>1, <1>2, <2>1, <2>2, Zenon DEF LineTypeInv, LineFlags, PauseKept
<1> QED  BY <1>3, <1>4, <1>5, <1>6, <1>7, <1>8, Zenon DEF LineNavNext

\* The mission keeps its types; the follower never walks past the end of its path.
THEOREM LineTyped == LineNavSpec => []LineNavTypeOK
<1>1. LineNavInit => LineTypeInv
  <2> SUFFICES ASSUME LineNavInit PROVE LineTypeInv
    OBVIOUS
  <2>1. LineInv
    BY LineInvInit
  <2>2. LineFlags
    BY Zenon DEF LineNavInit, LineFlags
  <2>3. mapPoints = <<>> /\ trimmed = <<>> /\ lnAt = 0 /\ pausedMsgs = <<>> /\ lnResult = "NONE"
    BY Zenon DEF LineNavInit
  <2>4. WalksPath /\ lnResult \in LineResults
    BY <2>3 DEF WalksPath, LineResults
  <2>5. <<>> \in Seq(BOOLEAN) /\ Len(<<>>) <= PauseDepth
    BY LineNavAssumption
  <2> QED  BY <2>1, <2>2, <2>3, <2>4, <2>5, Zenon DEF LineTypeInv, PauseKept
<1>2. LineTypeInv => LineNavTypeOK
  <2> SUFFICES ASSUME LineTypeInv PROVE LineNavTypeOK
    OBVIOUS
  <2>1. {atLine, approached, loaded, isPaused} \subseteq BOOLEAN
    BY Zenon DEF LineTypeInv, LineFlags
  <2> QED  BY <2>1, Zenon DEF LineTypeInv, LineInv, WalksPath, PauseKept, LineResults, LineNavTypeOK
<1> QED  BY <1>1, <1>2, LineTypeStep, PTL DEF LineNavSpec

-----------------------------------------------------------------------------
\* p is so near the place where the turn began.
Around(p, n) == p.at[1] \in -n .. n /\ p.at[2] \in -n .. n

\* An arc ends no more than two radii further off, along either axis.
LEMMA ArcStaysAround ==
    ASSUME NEW p \in Lattice, NEW n \in Nat, Around(p, n), NEW k \in Int,
           NEW left \in BOOLEAN, NEW forward \in BOOLEAN
    PROVE  Around(ArcEnd(p, k, left, forward), n + 2)
<1> DEFINE e == IF forward THEN 1 ELSE -1
           h == (p.h + e * Side(left) * k) % 6
<1>1. PICK s \in {-1, 1} : s = Side(left)
  BY DEF Side
<1>2. p.h \in 0 .. 5 /\ p.at[1] \in -n .. n /\ p.at[2] \in -n .. n
  BY Fields6 DEF Around
<1>3. h \in 0 .. 5
  <2>1. e * s \in {-1, 1}
    BY <1>1
  <2>2. PICK j \in Int : j = e * s * k
    BY <2>1
  <2>3. (p.h + j) % 6 \in 0 .. 5
    BY <1>2
  <2> QED  BY <1>1, <2>2, <2>3
<1>4. \A g \in 0 .. 5 : Left(g)[1] \in -1 .. 1 /\ Left(g)[2] \in -1 .. 1
  <2>1. /\ Left(0) = <<1, 0>> /\ Left(1) = <<0, 1>> /\ Left(2) = <<-1, 1>>
        /\ Left(3) = <<-1, 0>> /\ Left(4) = <<0, -1>> /\ Left(5) = <<1, -1>>
    BY DEF Left
  <2> TAKE g \in 0 .. 5
  <2>2. g = 0 \/ g = 1 \/ g = 2 \/ g = 3 \/ g = 4 \/ g = 5
    OBVIOUS
  <2> QED  BY <2>1, <2>2
<1>5. ArcEnd(p, k, left, forward).at = Plus(Centre(p, left), -Side(left), Left(h))
  <2>1. h = (p.h + e * Side(left) * k) % 6 /\ e = IF forward THEN 1 ELSE -1
    OBVIOUS
  <2> HIDE DEF h, e
  <2> QED  BY <2>1, ArcPose
<1> HIDE DEF h
<1>6. PICK a \in -1 .. 1, b \in -1 .. 1, c \in -1 .. 1, d \in -1 .. 1 :
        a = Left(p.h)[1] /\ b = Left(p.h)[2] /\ c = Left(h)[1] /\ d = Left(h)[2]
  BY <1>2, <1>3, <1>4
<1>7. Centre(p, left)[1] = p.at[1] + s * a /\ Centre(p, left)[2] = p.at[2] + s * b
  BY <1>1, <1>6 DEF Centre, Plus
<1>8. /\ ArcEnd(p, k, left, forward).at[1] = p.at[1] + s * a + (-s) * c
      /\ ArcEnd(p, k, left, forward).at[2] = p.at[2] + s * b + (-s) * d
  BY <1>1, <1>5, <1>6, <1>7 DEF Plus
<1>9. PICK u \in -2 .. 2, v \in -2 .. 2 : u = s * a + (-s) * c /\ v = s * b + (-s) * d
  <2>1. CASE s = 1
    <3>1. s * a + (-s) * c = a - c /\ s * b + (-s) * d = b - d
      BY <2>1
    <3>2. a - c \in -2 .. 2 /\ b - d \in -2 .. 2
      OBVIOUS
    <3> QED  BY <3>1, <3>2
  <2>2. CASE s = -1
    <3>1. s * a + (-s) * c = c - a /\ s * b + (-s) * d = d - b
      BY <2>2
    <3>2. c - a \in -2 .. 2 /\ d - b \in -2 .. 2
      OBVIOUS
    <3> QED  BY <3>1, <3>2
  <2> QED  BY <2>1, <2>2
<1>10. ArcEnd(p, k, left, forward).at[1] = p.at[1] + u /\ ArcEnd(p, k, left, forward).at[2] = p.at[2] + v
  <2>1. PICK x \in -n .. n, y \in -n .. n : x = p.at[1] /\ y = p.at[2]
    BY <1>2
  <2>2. ArcEnd(p, k, left, forward).at[1] = x + s * a + (-s) * c
    BY <1>8, <2>1
  <2>3. ArcEnd(p, k, left, forward).at[2] = y + s * b + (-s) * d
    BY <1>8, <2>1
  <2>4. PICK sa \in Int, sc \in Int, sb \in Int, sd \in Int :
          sa = s * a /\ sc = (-s) * c /\ sb = s * b /\ sd = (-s) * d
    BY <1>1
  <2> QED  BY <1>9, <2>1, <2>2, <2>3, <2>4
<1> QED
  <2>1. PICK x \in -n .. n, y \in -n .. n : x = p.at[1] /\ y = p.at[2]
    BY <1>2
  <2>2. x + u \in -(n + 2) .. n + 2 /\ y + v \in -(n + 2) .. n + 2
    OBVIOUS
  <2> QED  BY <1>10, <2>1, <2>2 DEF Around

\* So near, it is a pose of the turn.
LEMMA PosesAround ==
    ASSUME NEW p \in Lattice, NEW n \in Nat, n <= Reach + 9, Around(p, n)
    PROVE  p \in TurnPose
<1>1. Reach \in Nat
  BY SwathTurnAssumption
<1>2. p.at = <<p.at[1], p.at[2]>> /\ p.at[1] \in -(Reach + 9) .. Reach + 9 /\ p.at[2] \in -(Reach + 9) .. Reach + 9
  BY <1>1, Fields6 DEF Around
<1>3. p.at \in (-(Reach + 9) .. Reach + 9) \X (-(Reach + 9) .. Reach + 9)
  BY <1>2
<1> QED  BY <1>3 DEF Lattice, TurnPose

\* Each of the first two parts leads two radii further at most.
TurnTypeInv ==
    /\ TurnInv
    /\ swath \in [at : Spot, h : 0 .. 5] /\ joined \in BOOLEAN /\ joinedAt \in TurnPose
    /\ turn \in 0 .. 2 => Around(robot, 2 * turn)
    /\ turn = 3 => robot = swath

\* Where a swath begins is a pose of the turn.
LEMMA Swaths == ASSUME NEW p \in [at : Spot, h : 0 .. 5] PROVE p \in TurnPose
<1>1. Reach \in Nat
  BY SwathTurnAssumption
<1>2. PICK a \in -Reach .. Reach, b \in -Reach .. Reach : p.at = <<a, b>>
  BY DEF Spot
<1>3. a \in -(Reach + 9) .. Reach + 9 /\ b \in -(Reach + 9) .. Reach + 9
  BY <1>1
<1> QED  BY <1>2, <1>3 DEF TurnPose

\* The turn begins at the origin.
LEMMA TurnTypeStart == TurnInit => TurnTypeInv
<1> SUFFICES ASSUME TurnInit PROVE TurnTypeInv
  OBVIOUS
<1>1. TurnInv /\ robot \in Lattice
  BY TurnStart DEF TurnInv
<1>2. robot = [at |-> <<0, 0>>, h |-> 0] /\ joinedAt = robot /\ turn = 0 /\ swath \in [at : Spot, h : 0 .. 5]
  BY Zenon DEF TurnInit
<1>3. joined \in BOOLEAN
  BY Zenon DEF TurnInit
<1>4. Around(robot, 0)
  BY <1>2 DEF Around
<1>5. Reach \in Nat
  BY SwathTurnAssumption
<1>6. robot \in TurnPose
  BY <1>1, <1>4, <1>5, PosesAround
<1>7. turn \in 0 .. 2 /\ 2 * turn = 0 /\ turn # 3
  BY <1>2
<1> QED  BY <1>1, <1>2, <1>3, <1>4, <1>6, <1>7, Zenon DEF TurnTypeInv

\* Every part of the turn keeps its poses near.
LEMMA TurnTypeStep == TurnTypeInv /\ [TurnNext]_turnVars => TurnTypeInv'
<1> SUFFICES ASSUME TurnTypeInv, [TurnNext]_turnVars PROVE TurnTypeInv'
  OBVIOUS
<1>1. TurnInv' /\ TurnInv
  BY TurnStep, Zenon DEF TurnTypeInv
<1>2. robot \in Lattice /\ robot' \in Lattice /\ Reach \in Nat
  BY <1>1, SwathTurnAssumption DEF TurnInv
<1>3. swath \in [at : Spot, h : 0 .. 5] /\ joined \in BOOLEAN /\ joinedAt \in TurnPose
  BY Zenon DEF TurnTypeInv
<1>4. CASE Segment1
  <2>1. turn = 0 /\ turn' = 1 /\ robot' = ArcEnd(robot, 2, TRUE, TRUE) /\ UNCHANGED <<swath, joined, joinedAt>>
    BY <1>4, Zenon DEF Segment1
  <2>2. Around(robot, 0)
    BY <2>1 DEF TurnTypeInv
  <2>3. TRUE \in BOOLEAN
    BY Zenon
  <2>4. Around(ArcEnd(robot, 2, TRUE, TRUE), 0 + 2)
    <3>1. 2 \in Int /\ 0 \in Nat
      OBVIOUS
    <3> QED  BY <1>2, <2>2, <2>3, <3>1, ArcStaysAround, Zenon
  <2>5. Around(robot', 2 * turn')
    <3>1. 2 * turn' = 0 + 2
      BY <2>1
    <3> QED  BY <2>1, <2>4, <3>1, Zenon
  <2>6. turn' # 3
    BY <2>1
  <2> QED  BY <1>1, <1>3, <2>1, <2>5, <2>6, Zenon DEF TurnTypeInv
<1>5. CASE Segment2
  <2>1. turn = 1 /\ turn' = 2 /\ robot' = ArcEnd(robot, 1, FALSE, FALSE) /\ UNCHANGED <<swath, joined, joinedAt>>
    BY <1>5, Zenon DEF Segment2
  <2>2. Around(robot, 2)
    BY <2>1 DEF TurnTypeInv
  <2>3. FALSE \in BOOLEAN
    BY Zenon
  <2>4. Around(ArcEnd(robot, 1, FALSE, FALSE), 2 + 2)
    <3>1. 1 \in Int /\ 2 \in Nat
      OBVIOUS
    <3> QED  BY <1>2, <2>2, <2>3, <3>1, ArcStaysAround, Zenon
  <2>5. Around(robot', 2 * turn')
    <3>1. 2 * turn' = 2 + 2
      BY <2>1
    <3> QED  BY <2>1, <2>4, <3>1, Zenon
  <2>6. turn' # 3
    BY <2>1
  <2> QED  BY <1>1, <1>3, <2>1, <2>5, <2>6, Zenon DEF TurnTypeInv
<1>6. CASE Drift
  <2>1. PICK h \in 0 .. 5 : robot' = [at |-> robot.at, h |-> h]
    BY <1>6 DEF Drift
  <2>2. turn \in {1, 2} /\ UNCHANGED <<swath, turn, joined, joinedAt>> /\ robot'.at = robot.at
    BY <1>6, <2>1 DEF Drift
  <2>3. turn \in 0 .. 2 /\ turn # 3
    BY <2>2
  <2>4. Around(robot', 2 * turn)
    BY <2>2, <2>3 DEF TurnTypeInv, Around
  <2> QED  BY <1>1, <1>3, <2>2, <2>3, <2>4, Zenon DEF TurnTypeInv
<1>7. CASE Segment3
  <2>1. turn = 2 /\ turn' = 3 /\ robot' = swath /\ swath' = swath /\ joined' = (Connections # {})
    BY <1>7, Zenon DEF Segment3
  <2>2. joined' \in BOOLEAN
    BY <2>1, Zenon
  <2>3. joinedAt' \in TurnPose
    <3>1. CASE Connections = {}
      BY <1>3, <1>7, <3>1, Swaths DEF Segment3
    <3>2. CASE Connections # {}
      <4>1. PICK c \in Connections : joinedAt' = ArcEnd(robot, Sweep(c[1], c[2]), c[1], TRUE)
        BY <1>7, <3>2 DEF Segment3
      <4>2. c[1] \in BOOLEAN /\ c[2] \in BOOLEAN /\ Joins(c[1], c[2])
        BY DEF Connections
      <4>3. PICK k \in Int : k = Sweep(c[1], c[2])
        BY <4>2 DEF Joins
      <4>4. Around(robot, 4)
        BY <2>1 DEF TurnTypeInv
      <4>5. TRUE \in BOOLEAN /\ 4 \in Nat
        OBVIOUS
      <4>6. Around(ArcEnd(robot, k, c[1], TRUE), 4 + 2)
        BY <1>2, <4>2, <4>4, <4>5, ArcStaysAround, Zenon
      <4>7. ArcEnd(robot, k, c[1], TRUE) \in Lattice
        BY <1>2, <4>2, <4>5, ArcOnLattice, Zenon
      <4>8. 4 + 2 \in Nat /\ 4 + 2 <= Reach + 9
        BY <1>2
      <4>9. ArcEnd(robot, k, c[1], TRUE) \in TurnPose
        BY <4>6, <4>7, <4>8, PosesAround, Zenon
      <4> QED  BY <4>1, <4>3, <4>9, Zenon
    <3> QED  BY <3>1, <3>2
  <2>4. turn' \notin 0 .. 2
    BY <2>1
  <2> QED  BY <1>1, <1>3, <2>1, <2>2, <2>3, <2>4, Zenon DEF TurnTypeInv
<1>8. CASE NextTurn
  <2>1. turn' = 0 /\ robot' = [at |-> <<0, 0>>, h |-> 0] /\ joinedAt' = robot' /\ swath' = swath
    BY <1>8, Zenon DEF NextTurn
  <2>2. joined' \in BOOLEAN
    BY <1>8, Zenon DEF NextTurn
  <2>3. Around(robot', 0)
    BY <2>1 DEF Around
  <2>4. joinedAt' \in TurnPose
    BY <1>2, <2>1, <2>3, PosesAround
  <2>5. 2 * turn' = 0 /\ turn' # 3
    BY <2>1
  <2> QED  BY <1>1, <1>3, <2>1, <2>2, <2>3, <2>4, <2>5, Zenon DEF TurnTypeInv
<1>9. CASE UNCHANGED turnVars
  <2>1. UNCHANGED <<robot, swath, turn, joined, joinedAt>>
    BY <1>9, Zenon DEF turnVars
  <2> QED  BY <1>1, <2>1, Zenon DEF TurnTypeInv
<1> QED  BY <1>4, <1>5, <1>6, <1>7, <1>8, <1>9, Zenon DEF TurnNext

\* The turn's poses stay within the headland, wherever the next swath begins.
THEOREM TurnTyped == TurnSpec => []TurnTypeOK
<1>1. TurnTypeInv => TurnTypeOK
  <2> SUFFICES ASSUME TurnTypeInv PROVE TurnTypeOK
    OBVIOUS
  <2>1. turn \in 0 .. 3 /\ robot \in Lattice /\ Reach \in Nat
    BY SwathTurnAssumption DEF TurnTypeInv, TurnInv
  <2>2. swath \in TurnPose
    BY Swaths DEF TurnTypeInv
  <2>3. robot \in TurnPose
    <3>1. CASE turn = 3
      BY <2>2, <3>1 DEF TurnTypeInv
    <3>2. CASE turn # 3
      <4>1. turn \in 0 .. 2 /\ 2 * turn \in Nat /\ 2 * turn <= Reach + 9
        BY <2>1, <3>2
      <4>2. Around(robot, 2 * turn)
        BY <4>1, Zenon DEF TurnTypeInv
      <4> QED  BY <2>1, <4>1, <4>2, PosesAround, Zenon
    <3> QED  BY <3>1, <3>2
  <2> QED  BY <2>1, <2>2, <2>3, Zenon DEF TurnTypeInv, TurnTypeOK
<1> QED  BY <1>1, TurnTypeStart, TurnTypeStep, PTL DEF TurnSpec

-----------------------------------------------------------------------------
\* The paths the controller is given are no longer than their steps make them.
LEMMA PathsEnd == ASSUME NEW p \in Paths PROVE Len(p) \in 0 .. MaxRsPoses + 1
<1>1. MaxRsPoses \in Nat \ {0}
  BY RsAssumption
<1>2. CASE p \in {<<>>, <<0>>}
  <2>1. Len(<<>>) = 0 /\ Len(<<0>>) = 1
    OBVIOUS
  <2>2. Len(p) = 0 \/ Len(p) = 1
    BY <1>2, <2>1
  <2> QED  BY <1>1, <2>2
<1>3. CASE \E s \in StepPaths : p = Waypoints(s)
  <2>1. PICK s \in StepPaths : p = Waypoints(s)
    BY <1>3
  <2>2. PICK n \in 1 .. MaxRsPoses : s \in [1 .. n -> {Ahead, -Back}]
    BY DEF StepPaths
  <2>3. n \in Nat /\ n + 1 \in Nat /\ Len(s) = n
    BY <1>1, <2>2
  <2>4. DOMAIN p = 1 .. n + 1
    BY <2>1, <2>3 DEF Waypoints
  <2>5. p \in Seq(Int)
    BY PathsStep DEF Stepwise
  <2>6. Len(p) = n + 1
    BY <2>3, <2>4, <2>5
  <2> QED  BY <1>1, <2>2, <2>6
<1> QED  BY <1>2, <1>3 DEF Paths

\* The places of the path the controller knows of.
Places == 1 .. Max({1, Len(rsPath)})

\* An empty path counts as one place.
LEMMA PlacesAre ==
    ASSUME NEW p \in Seq(Int)
    PROVE  /\ 1 .. Max({1, Len(p)}) = IF Len(p) = 0 THEN 1 .. 1 ELSE 1 .. Len(p)
           /\ 1 \in 1 .. Max({1, Len(p)})
<1>1. PICK n \in Nat : n = Len(p)
  OBVIOUS
<1>2. Max({1, n}) = IF n = 0 THEN 1 ELSE n
  BY OfTwo
<1>3. 1 .. Max({1, n}) = IF n = 0 THEN 1 .. 1 ELSE 1 .. n
  BY <1>2
<1>4. 1 \in 1 .. Max({1, n})
  <2>1. PICK m \in Nat : m = Max({1, n}) /\ m >= 1
    BY <1>2
  <2>2. \A k \in Nat : k >= 1 => 1 \in 1 .. k
    BY SMT
  <2>3. 1 \in 1 .. m
    BY <2>1, <2>2, Zenon
  <2> QED  BY <2>1, <2>3, Zenon
<1> QED  BY <1>1, <1>3, <1>4

RsCmdOK == rsCmd.v \in Int /\ rsCmd.turn \in -1 .. 1 /\ rsCmd.stamp \in {0, 1} /\ rsCmd.look \in Places

\* Between two paths the index is at the first place.
RsTypeInv ==
    /\ RsInv
    /\ Len(rsPath) <= MaxRsPoses + 1 /\ rsIdx \in Places
    /\ rsLimit \in SpeedLimits \cup {NoLimit}
    /\ RsCmdOK

\* Every step of the controller keeps the types.
LEMMA RsTypeStep == RsTypeInv /\ [RsNext]_rsVars => RsTypeInv'
<1> SUFFICES ASSUME RsTypeInv, [RsNext]_rsVars PROVE RsTypeInv'
  OBVIOUS
<1>1. RsInv /\ RsInv'
  BY RsStep DEF RsTypeInv
<1>2. rsPath \in Seq(Int) /\ rsPath' \in Seq(Int) /\ MaxRsPoses \in Nat
  BY <1>1, RsAssumption DEF RsInv, Stepwise
<1>3. CASE SetPlan
  <2>1. rsPath' \in Paths /\ rsIdx' = 1 /\ rsCmd' = Idle /\ rsLimit' = rsLimit
    BY <1>3 DEF SetPlan
  <2>2. Len(rsPath') <= MaxRsPoses + 1
    BY <1>2, <2>1, PathsEnd
  <2>3. RsCmdOK' /\ rsIdx' \in Places'
    <3>1. rsCmd'.v = 0 /\ rsCmd'.turn = 0 /\ rsCmd'.look = 1 /\ rsCmd'.stamp = 0
      BY <2>1, Zenon DEF Idle
    <3>2. 1 \in Places'
      <4>1. 1 \in 1 .. Max({1, Len(rsPath')})
        BY <1>2, PlacesAre, Zenon
      <4> QED  BY <4>1 DEF Places
    <3> QED  BY <2>1, <3>1, <3>2 DEF RsCmdOK
  <2> QED  BY <1>1, <2>1, <2>2, <2>3 DEF RsTypeInv
<1>4. CASE GoalReached \/ Abandoned
  <2>1. rsPath' = <<>> /\ rsIdx' = 1 /\ rsCmd' = Idle /\ rsLimit' = rsLimit
    BY <1>4 DEF GoalReached, Abandoned
  <2>2. Len(rsPath') <= MaxRsPoses + 1
    BY <1>2, <2>1
  <2>3. RsCmdOK' /\ rsIdx' \in Places'
    <3>1. rsCmd'.v = 0 /\ rsCmd'.turn = 0 /\ rsCmd'.look = 1 /\ rsCmd'.stamp = 0
      BY <2>1, Zenon DEF Idle
    <3>2. 1 \in Places'
      <4>1. 1 \in 1 .. Max({1, Len(rsPath')})
        BY <1>2, PlacesAre, Zenon
      <4> QED  BY <4>1 DEF Places
    <3> QED  BY <2>1, <3>1, <3>2 DEF RsCmdOK
  <2> QED  BY <1>1, <2>1, <2>2, <2>3 DEF RsTypeInv
<1>5. CASE SetSpeedLimit \/ UNCHANGED rsVars
  <2>1. UNCHANGED <<rsPath, rsIdx, rsCmd>> /\ (rsLimit' \in SpeedLimits \/ rsLimit' = rsLimit)
    BY <1>5 DEF SetSpeedLimit, rsVars
  <2> QED  BY <1>1, <2>1 DEF RsTypeInv, RsCmdOK, Places
<1>6. CASE ComputeVelocityCommands
  <2>1. rsPath # <<>> /\ rsPath' = rsPath /\ rsLimit' = rsLimit
    BY <1>6 DEF ComputeVelocityCommands
  <2> DEFINE i == ClosestIndex(rsRobot.x)
  <2>2. rsIdx' = i /\ rsCmd' = Steered(i)
    BY <1>6, Zenon DEF ComputeVelocityCommands
  <2>3. rsRobot.x \in Int /\ rsRobot.y \in -1 .. 1 /\ Stepwise(rsPath) /\ Len(rsPath) \in Nat \ {0}
    BY <1>1, <1>2, <2>1 DEF RsInv
  <2>4. i \in 1 .. Len(rsPath)
    BY <1>1, <2>1, <2>3, ClosestFound
  <2> HIDE DEF i
  <2>5. Places' = 1 .. Len(rsPath)
    <3>1. Places' = Places
      BY <2>1 DEF Places
    <3>2. 1 .. Max({1, Len(rsPath)}) = 1 .. Len(rsPath)
      BY <1>2, <2>3, PlacesAre
    <3> QED  BY <3>1, <3>2 DEF Places
  <2>6. /\ rsCmd'.v = IF IsReverse(i) THEN -Speed ELSE Speed
        /\ rsCmd'.turn = IF Speed = 0 THEN 0 ELSE Turn(i)
        /\ rsCmd'.look = LookIndex(i) /\ rsCmd'.stamp = 1 - rsCmd.stamp
    BY <2>2, Zenon DEF Steered
  <2>7. Speed \in Nat /\ TangentYaw(i) \in {-1, 1}
    BY <1>1, <2>1, <2>3, <2>4, Speeds, Directions
  <2>8. rsCmd'.v \in Int
    BY <2>6, <2>7
  <2>9. rsCmd'.turn \in -1 .. 1
    <3>1. PICK u \in -1 .. 1 : u = TangentYaw(i) * rsRobot.y
      BY <2>3, <2>7
    <3>2. Turn(i) = -Sign(u)
      BY <3>1 DEF Turn
    <3>3. Sign(u) \in -1 .. 1
      BY DEF Sign
    <3> QED  BY <2>6, <3>2, <3>3
  <2>10. rsCmd'.look \in 1 .. Len(rsPath)
    <3>1. LookIndex(i) \in i .. SegmentEndIndex(i) /\ SegmentEndIndex(i) \in i .. Len(rsPath)
      BY <2>3, <2>4, LooksWithin, SegmentEnds
    <3> QED  BY <2>3, <2>4, <2>6, <3>1
  <2>11. rsCmd'.stamp \in {0, 1}
    BY <2>6 DEF RsTypeInv, RsCmdOK
  <2>12. RsCmdOK' /\ rsIdx' \in Places'
    BY <2>2, <2>4, <2>5, <2>8, <2>9, <2>10, <2>11 DEF RsCmdOK
  <2> QED  BY <1>1, <2>1, <2>12 DEF RsTypeInv
<1> QED  BY <1>3, <1>4, <1>5, <1>6 DEF RsNext, RsTask

\* The controller keeps its types: the index and the target stay within the path.
THEOREM RsTyped == RsSpec => []RsTypeOK
<1>1. RsInit => RsTypeInv
  <2> SUFFICES ASSUME RsInit PROVE RsTypeInv
    OBVIOUS
  <2>1. RsInv
    BY RsStarts
  <2>2. rsPath = <<>> /\ rsIdx = 1 /\ rsLimit = NoLimit /\ rsCmd = Idle
    BY DEF RsInit
  <2>3. rsPath \in Seq(Int) /\ Len(rsPath) = 0 /\ MaxRsPoses \in Nat
    BY <2>2, RsAssumption
  <2>4. RsCmdOK /\ rsIdx \in Places
    <3>1. rsCmd.v = 0 /\ rsCmd.turn = 0 /\ rsCmd.look = 1 /\ rsCmd.stamp = 0
      BY <2>2, Zenon DEF Idle
    <3>2. 1 \in Places
      BY <2>3, PlacesAre, Zenon DEF Places
    <3> QED  BY <2>2, <3>1, <3>2 DEF RsCmdOK
  <2> QED  BY <2>1, <2>2, <2>3, <2>4 DEF RsTypeInv
<1>2. RsTypeInv => RsTypeOK
  BY DEF RsTypeInv, RsInv, RsCmdOK, Places, RsTypeOK
<1> QED  BY <1>1, <1>2, RsTypeStep, PTL DEF RsSpec

-----------------------------------------------------------------------------
\* What is off the line by so much lies that far to one side.
LEMMA OffIsNat == ASSUME NEW x \in Int PROVE Off(x) \in Nat /\ (Off(x) <= MaxSide => x \in -MaxSide .. MaxSide)
<1>1. -x \in Int /\ MaxSide \in Nat
  BY ToolFollowerAssumption
<1>2. Max({x, -x}) = IF x >= -x THEN x ELSE -x
  BY <1>1, OfTwo
<1> QED  BY <1>1, <1>2 DEF Off

\* The segment found is one of the path's, or the last pose.
LEMMA ClosestOnSwath ==
    ASSUME linePlan.poses \in Nat \ {0}, pathIdx \in 0 .. linePlan.poses - 1, tool.along \in Nat
    PROVE  Closest \in 0 .. linePlan.poses - 1
<1> DEFINE start == IF pathIdx >= linePlan.poses THEN 0 ELSE pathIdx
           onto(i) == Within(tool.along, i, i + 1)
           far(i) == Off(tool.along - onto(i))
           segments == start .. linePlan.poses - 2
           Nearest == {i \in segments : \A k \in segments : far(i) <= far(k)}
<1>1. Closest = IF segments = {} THEN linePlan.poses - 1 ELSE Min(Nearest)
  BY DEF Closest
<1>2. start \in Nat
  OBVIOUS
<1>3. \A i \in segments : i \in 0 .. linePlan.poses - 1
  BY <1>2
<1>4. \A i \in segments : far(i) \in Nat
  <2> SUFFICES ASSUME NEW i \in segments PROVE far(i) \in Nat
    OBVIOUS
  <2>1. PICK lo \in Int, hi \in Int, a \in Int : lo = i /\ hi = i + 1 /\ lo <= hi /\ a = tool.along
    BY <1>3
  <2>2. Within(a, lo, hi) \in lo .. hi
    BY <2>1, Clamped
  <2>3. onto(i) \in Int
    <3>1. onto(i) = Within(a, lo, hi)
      BY <2>1
    <3> QED  BY <2>1, <2>2, <3>1
  <2> HIDE DEF onto
  <2>4. tool.along - onto(i) \in Int
    BY <2>3
  <2> QED  BY <2>4, OffIsNat
<1> HIDE DEF segments, far
<1>5. CASE segments = {}
  BY <1>1, <1>5
<1>6. CASE segments # {}
  <2>1. PICK m \in segments : \A k \in segments : far(m) <= far(k)
    <3> DEFINE T == {far(i) : i \in segments}
    <3>1. T \in SUBSET Nat /\ T # {}
      BY <1>4, <1>6
    <3> HIDE DEF T
    <3>2. PICK t \in T : \A u \in T : t <= u
      BY <3>1, LeastNumber
    <3> QED  BY <3>2 DEF T
  <2>2. Nearest \subseteq segments /\ Nearest # {}
    BY <2>1
  <2>3. Nearest \in SUBSET Nat
    <3>1. segments \in SUBSET Nat
      BY <1>3
    <3> QED  BY <2>2, <3>1
  <2> HIDE DEF Nearest
  <2>4. Min(Nearest) \in Nearest
    BY <2>2, <2>3, MinOf
  <2> QED  BY <1>1, <1>3, <1>6, <2>2, <2>4
<1> QED  BY <1>5, <1>6

\* The commanded speed is a number.
LEMMA LineSpeeds ==
    ASSUME linePlan.poses \in Nat, lineLimit.value \in Nat, NEW i \in Nat, NEW e \in Int
    PROVE  Speed_l(e, Approached(i, Allowed)) \in Int
<1>1. {SlowDist, LineV, LineMinV, SlowV} \subseteq Nat
  BY ToolFollowerAssumption
<1>2. Allowed \in Int
  <2>1. Min({LineV, lineLimit.value}) \in Int
    <3>1. PICK a \in Int, b \in Int : a = LineV /\ b = lineLimit.value
      BY <1>1
    <3>2. Min({a, b}) \in Int
      BY OfTwo
    <3> QED  BY <3>1, <3>2
  <2>2. LineV * lineLimit.value \in Int
    BY <1>1
  <2> QED  BY <1>1, <2>1, <2>2 DEF Allowed
<1>3. Approached(i, Allowed) \in Int
  <2> DEFINE rest == Max({0, linePlan.poses - 1 - i})
             part_(r) == SlowV + Quot((Allowed - SlowV) * r, SlowDist)
  <2>1. rest \in Int
    BY OfTwo
  <2> HIDE DEF rest
  <2>2. SlowDist > 0 => part_(rest) \in Int
    <3> SUFFICES ASSUME SlowDist > 0 PROVE part_(rest) \in Int
      OBVIOUS
    <3>1. (Allowed - SlowV) * rest \in Int
      BY <1>1, <1>2, <2>1
    <3>2. SlowDist \in Nat \ {0}
      BY <1>1
    <3>3. Quot((Allowed - SlowV) * rest, SlowDist) \in Int
      BY <3>1, <3>2, QuotSign
    <3> QED  BY <1>1, <3>3
  <2>3. Approached(i, Allowed) =
          IF SlowDist > 0 /\ rest < SlowDist THEN Max({SlowV, part_(rest)}) ELSE Allowed
    BY DEF Approached, rest
  <2> HIDE DEF part_
  <2>4. SlowDist > 0 => Max({SlowV, part_(rest)}) \in Int
    <3> SUFFICES ASSUME SlowDist > 0 PROVE Max({SlowV, part_(rest)}) \in Int
      OBVIOUS
    <3>1. part_(rest) \in Int /\ SlowV \in Int
      BY <1>1, <2>2
    <3> QED  BY <3>1, OfTwo
  <2> QED  BY <1>2, <2>3, <2>4
<1> DEFINE max == Approached(i, Allowed)
           slow == Max({3, 10 - Off(e)})
           v == Quot(max * slow, 10)
<1>4. slow \in Int
  <2>1. 10 - Off(e) \in Int /\ 3 \in Int
    BY OffIsNat
  <2> QED  BY <2>1, OfTwo
<1> HIDE DEF max, slow
<1>5. v \in Int
  <2>1. max * slow \in Int /\ 10 \in Nat \ {0}
    BY <1>3, <1>4 DEF max
  <2> QED  BY <2>1, QuotSign
<1>6. Speed_l(e, max) = IF v < LineMinV THEN LineMinV ELSE Min({v, max})
  BY DEF Speed_l, slow
<1> HIDE DEF v
<1>7. Min({v, max}) \in Int
  BY <1>3, <1>5, OfTwo DEF max
<1> QED  BY <1>1, <1>5, <1>6, <1>7 DEF max

\* What the arc follower adds is clamped with the rest.
LEMMA CurvesWithin ==
    ASSUME NEW v \in Int, NEW w \in Int, NEW i \in Nat, linePlan.bend \in Int
    PROVE  WithCurve(v, w, i) \in -MaxAngular .. MaxAngular
<1>1. Curvature(i) \in Int
  BY DEF Curvature
<1>2. v * Curvature(i) \in Int
  BY <1>1
<1>3. w + v * Curvature(i) \in Int /\ -MaxAngular \in Int /\ MaxAngular \in Int /\ -MaxAngular <= MaxAngular
  BY <1>2, Numbers
<1> QED  BY <1>3, Clamped DEF WithCurve

\* The integral does not wind up further than ki_clamp lets it.
LEMMA WindsUp ==
    ASSUME integral \in Int, NEW e \in Int, NEW dt \in Nat, Ki > 0
    PROVE  Integrated(e, dt) \in -Windup .. Windup
<1> DEFINE sum == IF planAge > EntryIgnore THEN integral + e * dt ELSE integral
<1>1. sum \in Int
  <2>1. e * dt \in Int
    OBVIOUS
  <2> QED  BY <2>1
<1>2. Windup \in Nat
  BY Numbers DEF Windup
<1>3. Integrated(e, dt) = Within(sum, -Windup, Windup)
  BY DEF Integrated, Windup
<1> HIDE DEF sum
<1>4. -Windup \in Int /\ Windup \in Int /\ -Windup <= Windup
  BY <1>2
<1> QED  BY <1>1, <1>3, <1>4, Clamped

TwistOK == twist.w \in -MaxAngular .. MaxAngular /\ twist.arc \in -MaxAngular .. MaxAngular
SwathOK == linePlan = NoSwath \/ (linePlan.poses \in SwathLengths /\ linePlan.bend \in Bends)
OnSwath == pathIdx \in 0 .. (IF linePlan.poses = 0 THEN 0 ELSE linePlan.poses - 1)
ToolOK == tool.along \in Nat /\ tool.side \in -MaxSide .. MaxSide /\ tool.known \in BOOLEAN
LimitOK == lineLimit \in LineLimits \cup {[value |-> 0, percent |-> FALSE]}

\* The tool stands on a pose of the swath or past it; that is what is looked up.
ToolTypeInv ==
    /\ ToolInv /\ SwathOK /\ OnSwath /\ ToolOK /\ LimitOK /\ TwistOK
    /\ prevError \in -MaxSide .. MaxSide
    /\ gap \in 0 .. MaxGap /\ planAge \in 0 .. EntryIgnore + 1
    /\ Ki > 0 => integral \in -Windup .. Windup

\* A plan has a number of poses and a bend.
LEMMA PlanIs == SwathOK => linePlan.poses \in Nat /\ linePlan.bend \in Int
<1> SUFFICES ASSUME SwathOK PROVE linePlan.poses \in Nat /\ linePlan.bend \in Int
  OBVIOUS
<1>1. CASE linePlan = NoSwath
  <2>1. linePlan.poses = 0 /\ linePlan.bend = 0
    BY <1>1, Zenon DEF NoSwath
  <2> QED  BY <2>1
<1>2. CASE linePlan.poses \in SwathLengths /\ linePlan.bend \in Bends
  BY <1>2, ToolFollowerAssumption
<1> QED  BY <1>1, <1>2 DEF SwathOK

\* A limit is a number.
LEMMA LimitIs == LimitOK => lineLimit.value \in Nat
<1> SUFFICES ASSUME LimitOK PROVE lineLimit.value \in Nat
  OBVIOUS
<1>1. CASE lineLimit \in LineLimits
  BY <1>1, ToolFollowerAssumption
<1>2. CASE lineLimit = [value |-> 0, percent |-> FALSE]
  <2>1. lineLimit.value = 0
    BY <1>2, Zenon
  <2> QED  BY <2>1
<1> QED  BY <1>1, <1>2 DEF LimitOK

\* Zero lies within every span.
LEMMA SpanIs == 0 \in -MaxAngular .. MaxAngular /\ 0 \in -MaxSide .. MaxSide /\ (Ki > 0 => 0 \in -Windup .. Windup)
<1>1. Ki > 0 => Windup \in Nat
  BY Numbers DEF Windup
<1> QED  BY <1>1, ToolFollowerAssumption

\* A cycle that finds the tool.
LEMMA PidCycleTyped ==
    ASSUME ToolTypeInv, PidCycle, linePlan.poses > 0, UNCHANGED <<linePlan, tool, lineLimit>>
    PROVE  /\ OnSwath' /\ TwistOK' /\ prevError' \in -MaxSide .. MaxSide /\ gap' \in 0 .. MaxGap
           /\ Ki > 0 => integral' \in -Windup .. Windup
<1> DEFINE i == Closest
           e == tool.side
           dt == IF pidReady THEN Max({1, gap}) ELSE 1
           sum == Integrated(e, dt)
           d == Derivative(e, dt)
           w == Steer(e, sum, d)
           v == Speed_l(e, Approached(i, Allowed))
<1>1. /\ pathIdx' = Max({pathIdx, i}) /\ integral' = sum /\ prevError' = e /\ gap' = 1
      /\ twist' = [v |-> v, w |-> w, arc |-> WithCurve(v, w, pathIdx')]
  BY Zenon DEF PidCycle
<1>2. twist'.w = w /\ twist'.arc = WithCurve(v, w, pathIdx')
  BY <1>1, Zenon
<1>3. linePlan.poses \in Nat \ {0} /\ linePlan.bend \in Int /\ lineLimit.value \in Nat /\ tool.along \in Nat
      /\ pathIdx \in 0 .. linePlan.poses - 1 /\ e \in -MaxSide .. MaxSide /\ e \in Int /\ prevError \in Int
  <2>1. linePlan.poses \in Nat /\ linePlan.bend \in Int /\ lineLimit.value \in Nat
    BY PlanIs, LimitIs DEF ToolTypeInv
  <2>2. MaxSide \in Nat
    BY ToolFollowerAssumption
  <2> QED  BY <2>1, <2>2 DEF ToolTypeInv, ToolInv, ToolOK, OnSwath
<1>4. i \in 0 .. linePlan.poses - 1
  BY <1>3, ClosestOnSwath
<1> HIDE DEF i
<1>5. pathIdx' \in 0 .. linePlan.poses - 1
  <2>1. Max({pathIdx, i}) = IF pathIdx >= i THEN pathIdx ELSE i
    BY <1>3, <1>4, OfTwo
  <2> QED  BY <1>1, <1>3, <1>4, <2>1
<1>6. OnSwath'
  BY <1>3, <1>5 DEF OnSwath
<1>7. dt \in Nat \ {0} /\ integral \in Int /\ planAge \in Nat
  BY OfTwo DEF ToolTypeInv, ToolInv
<1> HIDE DEF dt
<1>8. sum \in Int /\ (Ki > 0 => sum \in -Windup .. Windup)
  <2>1. sum \in Int
    BY <1>3, <1>7, Summed
  <2>2. dt \in Nat
    BY <1>7
  <2> QED  BY <1>3, <1>7, <2>1, <2>2, WindsUp
<1>9. d \in Int
  <2>1. Kd * (e - prevError) \in Int
    BY <1>3, Numbers
  <2>2. Quot(Kd * (e - prevError), dt) \in Int
    BY <1>7, <2>1, QuotSign
  <2> QED  BY <2>2 DEF Derivative
<1> HIDE DEF sum, d
<1>10. w \in -MaxAngular .. MaxAngular /\ w \in Int
  <2>1. PICK g \in Int, k \in Int : g = Gain_p(e) * e /\ k = Ki * sum
    <3>1. Gain_p(e) \in Nat
      BY <1>3, Gains
    <3>2. Gain_p(e) * e \in Int /\ Ki * sum \in Int
      BY <1>3, <1>8, <3>1, Numbers
    <3> QED  BY <3>2
  <2>2. w = Within(-(g + k + d), -MaxAngular, MaxAngular)
    BY <2>1 DEF Steer
  <2>3. -(g + k + d) \in Int /\ -MaxAngular \in Int /\ MaxAngular \in Int /\ -MaxAngular <= MaxAngular
    BY <1>9, <2>1, Numbers
  <2>4. w \in -MaxAngular .. MaxAngular
    BY <2>2, <2>3, Clamped
  <2> QED  BY <2>3, <2>4
<1>11. v \in Int
  <2>1. i \in Nat /\ linePlan.poses \in Nat
    BY <1>3, <1>4
  <2> QED  BY <1>3, <2>1, LineSpeeds
<1> HIDE DEF w, v
<1>12. twist'.arc \in -MaxAngular .. MaxAngular
  <2>1. pathIdx' \in Nat
    BY <1>3, <1>5
  <2> QED  BY <1>2, <1>3, <1>10, <1>11, <2>1, CurvesWithin
<1>13. 1 \in 0 .. MaxGap
  BY Numbers
<1> QED  BY <1>1, <1>2, <1>3, <1>6, <1>8, <1>10, <1>12, <1>13 DEF TwistOK

\* Every step of the tool's controller keeps the types.
LEMMA ToolTypeStep == ToolTypeInv /\ [ToolFollowerNext]_tfVars => ToolTypeInv'
<1> SUFFICES ASSUME ToolTypeInv, [ToolFollowerNext]_tfVars PROVE ToolTypeInv'
  OBVIOUS
<1>1. ToolInv /\ ToolInv'
  BY ToolStep DEF ToolTypeInv
<1>2. 0 \in 0 .. MaxGap /\ 0 \in 0 .. EntryIgnore + 1 /\ EntryIgnore + 1 \in 0 .. EntryIgnore + 1
  BY Numbers
<1>3. ASSUME FreshPid
      PROVE  prevError' \in -MaxSide .. MaxSide /\ (Ki > 0 => integral' \in -Windup .. Windup)
  BY <1>3, SpanIs DEF FreshPid
<1>4. CASE ToolActivate
  <2>1. FreshPid /\ gap' = 0 /\ planAge' = EntryIgnore + 1 /\ UNCHANGED <<linePlan, pathIdx, tool, lineLimit, twist>>
    BY <1>4, Zenon DEF ToolActivate
  <2>2. SwathOK' /\ OnSwath' /\ ToolOK' /\ LimitOK' /\ TwistOK'
    BY <2>1 DEF ToolTypeInv, SwathOK, OnSwath, ToolOK, LimitOK, TwistOK
  <2> QED  BY <1>1, <1>2, <1>3, <2>1, <2>2 DEF ToolTypeInv
<1>5. CASE ToolSetPlan
  <2>1. FreshPid /\ gap' = 0 /\ planAge' = 0 /\ pathIdx' = 0 /\ UNCHANGED <<tool, lineLimit, twist>>
    BY <1>5, Zenon DEF ToolSetPlan
  <2>2. PICK n \in SwathLengths, b \in Bends : linePlan' = [poses |-> n, bend |-> b]
    BY <1>5 DEF ToolSetPlan
  <2>3. SwathOK' /\ linePlan'.poses = n
    BY <2>2 DEF SwathOK
  <2>4. OnSwath'
    BY <2>1, <2>3, ToolFollowerAssumption DEF OnSwath
  <2>5. ToolOK' /\ LimitOK' /\ TwistOK'
    BY <2>1 DEF ToolTypeInv, ToolOK, LimitOK, TwistOK
  <2> QED  BY <1>1, <1>2, <1>3, <2>1, <2>3, <2>4, <2>5 DEF ToolTypeInv
<1>6. CASE ToolSetSpeedLimit
  <2>1. lineLimit' \in LineLimits
        /\ UNCHANGED <<linePlan, pathIdx, pidReady, integral, prevError, gap, planAge, tool, twist>>
    BY <1>6, Zenon DEF ToolSetSpeedLimit
  <2>2. SwathOK' /\ OnSwath' /\ ToolOK' /\ LimitOK' /\ TwistOK'
    BY <2>1 DEF ToolTypeInv, SwathOK, OnSwath, ToolOK, LimitOK, TwistOK
  <2> QED  BY <1>1, <2>1, <2>2 DEF ToolTypeInv
<1>7. CASE ToolCycle
  <2>1. planAge' = Min({planAge + 1, EntryIgnore + 1}) /\ UNCHANGED <<linePlan, tool, lineLimit>>
    BY <1>7, Zenon DEF ToolCycle
  <2>2. planAge' \in 0 .. EntryIgnore + 1
    <3>1. planAge \in 0 .. EntryIgnore + 1 /\ EntryIgnore \in Nat
      BY Numbers DEF ToolTypeInv
    <3>2. PICK a \in Int, b \in Int : a = planAge + 1 /\ b = EntryIgnore + 1
      BY <3>1
    <3>3. planAge' = IF a <= b THEN a ELSE b
      BY <2>1, <3>2, OfTwo
    <3> QED  BY <3>1, <3>2, <3>3
  <2>3. SwathOK' /\ ToolOK' /\ LimitOK'
    BY <2>1 DEF ToolTypeInv, SwathOK, ToolOK, LimitOK
  <2>4. CASE linePlan.poses > 0 /\ tool.known
    <3>1. PidCycle
      BY <1>7, <2>4 DEF ToolCycle
    <3>2. /\ OnSwath' /\ TwistOK' /\ prevError' \in -MaxSide .. MaxSide /\ gap' \in 0 .. MaxGap
          /\ Ki > 0 => integral' \in -Windup .. Windup
      BY <2>1, <2>4, <3>1, PidCycleTyped
    <3> QED  BY <1>1, <2>2, <2>3, <3>2, Zenon DEF ToolTypeInv
  <2>5. CASE ~(linePlan.poses > 0 /\ tool.known)
    <3>1. /\ UNCHANGED <<pathIdx, integral, prevError>> /\ gap' = Min({gap + 1, MaxGap})
          /\ twist' = [Stand EXCEPT !.arc = WithCurve(0, 0, pathIdx)]
      BY <1>7, <2>5 DEF ToolCycle, Stopped
    <3>2. twist'.w = 0 /\ twist'.arc = WithCurve(0, 0, pathIdx)
      BY <3>1, Zenon DEF Stand
    <3>3. linePlan.bend \in Int /\ pathIdx \in Nat
      BY PlanIs DEF ToolTypeInv, OnSwath
    <3>4. TwistOK'
      <4>1. WithCurve(0, 0, pathIdx) \in -MaxAngular .. MaxAngular
        BY <3>3, CurvesWithin
      <4> QED  BY <3>2, <4>1, SpanIs DEF TwistOK
    <3>5. gap' \in 0 .. MaxGap
      <4>1. gap \in 0 .. MaxGap /\ MaxGap \in Nat
        BY Numbers DEF ToolTypeInv
      <4>2. gap' = Min({gap + 1, MaxGap})
        BY ONLY <3>1, Zenon
      <4>3. PICK a \in Int, b \in Int : a = gap + 1 /\ b = MaxGap
        BY <4>1
      <4>4. gap' = IF a <= b THEN a ELSE b
        BY <4>2, <4>3, OfTwo
      <4> QED  BY <4>1, <4>3, <4>4
    <3>6. OnSwath'
      BY <2>1, <3>1 DEF ToolTypeInv, OnSwath
    <3> QED  BY <1>1, <2>2, <2>3, <3>1, <3>4, <3>5, <3>6 DEF ToolTypeInv
  <2> QED  BY <2>4, <2>5
<1>8. CASE ToolMoves \/ ToolReturns
  <2>1. UNCHANGED <<linePlan, pathIdx, pidReady, integral, prevError, gap, planAge, lineLimit, twist>>
    BY <1>8 DEF ToolMoves, ToolReturns
  <2>2. ToolOK'
    <3>1. CASE ToolMoves
      <4>1. PICK a \in {tool.along, tool.along + 1}, s \in tool.side - 1 .. tool.side + 1, k \in BOOLEAN :
              Off(s) <= MaxSide /\ tool' = [along |-> a, side |-> s, known |-> k]
        BY <3>1, Zenon DEF ToolMoves
      <4>2. tool'.along = a /\ tool'.side = s /\ tool'.known = k
        BY <4>1, Zenon
      <4>3. a \in Nat /\ s \in Int
        BY <1>1 DEF ToolInv, ToolTypeInv, ToolOK
      <4>4. s \in -MaxSide .. MaxSide
        BY <4>1, <4>3, OffIsNat
      <4> QED  BY <4>2, <4>3, <4>4, Zenon DEF ToolOK
    <3>2. CASE ToolReturns
      <4>1. tool'.along = 0 /\ tool'.side = 0 /\ tool'.known = TRUE
        BY <3>2, Zenon DEF ToolReturns
      <4>2. tool'.known \in BOOLEAN
        BY <4>1, Zenon
      <4> QED  BY <4>1, <4>2, SpanIs DEF ToolOK
    <3> QED  BY <1>8, <3>1, <3>2
  <2>3. SwathOK' /\ OnSwath' /\ LimitOK' /\ TwistOK'
    BY <2>1 DEF ToolTypeInv, SwathOK, OnSwath, LimitOK, TwistOK
  <2> QED  BY <1>1, <2>1, <2>2, <2>3 DEF ToolTypeInv
<1>9. CASE UNCHANGED tfVars
  BY <1>1, <1>9 DEF tfVars, ToolTypeInv, SwathOK, OnSwath, ToolOK, LimitOK, TwistOK
<1> QED  BY <1>4, <1>5, <1>6, <1>7, <1>8, <1>9 DEF ToolFollowerNext

\* The controller keeps its types: the index stays on the swath, the integral
\* within ki_clamp and the turning rates within the robot's.
THEOREM ToolTyped == ToolSpec => []ToolFollowerTypeOK
<1>1. ToolFollowerInit => ToolTypeInv
  <2> SUFFICES ASSUME ToolFollowerInit PROVE ToolTypeInv
    OBVIOUS
  <2>1. ToolInv
    BY ToolStart
  <2>2. /\ linePlan = NoSwath /\ pathIdx = 0 /\ integral = 0 /\ prevError = 0 /\ gap = 0
        /\ planAge = EntryIgnore + 1 /\ lineLimit = [value |-> 0, percent |-> FALSE]
        /\ tool = [along |-> 0, side |-> 0, known |-> TRUE] /\ twist = Stand
    BY Zenon DEF ToolFollowerInit
  <2>3. linePlan.poses = 0 /\ twist.w = 0 /\ twist.arc = 0 /\ tool.along = 0 /\ tool.side = 0 /\ tool.known \in BOOLEAN
    BY <2>2, Zenon DEF NoSwath, Stand
  <2>4. SwathOK /\ OnSwath /\ LimitOK
    BY <2>2, <2>3 DEF SwathOK, OnSwath, LimitOK
  <2>5. ToolOK /\ TwistOK
    BY <2>3, SpanIs DEF ToolOK, TwistOK
  <2>6. gap \in 0 .. MaxGap /\ planAge \in 0 .. EntryIgnore + 1
    BY <2>2, Numbers
  <2> QED  BY <2>1, <2>2, <2>4, <2>5, <2>6, SpanIs DEF ToolTypeInv
<1>2. ToolTypeInv => ToolFollowerTypeOK
  <2> SUFFICES ASSUME ToolTypeInv PROVE ToolFollowerTypeOK
    OBVIOUS
  <2>1. linePlan.poses \in Nat
    BY PlanIs DEF ToolTypeInv
  <2>2. Max({0, linePlan.poses - 1}) = IF linePlan.poses = 0 THEN 0 ELSE linePlan.poses - 1
    BY <2>1, OfTwo
  <2>3. pathIdx \in 0 .. Max({0, linePlan.poses - 1})
    BY <2>2, Zenon DEF ToolTypeInv, OnSwath
  <2>4. pidReady \in BOOLEAN /\ integral \in Int
    BY Zenon DEF ToolTypeInv, ToolInv
  <2>5. {twist.w, twist.arc} \subseteq -MaxAngular .. MaxAngular
    BY Zenon DEF ToolTypeInv, TwistOK
  <2> QED  BY <2>3, <2>4, <2>5, Zenon DEF ToolTypeInv, SwathOK, ToolOK, LimitOK, ToolFollowerTypeOK
<1> QED  BY <1>1, <1>2, ToolTypeStep, PTL DEF ToolSpec

-----------------------------------------------------------------------------
\* A step of one part leaves the variables of every other alone.
LEMMA NavPartsStep ==
    ASSUME [Next]_vars
    PROVE  /\ [PlanNext]_planVars
           /\ [TurnNext]_turnVars
           /\ [RsNext]_rsVars
           /\ [ArcNext]_arcVars
           /\ [SliderNext]_sliderVars
           /\ [OneLineNext]_olVars
           /\ [ToolFollowerNext]_tfVars
           /\ [LineNavNext]_lnVars
           /\ [FieldLinesNext]_flVars
<1>1. CASE InPlanners(PlanNext)
  BY <1>1 DEF InPlanners
<1>2. CASE InTurn(TurnNext)
  BY <1>2 DEF InTurn
<1>3. CASE InRs(RsNext)
  BY <1>3 DEF InRs
<1>4. CASE InArc(ArcNext)
  BY <1>4 DEF InArc
<1>5. CASE InSlider(SliderNext)
  BY <1>5 DEF InSlider
<1>6. CASE InOneLine(OneLineNext)
  BY <1>6 DEF InOneLine
<1>7. CASE InTool(ToolFollowerNext)
  BY <1>7 DEF InTool
<1>8. CASE InLine(LineNavNext)
  BY <1>8 DEF InLine
<1>9. CASE InField(FieldLinesNext)
  BY <1>9 DEF InField
<1>10. CASE UNCHANGED vars
  BY <1>10 DEF vars
<1> QED  BY <1>1, <1>2, <1>3, <1>4, <1>5, <1>6, <1>7, <1>8, <1>9, <1>10 DEF Next

\* Whichever part the run is of, the others stand still: all that is proved of a
\* part alone holds of the run of all.
THEOREM NavPartsRun ==
    Spec => /\ PlanSpec /\ TurnSpec /\ RsSpec /\ ArcSpec /\ SliderSpec
            /\ OneLineSpec /\ ToolSpec /\ LineNavSpec /\ FieldLinesSpec
<1>1. Init => /\ PlanInit /\ TurnInit /\ RsInit /\ ArcInit /\ SliderInit
              /\ OneLineInit /\ ToolFollowerInit /\ LineNavInit /\ FieldLinesInit
  BY DEF Init
<1> QED  BY <1>1, NavPartsStep, PTL
         DEF Spec, PlanSpec, TurnSpec, RsSpec, ArcSpec, SliderSpec, OneLineSpec, ToolSpec, LineNavSpec, FieldLinesSpec

\* Every part keeps its types and the bounds the code gives it.
THEOREM NavTyped == Spec => []NavTypeOK
<1>1. /\ PlanTypeOK /\ TurnTypeOK /\ RsTypeOK /\ ArcTypeOK /\ SliderTypeOK
      /\ OneLineTypeOK /\ ToolFollowerTypeOK /\ LineNavTypeOK
      => NavTypeOK
  BY Zenon DEF NavTypeOK
<1> QED  BY <1>1, NavPartsRun, PlansTyped, TurnTyped, RsTyped, ArcTyped, SliderTyped,
            OneLineTyped, ToolTyped, LineTyped, PTL
=============================================================================
