-------------------------------- MODULE LineNav --------------------------------
(***************************************************************************)
(* The navigator that drives the line of a GeoJSON file once, the tree it  *)
(* runs on the robot (geojson_line_hw.xml), and the two nodes with which   *)
(* that tree obeys /pause.                                                 *)
(*                                                                         *)
(* A file is a sequence of points, or unreadable.  A step of the follower  *)
(* takes the robot to the next point of its path; where the robot stands   *)
(* when a path is trimmed is anybody's guess.                              *)
(***************************************************************************)
EXTENDS Integers, Sequences, SequencesExt

CONSTANTS
    LineFiles,      \* file name -> the points of its line, <<>> if it does not load
    PauseDepth      \* a bound on the messages on /pause that are under way

ASSUME LineNavAssumption ==
    /\ PauseDepth \in Nat \ {0}
    /\ \A f \in DOMAIN LineFiles : LineFiles[f] \in Seq(Nat)

VARIABLES
    lnGoal,         \* the goal that is executed
    lnPending,      \* the goal that wants to preempt it
    geoPoints,      \* geo_points on the blackboard
    mapPoints,      \* map_points
    trimmed,        \* trimmed_map_points
    atLine,         \* dist_to_line < 1.5, or the approach has ended there
    approached,     \* approach_complete
    lnPhase,        \* what the tree runs
    lnAt,           \* how far the follower has come on its path
    loaded,         \* the tree has been loaded, and its nodes subscribe
    pausedMsgs,     \* messages on /pause not yet taken by the nodes
    isPaused,       \* is_paused_ of NotPaused and WaitUntilNotPaused
    lnResult        \* error_code of the last goal

lnVars == <<lnGoal, lnPending, geoPoints, mapPoints, trimmed, atLine, approached, lnPhase,
            lnAt, loaded, pausedMsgs, isPaused, lnResult>>

NoGoal == [file |-> "", forward |-> TRUE]
LineGoals == [file : DOMAIN LineFiles \cup {""}, forward : BOOLEAN]

\* loadGeoJsonLine.
Loads(g) == g.file # "" /\ LineFiles[g.file] # <<>>

\* Mutant: a line is always driven the way it is written.
MutOriented(g) == LineFiles[g.file]
Oriented(g) == IF g.forward THEN LineFiles[g.file] ELSE Reverse(LineFiles[g.file])

LineNavInit ==
    /\ lnGoal = NoGoal /\ lnPending = NoGoal
    /\ geoPoints = <<>> /\ mapPoints = <<>> /\ trimmed = <<>>
    /\ atLine = FALSE /\ approached = FALSE /\ lnPhase = "idle" /\ lnAt = 0
    /\ loaded = FALSE /\ pausedMsgs = <<>> /\ isPaused = FALSE /\ lnResult = "NONE"

-----------------------------------------------------------------------------
\* spin_some: both nodes take what has arrived.
Heeds == isPaused' = (IF pausedMsgs = <<>> THEN isPaused ELSE Last(pausedMsgs)) /\ pausedMsgs' = <<>>

\* TrimPathToClosest: the path from the closest point on, and how far that is.
Trim(points) ==
    \E i \in 1 .. Len(points), near \in BOOLEAN :
        trimmed' = SubSeq(points, i, Len(points)) /\ atLine' = near

EndMission(result) == lnPhase' = "idle" /\ lnResult' = result

\* goalCompleted after a leg failed.
FailMission ==
    /\ EndMission("FAILED")
    /\ UNCHANGED <<geoPoints, mapPoints, trimmed, atLine, approached, lnAt>>

\* PosesToPath, and the loop of the line: paused before it starts, or on its way.
EnterLine == lnAt' = 0 /\ lnPhase' = (IF isPaused' THEN "waitLine" ELSE "line")

\* Mutant: the flag of the last mission stands.
MutStartApproach == UNCHANGED approached
\* SetBlackboard before the approach.
StartApproach == approached' = FALSE

\* The tree from its first leaf to the first one that takes time.
FirstTick(points) ==
    \/ /\ mapPoints' = points /\ Trim(points) /\ StartApproach /\ UNCHANGED lnResult
       /\ IF atLine' THEN EnterLine
          ELSE lnAt' = 0 /\ lnPhase' = (IF isPaused' THEN "waitApproach" ELSE "approach")
    \* ConvertGeoPoints or TrimPathToClosest fails.
    \/ /\ EndMission("FAILED")
       /\ \/ UNCHANGED <<mapPoints, trimmed, atLine, approached>>
          \/ mapPoints' = points /\ UNCHANGED <<trimmed, atLine, approached>>
       /\ lnAt' = 0

\* goalReceived, of a new goal or of the one that has been pending: the file is
\* there and holds two points.  The nodes subscribe when the tree is loaded.
LineGoalReceived ==
    /\ lnPhase = "idle"
    /\ \E g \in IF lnPending = NoGoal THEN LineGoals ELSE {lnPending} :
          /\ loaded' = TRUE /\ lnPending' = NoGoal /\ Heeds
          /\ IF Loads(g) /\ Len(LineFiles[g.file]) >= 2
             THEN /\ geoPoints' = Oriented(g) /\ lnGoal' = g
                  /\ FirstTick(Oriented(g))
             ELSE UNCHANGED <<lnGoal, geoPoints, mapPoints, trimmed, atLine, approached,
                              lnPhase, lnAt, lnResult>>

\* onPreempt: the points change at once; the tree goes on with its own, and the
\* goal is executed when it has ended.
LinePreempt ==
    /\ lnPhase # "idle"
    /\ \E g \in LineGoals \ {NoGoal} :
          /\ lnPending' = g
          /\ geoPoints' = IF Loads(g) THEN Oriented(g) ELSE geoPoints
    /\ UNCHANGED <<lnGoal, mapPoints, trimmed, atLine, approached, lnPhase, lnAt, loaded,
                   pausedMsgs, isPaused, lnResult>>

\* The approach from where the robot is now; a leg before FollowPath may fail.
RestartApproach ==
    \/ /\ Trim(mapPoints) /\ lnPhase' = "approach"
       /\ UNCHANGED <<geoPoints, mapPoints, approached, lnAt, lnResult>>
    \/ FailMission

\* The loop of the approach, ticked while nothing pauses it.  When it ends, the
\* condition after it asks whether the approach was completed.
ApproachTick ==
    \/ lnPhase = "waitApproach" /\ RestartApproach
    \* FollowPath has reached its goal.
    \/ /\ lnPhase = "approach" /\ approached' = TRUE /\ atLine' = TRUE /\ EnterLine
       /\ UNCHANGED <<geoPoints, mapPoints, trimmed, lnResult>>
    \* FollowPath is aborted.
    \/ /\ lnPhase = "approach"
       /\ IF approached
          THEN EnterLine /\ UNCHANGED <<geoPoints, mapPoints, trimmed, atLine, approached, lnResult>>
          ELSE FailMission

\* The loop of the line: the same path again after a pause.
LineTick ==
    \/ /\ lnPhase = "waitLine" /\ lnPhase' = "line"
       /\ UNCHANGED <<geoPoints, mapPoints, trimmed, atLine, approached, lnAt, lnResult>>
    \/ /\ lnPhase = "line" /\ lnAt < Len(trimmed) /\ lnAt' = lnAt + 1
       /\ UNCHANGED <<geoPoints, mapPoints, trimmed, atLine, approached, lnPhase, lnResult>>
    \/ /\ lnPhase = "line" /\ lnAt = Len(trimmed) /\ EndMission("SUCCEEDED")
       /\ UNCHANGED <<geoPoints, mapPoints, trimmed, atLine, approached, lnAt>>
    \/ lnPhase = "line" /\ FailMission

\* Mutant: the follower goes on until it has ended.
MutHaltFollower == UNCHANGED lnPhase

\* Paused: WaitUntilNotPaused runs, and the reactive sequence halts the leg.
HaltFollower ==
    lnPhase' = IF lnPhase \in {"approach", "waitApproach"} THEN "waitApproach" ELSE "waitLine"

Tick ==
    /\ lnPhase # "idle" /\ Heeds
    /\ IF isPaused'
       THEN HaltFollower /\ UNCHANGED <<geoPoints, mapPoints, trimmed, atLine, approached, lnAt, lnResult>>
       ELSE ApproachTick \/ LineTick
    /\ UNCHANGED <<lnGoal, lnPending, loaded>>

\* The action server halts the tree.
LineCancel ==
    /\ lnPhase # "idle" /\ EndMission("CANCELLED")
    /\ UNCHANGED <<lnGoal, lnPending, geoPoints, mapPoints, trimmed, atLine, approached, lnAt,
                   loaded, pausedMsgs, isPaused>>

\* The pause manager publishes; who has not subscribed misses it.
PublishPause ==
    /\ \E p \in BOOLEAN :
          pausedMsgs' = IF loaded /\ Len(pausedMsgs) < PauseDepth
                        THEN Append(pausedMsgs, p) ELSE pausedMsgs
    /\ UNCHANGED <<lnGoal, lnPending, geoPoints, mapPoints, trimmed, atLine, approached, lnPhase,
                   lnAt, loaded, isPaused, lnResult>>

LineNavNext == LineGoalReceived \/ LinePreempt \/ Tick \/ LineCancel \/ PublishPause

-----------------------------------------------------------------------------
LineNavTypeOK ==
    /\ lnGoal \in LineGoals /\ lnPending \in LineGoals
    /\ lnPhase \in {"idle", "waitApproach", "approach", "waitLine", "line"}
    /\ lnAt \in 0 .. Len(trimmed)
    /\ {atLine, approached, loaded, isPaused} \subseteq BOOLEAN
    /\ pausedMsgs \in Seq(BOOLEAN) /\ Len(pausedMsgs) <= PauseDepth
    /\ lnResult \in {"NONE", "SUCCEEDED", "FAILED", "CANCELLED"}

\* A mission drives the line of its own goal, in its direction, from the point
\* where it joins it: whatever preempts it, and however often it is paused.
OwnLine ==
    lnPhase # "idle" =>
        LET line == LineFiles[lnGoal.file] IN
        /\ Len(mapPoints) = Len(line) /\ IsSuffix(trimmed, mapPoints)
        /\ \A i \in 1 .. Len(line) : mapPoints[i] = line[IF lnGoal.forward THEN i ELSE Len(line) + 1 - i]

\* The planter's line is followed only from a point on it: never after an
\* approach that was given up.
JoinsOnTheLine == lnPhase \in {"waitLine", "line"} => atLine

\* A tree that has heard of a pause commands no movement until it has heard of
\* its end.
StandsWhilePaused == isPaused => lnPhase \notin {"approach", "line"}

DrivesOwnLine == OwnLine /\ JoinsOnTheLine /\ StandsWhilePaused
=============================================================================
