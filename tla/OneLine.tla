------------------------------ MODULE OneLine -------------------------------
(***************************************************************************)
(* The one-line mission: a line is driven to and fro, with a turn at each  *)
(* end.  The navigator that accepts and preempts goals, the behaviour tree *)
(* with its nodes, and the topic on which the tree tells the Reeds-Shepp   *)
(* planner what the turn must look like.                                   *)
(*                                                                         *)
(* A line has two points; geo_points and map_points are the line in one of *)
(* its directions.  The point (0, 0) that a preempting goal without        *)
(* coordinates leaves behind is the line Nowhere.                          *)
(***************************************************************************)
EXTENDS Integers, Sequences, SequencesExt

CONSTANTS
    Lines,          \* lines that fields and goals can name
    Nowhere,        \* start and end at latitude and longitude zero
    Sides           \* turn_side of the field files, the empty and invalid ones too

ASSUME OneLineAssumption == Nowhere \notin Lines /\ "left" \in Sides /\ "" \in Sides

VARIABLES
    olPhase,        \* the asynchronous node that runs, or how the goal ended
    olGeo,          \* geo_points on the blackboard
    olMap,          \* map_points on the blackboard
    olSide,         \* turn_side on the blackboard
    olAt,           \* the point at which the robot stands
    olDriven,       \* the last swath driven, for the properties
    olPreempted,    \* a goal has replaced geo_points since then
    olTopic,        \* messages on /rs_planner_constraints the planner has not heard
    olHeld,         \* constraint_raw_ of the planner
    olForced        \* the last plan of the Reeds-Shepp planner had to start forward

olVars == <<olPhase, olGeo, olMap, olSide, olAt, olDriven, olPreempted, olTopic, olHeld, olForced>>

Ways == [line : Lines \cup {Nowhere}, from : {1, 2}]
Turned(way) == [way EXCEPT !.from = 3 - @]
NoWay == [line |-> Nowhere, from |-> 1]
StartOf(way) == [line |-> way.line, point |-> way.from]
EndOf(way) == [line |-> way.line, point |-> 3 - way.from]
Elsewhere == [line |-> Nowhere, point |-> 0]

Running == {"approachPlan", "approachFollow", "swathPlan", "swathFollow", "turnPlan", "turnFollow"}
Ended == {"idle", "failed", "cancelled"}

\* No constraint on the topic; the queue keeps one message of each publisher.
NoConstraint == ""
Publish(msg) ==
    LET older == {i \in DOMAIN olTopic : (olTopic[i] = NoConstraint) = (msg = NoConstraint)}
    IN  olTopic' = Append(IF older = {} THEN olTopic ELSE RemoveAt(olTopic, CHOOSE i \in older : TRUE), msg)

OneLineInit ==
    /\ olPhase = "idle" /\ olGeo = NoWay /\ olMap = NoWay /\ olSide = ""
    /\ olAt = Elsewhere /\ olDriven = NoWay /\ olPreempted = FALSE
    /\ olTopic = <<>> /\ olHeld = NoConstraint /\ olForced = FALSE

\* goalReceived: coordinates, or the file of a field with its turn_side; a goal
\* without either, or with a file that cannot be read, is refused.
\* ConvertGeoPoints and GetPoseFromPoses follow at once.
GoalReceived ==
    /\ olPhase \in Ended
    /\ \E l \in Lines, side \in Sides, converted \in BOOLEAN :
          /\ olGeo' = [line |-> l, from |-> 1] /\ olSide' = side
          /\ IF converted THEN olPhase' = "approachPlan" /\ olMap' = olGeo'
             ELSE olPhase' = "failed" /\ UNCHANGED olMap
    /\ olAt' = Elsewhere /\ olDriven' = NoWay /\ olPreempted' = FALSE
    /\ UNCHANGED <<olTopic, olHeld, olForced>>

\* onPreempt: whatever the new goal says becomes geo_points, zeros too; the
\* side is replaced only by a file that has one.
OnPreempt ==
    /\ olPhase \in Running /\ ~olPreempted
    /\ \E l \in Lines \cup {Nowhere}, side \in Sides :
          /\ olGeo' = [line |-> l, from |-> 1]
          /\ olSide' = IF side = "" THEN olSide ELSE side
    /\ olPreempted' = TRUE
    /\ UNCHANGED <<olPhase, olMap, olAt, olDriven, olTopic, olHeld, olForced>>

\* A node of the sequence fails, and the goal with it; or it is cancelled.
GoalEnds ==
    /\ olPhase \in Running /\ olPhase' \in {"failed", "cancelled"} /\ olAt' = Elsewhere
    /\ UNCHANGED <<olGeo, olMap, olSide, olDriven, olPreempted, olTopic, olHeld, olForced>>

\* createPlan waits for a constraint, but not for ever.
Planned == olForced' = (olHeld # NoConstraint)

ApproachPlanned ==
    /\ olPhase = "approachPlan" /\ olPhase' = "approachFollow" /\ Planned
    /\ UNCHANGED <<olGeo, olMap, olSide, olAt, olDriven, olPreempted, olTopic, olHeld>>

ApproachFollowed ==
    /\ olPhase = "approachFollow" /\ olPhase' = "swathPlan" /\ olAt' = StartOf(olMap)
    /\ UNCHANGED <<olGeo, olMap, olSide, olDriven, olPreempted, olTopic, olHeld, olForced>>

SwathPlanned ==
    /\ olPhase = "swathPlan" /\ olPhase' = "swathFollow"
    /\ UNCHANGED <<olGeo, olMap, olSide, olAt, olDriven, olPreempted, olTopic, olHeld, olForced>>

\* Mutant: the points are not turned round.
MutReversed == olGeo
Reversed == Turned(olGeo)

\* The swath is driven; ReverseGeoPoints, ConvertGeoPoints, GetPoseFromPoses
\* and SetRsPlannerConstraints run in the same tick.
SwathFollowed ==
    /\ olPhase = "swathFollow" /\ olAt' = EndOf(olMap) /\ olDriven' = olMap
    /\ olGeo' = Reversed /\ olPreempted' = (olGeo # olMap)
    /\ \E converted \in BOOLEAN :
          IF converted
          THEN /\ olPhase' = "turnPlan" /\ olMap' = olGeo'
               /\ IF olSide \in {"left", "right"} THEN Publish(olSide) ELSE UNCHANGED olTopic
          ELSE olPhase' = "failed" /\ UNCHANGED <<olMap, olTopic>>
    /\ UNCHANGED <<olSide, olHeld, olForced>>

\* The plan of the turn, then ClearRsPlannerConstraints.
TurnPlanned ==
    /\ olPhase = "turnPlan" /\ olPhase' = "turnFollow" /\ Planned
    /\ Publish(NoConstraint)
    /\ UNCHANGED <<olGeo, olMap, olSide, olAt, olDriven, olPreempted, olHeld>>

TurnFollowed ==
    /\ olPhase = "turnFollow" /\ olPhase' = "swathPlan" /\ olAt' = StartOf(olMap)
    /\ UNCHANGED <<olGeo, olMap, olSide, olDriven, olPreempted, olTopic, olHeld, olForced>>

\* The planner's subscription.
ConstraintHeard ==
    /\ olTopic # <<>> /\ olHeld' = Head(olTopic) /\ olTopic' = Tail(olTopic)
    /\ UNCHANGED <<olPhase, olGeo, olMap, olSide, olAt, olDriven, olPreempted, olForced>>

OneLineNext ==
    \/ GoalReceived \/ OnPreempt \/ GoalEnds
    \/ ApproachPlanned \/ ApproachFollowed \/ SwathPlanned \/ SwathFollowed
    \/ TurnPlanned \/ TurnFollowed \/ ConstraintHeard

-----------------------------------------------------------------------------
OneLineTypeOK ==
    /\ olPhase \in Running \cup Ended
    /\ olGeo \in Ways /\ olMap \in Ways /\ olDriven \in Ways /\ olSide \in Sides
    /\ olAt \in [line : Lines \cup {Nowhere}, point : 0 .. 2]
    /\ olPreempted \in BOOLEAN /\ olForced \in BOOLEAN
    /\ olTopic \in Seq(Sides) /\ Len(olTopic) <= 2 /\ olHeld \in Sides

\* The swath that is driven begins where the robot stands, and after a turn it
\* is the last one in the other direction, unless a goal came in between.
SwathsAlternate ==
    olPhase \in {"swathPlan", "swathFollow"} =>
        /\ olAt = StartOf(olMap)
        /\ olDriven # NoWay /\ ~olPreempted => olMap = Turned(olDriven) /\ olGeo = olMap
=============================================================================
