---------------------------- MODULE RsController ----------------------------
(***************************************************************************)
(* The controller of Reeds-Shepp paths: forward and reverse segments that  *)
(* meet in cusps, followed by pure pursuit.                                *)
(*                                                                         *)
(* A path lies on a line, its waypoints further apart in forward segments  *)
(* than in reverse ones, so that the two do not coincide; the robot faces  *)
(* along the line, up to one unit beside it.  A waypoint belongs to the    *)
(* direction in which it is left, so a cusp belongs to the segment after   *)
(* it.  Distances are counted along and across the line and added; of the  *)
(* steering, the side to which the robot turns is kept.                    *)
(***************************************************************************)
EXTENDS Integers, Sequences, FiniteSets, SequencesExt, FiniteSetsExt

CONSTANTS
    MaxRsPoses,       \* steps between the waypoints of a path, at most
    Ahead, Back,    \* between the waypoints of a forward and of a reverse segment
    DesiredV,       \* desired_linear_vel
    MinApproach,    \* min_approach_vel
    ApproachDist,   \* approach_dist
    MinLook,        \* min_lookahead_dist
    MaxLook,        \* max_lookahead_dist
    SpeedLimits     \* what setSpeedLimit is called with

ASSUME RsAssumption ==
    /\ {MaxRsPoses, Ahead, Back, DesiredV, MinApproach, ApproachDist, MinLook, MaxLook} \subseteq Nat \ {0}
    /\ MinLook <= MaxLook /\ SpeedLimits \subseteq [value : Nat, percent : BOOLEAN]

VARIABLES
    rsPath,         \* global_plan_: the places of its waypoints
    rsIdx,          \* current_idx_, counted from 1
    rsLimit,        \* speed_limit_ and speed_limit_is_percentage_
    rsRobot,        \* the robot's place along the line and beside it
    rsCmd           \* the command of the last cycle: v, turn, look (the waypoint aimed at), stamp

rsVars == <<rsPath, rsIdx, rsLimit, rsRobot, rsCmd>>

StepPaths == UNION {[1 .. n -> {Ahead, -Back}] : n \in 1 .. MaxRsPoses}
Waypoints(steps) ==
    [i \in 1 .. Len(steps) + 1 |-> Ahead * Cardinality({k \in 1 .. i - 1 : steps[k] = Ahead})
                                    - Back * Cardinality({k \in 1 .. i - 1 : steps[k] # Ahead})]
Paths == {<<>>, <<0>>} \cup {Waypoints(s) : s \in StepPaths}

Dist(a, b) == IF a < b THEN b - a ELSE a - b
Sign(a) == CASE a < 0 -> -1 [] a = 0 -> 0 [] a > 0 -> 1
Idle == [v |-> 0, turn |-> 0, look |-> 1, stamp |-> 0]

-----------------------------------------------------------------------------
\* The direction in which a waypoint is left; the last keeps the one it is reached in.
TangentYaw(i) ==
    IF Len(rsPath) < 2 THEN 1
    ELSE IF i < Len(rsPath) THEN Sign(rsPath[i + 1] - rsPath[i])
    ELSE Sign(rsPath[i] - rsPath[i - 1])

IsReverse(i) == TangentYaw(i) = -1

\* The last waypoint before the direction flips.
SegmentEndIndex(i) ==
    LET rev == IsReverse(i)
    IN  Min({j \in i .. Len(rsPath) : j = Len(rsPath) \/ IsReverse(j + 1) # rev})

\* The length of path between two waypoints: of its steps ahead and back.
Arc(i, j) == Ahead * Cardinality({k \in i .. j - 1 : ~IsReverse(k)})
             + Back * Cardinality({k \in i .. j - 1 : IsReverse(k)})

\* Mutant: the whole path is searched all the time.
MutPastSegmentEnd(x) == TRUE

\* The robot is beyond the end of its segment, in its direction.
PastSegmentEnd(x) ==
    LET end == SegmentEndIndex(rsIdx)
    IN  rsIdx >= end \/ TangentYaw(end) * (x - rsPath[end]) > 0

\* From the current waypoint on, along at most three lookaheads of path.
SearchEnd(x) ==
    LET end == IF PastSegmentEnd(x) THEN Len(rsPath) ELSE SegmentEndIndex(rsIdx)
    IN  CHOOSE j \in rsIdx .. end :
            /\ Arc(rsIdx, j) <= 3 * MaxLook
            /\ j < end => Arc(rsIdx, j + 1) > 3 * MaxLook

\* Mutant: the waypoints behind are searched as well.
MutSearched(x) == 1 .. SearchEnd(x)
Searched(x) == rsIdx .. SearchEnd(x)

\* The first of the closest.
ClosestIndex(x) ==
    CHOOSE i \in Searched(x) :
        /\ \A j \in Searched(x) : Dist(x, rsPath[i]) <= Dist(x, rsPath[j])
        /\ \A j \in rsIdx .. i - 1 : Dist(x, rsPath[i]) < Dist(x, rsPath[j])

\* The first waypoint so far along the path, the last if there is none.
LookaheadIndex(i, dist) ==
    Min({Len(rsPath)} \cup {j \in i + 1 .. Len(rsPath) : Arc(i, j) >= dist})

Lookahead(i) ==
    Min({MaxLook, MinLook + Dist(rsRobot.x, rsPath[i]) + Dist(rsRobot.y, 0)})

\* Mutant: the target may lie beyond a cusp.
MutLookIndex(i) == LookaheadIndex(i, Lookahead(i))

\* Mutant: nor is it kept within the path.
MutAnyLook(i) == i + Lookahead(i)

LookIndex(i) == Min({LookaheadIndex(i, Lookahead(i)), SegmentEndIndex(i)})

-----------------------------------------------------------------------------
DistToEnd == Dist(rsRobot.x, Last(rsPath)) + Dist(rsRobot.y, 0)

\* Mutant: a limit above the desired speed is driven.
MutLimited == IF rsLimit.percent THEN DesiredV * rsLimit.value ELSE rsLimit.value
Limited ==
    IF rsLimit.percent THEN DesiredV * rsLimit.value
    ELSE IF rsLimit.value < DesiredV THEN rsLimit.value ELSE DesiredV

\* Mutant: down to nothing.
MutSpeed == IF DistToEnd < ApproachDist THEN (Limited * DistToEnd) \div ApproachDist ELSE Limited

\* Slower towards the end, rounded down, never below min_approach_vel.
Speed ==
    IF DistToEnd < ApproachDist THEN Max({MinApproach, (Limited * DistToEnd) \div ApproachDist})
    ELSE Limited

\* Mutant: reversing, the robot steers as it does forward.
MutTurn(i) == -Sign(rsRobot.y)

\* Lookahead point and cross-track error both lie to the path's side of the
\* robot, as seen in the direction of travel.
Turn(i) == -Sign(TangentYaw(i) * rsRobot.y)

Steered(i) ==
    [v    |-> IF IsReverse(i) THEN -Speed ELSE Speed,
     turn |-> IF Speed = 0 THEN 0 ELSE Turn(i),
     look |-> LookIndex(i),
     stamp |-> 1 - rsCmd.stamp]

Home == [x |-> 0, y |-> 0]
NoLimit == [value |-> 1, percent |-> FALSE]     \* speed_limit_ = 1.0 until it is set
RsInit == rsPath = <<>> /\ rsIdx = 1 /\ rsLimit = NoLimit /\ rsRobot = Home /\ rsCmd = Idle

\* A goal for the controller: the path starts where the robot is, or beside it.
SetPlan ==
    /\ rsPath = <<>>
    /\ \E p \in Paths \ {<<>>}, y \in -1 .. 1 : rsPath' = p /\ rsRobot' = [x |-> 0, y |-> y]
    /\ rsIdx' = 1 /\ rsCmd' = Idle /\ UNCHANGED rsLimit

SetSpeedLimit == \E l \in SpeedLimits : rsLimit' = l /\ UNCHANGED <<rsPath, rsIdx, rsRobot, rsCmd>>

\* The goal checker of the controller server; on a line a path passes its goal
\* early where in the plane it does not, so the last waypoint has to be next.
AtGoal ==
    /\ rsPath # <<>> /\ Dist(rsRobot.x, Last(rsPath)) <= 1
    /\ ClosestIndex(rsRobot.x) = Len(rsPath)

\* computeVelocityCommands; then the robot moves as it is told, or less far,
\* and comes back to the path or not.
ComputeVelocityCommands ==
    /\ rsPath # <<>> /\ UNCHANGED <<rsPath, rsLimit>> /\ ~AtGoal
    /\ \E i \in {ClosestIndex(rsRobot.x)} : \E cmd \in {Steered(i)} :
          /\ rsIdx' = i /\ rsCmd' = cmd
          /\ \E k \in Min({1, Dist(cmd.v, 0)}) .. Dist(cmd.v, 0), y \in {rsRobot.y, 0} :
                rsRobot' = [x |-> rsRobot.x + k * Sign(cmd.v), y |-> y]

GoalReached ==
    /\ AtGoal
    /\ rsPath' = <<>> /\ rsIdx' = 1 /\ rsRobot' = Home /\ rsCmd' = Idle /\ UNCHANGED rsLimit

\* Cancelled, or a new path is about to replace the one being followed.
Abandoned ==
    /\ rsPath # <<>> /\ rsPath' = <<>>
    /\ rsIdx' = 1 /\ rsRobot' = Home /\ rsCmd' = Idle /\ UNCHANGED rsLimit

\* The controller server runs its cycles: weak fairness of RsTask, which can be
\* taken as long as there is a path.
RsTask == ComputeVelocityCommands \/ GoalReached
RsFair == []<><<RsTask>>_rsVars \/ []<>(rsPath = <<>>)
RsNext == SetPlan \/ SetSpeedLimit \/ Abandoned \/ RsTask

-----------------------------------------------------------------------------
RsTypeOK ==
    /\ Len(rsPath) <= MaxRsPoses + 1 /\ rsIdx \in 1 .. Max({1, Len(rsPath)})
    /\ rsLimit \in SpeedLimits \cup {NoLimit}
    /\ rsRobot.x \in Int /\ rsRobot.y \in -1 .. 1
    /\ rsCmd.v \in Int /\ rsCmd.turn \in -1 .. 1 /\ rsCmd.stamp \in {0, 1} /\ rsCmd.look \in 1 .. Max({1, Len(rsPath)})

\* The robot aims at a waypoint it drives to in the direction it is commanded.
AimsWithinSegment ==
    rsCmd.v # 0 => /\ \A i \in rsIdx .. rsCmd.look : IsReverse(i) <=> rsCmd.v < 0
                   /\ rsCmd.look >= rsIdx

\* The index moves on to another segment only when the robot has driven its
\* segment to the last waypoint before the cusp.
DrivesToCusp ==
    [][rsPath # <<>> /\ rsPath' = rsPath /\ rsIdx' # rsIdx =>
        /\ rsIdx' > rsIdx
        /\ LET end == SegmentEndIndex(rsIdx) IN
           rsIdx < end /\ rsIdx' > end => TangentYaw(end) * (rsRobot.x - rsPath[end]) > 0]_rsVars

\* A robot beside the path turns towards it, forward and in reverse: seen from
\* above, its direction of travel swings to the other side.
SteersBack ==
    [][rsRobot'.x # rsRobot.x /\ rsCmd' # Idle =>
        rsCmd'.turn * Sign(rsCmd'.v) = -Sign(rsRobot.y)]_rsVars

\* A limit in metres per second is kept, but for the approach to the end.
LimitKept ==
    [][rsRobot'.x # rsRobot.x /\ rsCmd' # Idle /\ ~rsLimit.percent =>
        /\ Dist(rsCmd'.v, 0) <= Max({MinApproach, rsLimit.value})
        /\ Dist(rsCmd'.v, 0) <= Max({MinApproach, DesiredV})
        /\ DistToEnd >= ApproachDist => Dist(rsCmd'.v, 0) <= rsLimit.value]_rsVars

\* However the path turns back on itself, a robot that does as it is told gets
\* to its end, unless it is cancelled or limited to zero.
RsArrives == rsPath # <<>> ~> rsPath = <<>> \/ rsLimit.value = 0

\* The path is followed segment by segment, in each segment's direction, towards
\* the path and within the limit, to its end.
FollowsSegments == []AimsWithinSegment /\ DrivesToCusp /\ SteersBack /\ LimitKept /\ RsArrives
=============================================================================
