------------------------------ MODULE DriveArc ------------------------------
(***************************************************************************)
(* The behaviour that drives an arc of a headland turn: it commands a      *)
(* constant velocity until the heading has changed by the angle asked for, *)
(* the time is over or the pose is unknown.                                *)
(*                                                                         *)
(* Angles are counted in parts of a half turn and time in control cycles;  *)
(* the heading the robot really has swept is kept beside the one that is   *)
(* computed from two yaws.                                                 *)
(***************************************************************************)
EXTENDS Integers

CONSTANTS
    HalfTurn,       \* pi
    MaxAngle,       \* largest angle asked for
    MaxTurn,        \* turned at most between two cycles
    Allowance       \* time_allowance in cycles

ASSUME ArcAssumption == {HalfTurn, MaxAngle, MaxTurn, Allowance} \subseteq Nat \ {0}

VARIABLES
    arcPhase,       \* idle, running, succeeded, timeout, tf_error, rejected, cancelled
    arcGoal,        \* target_angle_ and the direction of linear_speed_
    arcYaw0,        \* the yaw of initial_pose_
    arcSwept,       \* what the robot has turned since then
    arcVel,         \* the direction in which the last command turns the robot
    arcLeft         \* cycles until end_time_

arcVars == <<arcPhase, arcGoal, arcYaw0, arcSwept, arcVel, arcLeft>>

Size(a) == IF a < 0 THEN -a ELSE a
Yaws == -HalfTurn + 1 .. HalfTurn
ArcGoals == [angle : -MaxAngle .. MaxAngle, forward : BOOLEAN]

\* A yaw is known up to whole turns.
Normal(a) == ((a + HalfTurn - 1) % (2 * HalfTurn)) - HalfTurn + 1

\* Mutant: the difference of two yaws is taken as it is.
MutWrapped(a) == a

\* The difference of two yaws, brought back between -pi and pi.
Wrapped(a) == IF a > HalfTurn THEN a - 2 * HalfTurn ELSE IF a < -HalfTurn THEN a + 2 * HalfTurn ELSE a

AngleTraveled == Wrapped(Normal(arcYaw0 + arcSwept) - arcYaw0)

ArcInit ==
    /\ arcPhase = "idle" /\ arcGoal = [angle |-> 0, forward |-> TRUE]
    /\ arcYaw0 = 0 /\ arcSwept = 0 /\ arcVel = 0 /\ arcLeft = 0

\* onRun: a radius of zero or an unknown pose fails before anything moves.
OnRun ==
    /\ arcPhase = "idle"
    /\ \E goal \in ArcGoals, yaw \in Yaws :
          /\ arcGoal' = goal /\ arcYaw0' = yaw /\ arcSwept' = 0
          /\ arcPhase' \in {"running", "rejected"}
    /\ arcLeft' = Allowance /\ UNCHANGED arcVel

TimeIsUp ==
    /\ arcPhase = "running" /\ arcLeft = 0
    /\ arcPhase' = "timeout" /\ arcVel' = 0
    /\ UNCHANGED <<arcGoal, arcYaw0, arcSwept, arcLeft>>

\* The pose is unknown: the run fails and the last command stands.
PoseLost ==
    /\ arcPhase = "running" /\ arcLeft > 0
    /\ arcPhase' = "tf_error" /\ UNCHANGED <<arcGoal, arcYaw0, arcSwept, arcVel, arcLeft>>

\* Mutant: done as soon as the angle is nearly reached.
MutDone == Size(AngleTraveled) + 1 >= Size(arcGoal.angle)
Done == Size(AngleTraveled) >= Size(arcGoal.angle)

\* omega = v / r in the sense of the angle; in reverse the sense is turned round.
Omega == IF (arcGoal.angle >= 0) = arcGoal.forward THEN 1 ELSE -1

\* onCycleUpdate.
OnCycleUpdate ==
    /\ arcPhase = "running" /\ arcLeft > 0 /\ arcLeft' = arcLeft - 1
    /\ IF Done THEN arcPhase' = "succeeded" /\ arcVel' = 0 /\ UNCHANGED arcSwept
       ELSE /\ arcPhase' = "running" /\ arcVel' = Omega
            /\ \E k \in 0 .. MaxTurn : arcSwept' = arcSwept + k * Omega
    /\ UNCHANGED <<arcGoal, arcYaw0>>

\* TimedBehavior stops the robot when the goal is cancelled or replaced.
ArcCancel ==
    /\ arcPhase = "running" /\ arcPhase' = "cancelled" /\ arcVel' = 0
    /\ UNCHANGED <<arcGoal, arcYaw0, arcSwept, arcLeft>>

\* The node of the behaviour tree answers, for a cancelled run with success.
Answer ==
    /\ arcPhase \notin {"idle", "running"}
    /\ arcPhase' = "idle" /\ arcGoal' = [angle |-> 0, forward |-> TRUE]
    /\ arcYaw0' = 0 /\ arcSwept' = 0 /\ arcLeft' = 0 /\ UNCHANGED arcVel

ArcTask == TimeIsUp \/ OnCycleUpdate
ArcNext == OnRun \/ Answer \/ PoseLost \/ ArcCancel \/ ArcTask

-----------------------------------------------------------------------------
ArcTypeOK ==
    /\ arcPhase \in {"idle", "running", "succeeded", "timeout", "tf_error", "rejected", "cancelled"}
    /\ arcGoal \in ArcGoals /\ arcYaw0 \in Yaws /\ arcLeft \in 0 .. Allowance
    /\ Size(arcSwept) <= Allowance * MaxTurn /\ arcVel \in -1 .. 1

\* An arc that leaves a cycle's turn to the half turn ends when the robot has
\* swept it, and no more than a cycle's turn beyond, wherever north lies.
ArcIsSwept ==
    Size(arcGoal.angle) <= HalfTurn - MaxTurn =>
        /\ arcPhase = "succeeded" => Size(arcSwept) >= Size(arcGoal.angle)
        /\ Size(arcSwept) <= Size(arcGoal.angle) + MaxTurn

\* A run that ended stands still, unless the pose was lost.
StandsAfterArc ==
    arcPhase \in {"succeeded", "timeout", "cancelled"} => arcVel = 0

\* Every run comes to an end, the ones that never see their angle too.
ArcEnds == arcPhase = "running" ~> arcPhase # "running"

\* A run of the behaviour sweeps its arc, or gives up, and stands still.
ArcIsDriven == [](ArcIsSwept /\ StandsAfterArc) /\ ArcEnds
=============================================================================
