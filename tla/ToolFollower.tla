----------------------------- MODULE ToolFollower -----------------------------
(***************************************************************************)
(* ToolLineFollowerController and its heir for arcs: the PID on the cross  *)
(* track error of the tool, which steers the robot along a swath.          *)
(*                                                                         *)
(* The swath is a row of poses one unit apart; the tool is so far along it *)
(* and so far to its left.  Time counts cycles of the controller, which    *)
(* are the 0.05 s the code takes for a time step it cannot measure.        *)
(***************************************************************************)
EXTENDS Integers, FiniteSetsExt

CONSTANTS
    SwathLengths,   \* numbers of poses of the plans
    Bends,          \* curvatures of the plans
    MaxSide,        \* how far the tool can be off the line
    KpNear, KpMid, KpFar, Ki, Kd,
    KiClamp,        \* ki_clamp
    EntryIgnore,    \* ki_entry_ignore_s
    NearLine, MidLine,
    LineV, LineMinV,            \* desired_linear_vel, min_linear_vel
    SlowDist, SlowV,            \* approach_velocity_scaling_dist, approach_min_velocity
    MaxAngular,                 \* max_angular_vel
    LineLimits,     \* what setSpeedLimit is called with
    MaxGap          \* a bound on the cycles without a tool pose that are told apart

ASSUME ToolFollowerAssumption ==
    /\ SwathLengths \subseteq Nat \ {0, 1} /\ Bends \subseteq Int
    /\ {KpNear, KpMid, KpFar, Ki, Kd, KiClamp, EntryIgnore, NearLine, MidLine, SlowDist} \subseteq Nat
    /\ {MaxSide, LineV, LineMinV, SlowV, MaxAngular, MaxGap} \subseteq Nat \ {0}
    /\ LineLimits \subseteq [value : Nat, percent : BOOLEAN]

VARIABLES
    linePlan,   \* global_plan_
    pathIdx,    \* current_path_idx_
    pidReady,   \* pid_initialized_
    integral,   \* cross_track_error_integral_
    prevError,  \* prev_cross_track_error_
    gap,        \* cycles since prev_time_
    planAge,    \* cycles since plan_start_time_, as far as the entry lasts
    tool,       \* where the tool is, and whether the transform to it is known
    lineLimit,  \* speed_limit_, speed_limit_is_percentage_
    twist       \* the last command, and what the arc follower makes of it

tfVars == <<linePlan, pathIdx, pidReady, integral, prevError, gap, planAge, tool, lineLimit, twist>>

NoSwath == [poses |-> 0, bend |-> 0]
Stand == [v |-> 0, w |-> 0, arc |-> 0]
Off(x) == Max({x, -x})
Within(x, lo, hi) == Max({lo, Min({x, hi})})
Quot(a, b) == IF a < 0 THEN -((-a) \div b) ELSE a \div b

-----------------------------------------------------------------------------
\* findClosestPointOnPath: the first of the segments from search_start on that
\* is nearest; a tool on a pose is as near to the segment before.
Closest ==
    LET start == IF pathIdx >= linePlan.poses THEN 0 ELSE pathIdx
        onto(i) == Within(tool.along, i, i + 1)
        far(i) == Off(tool.along - onto(i))
        segments == start .. linePlan.poses - 2
    IN  IF segments = {} THEN linePlan.poses - 1
        ELSE Min({i \in segments : \A k \in segments : far(i) <= far(k)})

\* The gain for the distance to the line.
Gain_p(e) ==
    IF Off(e) < NearLine THEN KpNear ELSE IF Off(e) < MidLine THEN KpMid ELSE KpFar

\* Mutant: the integral starts with the swath.
MutIntegrated(e, dt) == Within(integral + e * dt, -(KiClamp \div Ki), KiClamp \div Ki)

\* Nothing is added while the robot enters the swath.
Integrated(e, dt) ==
    LET sum == IF planAge > EntryIgnore THEN integral + e * dt ELSE integral
    IN  IF Ki > 0 THEN Within(sum, -(KiClamp \div Ki), KiClamp \div Ki) ELSE sum

\* Mutant: steers to the side it is on.
MutSteer(e, sum, d) == Within(Gain_p(e) * e + Ki * sum + d, -MaxAngular, MaxAngular)
Steer(e, sum, d) == Within(-(Gain_p(e) * e + Ki * sum + d), -MaxAngular, MaxAngular)

\* A percentage is multiplied as it comes; no limit is 0.
Allowed ==
    IF lineLimit.percent THEN LineV * lineLimit.value
    ELSE IF lineLimit.value > 0 THEN Min({LineV, lineLimit.value}) ELSE LineV

\* Slower over the last stretch of the swath.
Approached(i, max) ==
    LET rest == Max({0, linePlan.poses - 1 - i})
    IN  IF SlowDist > 0 /\ rest < SlowDist
        THEN Max({SlowV, SlowV + Quot((max - SlowV) * rest, SlowDist)}) ELSE max

\* Slower off the line, no less than three tenths; a limit below the slowest
\* speed gives the slowest speed.
Speed_l(e, max) ==
    LET v == Quot(max * Max({3, 10 - Off(e)}), 10)
    IN  IF v < LineMinV THEN LineMinV ELSE Min({v, max})

\* What the arc follower adds for the curvature at the index it has reached.
Curvature(i) == IF i = 0 \/ i + 1 >= linePlan.poses THEN 0 ELSE linePlan.bend
WithCurve(v, w, i) == Within(w + v * Curvature(i), -MaxAngular, MaxAngular)

-----------------------------------------------------------------------------
ToolFollowerInit ==
    /\ linePlan = NoSwath /\ pathIdx = 0 /\ pidReady = FALSE /\ integral = 0 /\ prevError = 0
    /\ gap = 0 /\ planAge = EntryIgnore + 1
    /\ tool = [along |-> 0, side |-> 0, known |-> TRUE]
    /\ lineLimit = [value |-> 0, percent |-> FALSE] /\ twist = Stand

\* Mutant: the new swath takes over the integral of the old one.
MutFreshPid == pidReady' = FALSE /\ prevError' = 0 /\ UNCHANGED integral
FreshPid == pidReady' = FALSE /\ integral' = 0 /\ prevError' = 0

\* activate: the plan stays.
ToolActivate ==
    /\ FreshPid /\ planAge' = EntryIgnore + 1 /\ gap' = 0
    /\ UNCHANGED <<linePlan, pathIdx, tool, lineLimit, twist>>

ToolSetPlan ==
    /\ \E n \in SwathLengths, b \in Bends : linePlan' = [poses |-> n, bend |-> b]
    /\ pathIdx' = 0 /\ FreshPid /\ planAge' = 0 /\ gap' = 0
    /\ UNCHANGED <<tool, lineLimit, twist>>

ToolSetSpeedLimit ==
    /\ lineLimit' \in LineLimits
    /\ UNCHANGED <<linePlan, pathIdx, pidReady, integral, prevError, gap, planAge, tool, twist>>

\* Mutant: the first error is taken for a jump from the line.
MutDerivative(e, dt) == Quot(Kd * (e - prevError), dt)
\* The first cycle compares the error with itself.
Derivative(e, dt) == IF pidReady THEN Quot(Kd * (e - prevError), dt) ELSE 0

\* A cycle that finds the tool, which the robot has moved to here or there.
PidCycle ==
    LET i == Closest
        e == tool.side
        dt == IF pidReady THEN Max({1, gap}) ELSE 1
        sum == Integrated(e, dt)
        w == Steer(e, sum, Derivative(e, dt))
        v == Speed_l(e, Approached(i, Allowed))
    IN  /\ pathIdx' = Max({pathIdx, i}) /\ integral' = sum
        /\ pidReady' = TRUE /\ prevError' = e
        /\ gap' = 1
        /\ twist' = [v |-> v, w |-> w, arc |-> WithCurve(v, w, pathIdx')]

\* Without a plan or a tool pose the command is to stand; the PID waits.
Stopped ==
    /\ twist' = [Stand EXCEPT !.arc = WithCurve(0, 0, pathIdx)]
    /\ gap' = Min({gap + 1, MaxGap})
    /\ UNCHANGED <<pathIdx, pidReady, integral, prevError>>

\* computeVelocityCommands.
ToolCycle ==
    /\ IF linePlan.poses > 0 /\ tool.known THEN PidCycle ELSE Stopped
    /\ planAge' = Min({planAge + 1, EntryIgnore + 1})
    /\ UNCHANGED <<linePlan, tool, lineLimit>>

\* The robot moves, or its transform is late.
ToolMoves ==
    /\ \E a \in {tool.along, tool.along + 1}, s \in tool.side - 1 .. tool.side + 1, k \in BOOLEAN :
        /\ a <= Max(SwathLengths) - 1 /\ Off(s) <= MaxSide
        /\ tool' = [along |-> a, side |-> s, known |-> k]
    /\ UNCHANGED <<linePlan, pathIdx, pidReady, integral, prevError, gap, planAge, lineLimit, twist>>

\* The robot has turned to the start of the next swath.
ToolReturns ==
    /\ tool.along > 0
    /\ tool' = [along |-> 0, side |-> 0, known |-> TRUE]
    /\ UNCHANGED <<linePlan, pathIdx, pidReady, integral, prevError, gap, planAge, lineLimit, twist>>

ToolFollowerNext ==
    ToolActivate \/ ToolSetPlan \/ ToolSetSpeedLimit \/ ToolCycle \/ ToolMoves \/ ToolReturns

-----------------------------------------------------------------------------
Windup == KiClamp \div Ki

ToolFollowerTypeOK ==
    /\ linePlan = NoSwath \/ (linePlan.poses \in SwathLengths /\ linePlan.bend \in Bends)
    /\ pathIdx \in 0 .. Max({0, linePlan.poses - 1})
    /\ pidReady \in BOOLEAN /\ integral \in Int /\ prevError \in -MaxSide .. MaxSide
    /\ Ki > 0 => integral \in -Windup .. Windup
    /\ gap \in 0 .. MaxGap /\ planAge \in 0 .. EntryIgnore + 1
    /\ tool.side \in -MaxSide .. MaxSide /\ tool.known \in BOOLEAN
    /\ lineLimit \in LineLimits \cup {[value |-> 0, percent |-> FALSE]}
    /\ {twist.w, twist.arc} \subseteq -MaxAngular .. MaxAngular

\* A robot that enters a swath steers by its distance alone: no integral of the
\* last swath or of the entry, and no jump from the last error to the first.
EntryIsCalm ==
    /\ [](planAge <= EntryIgnore => integral = 0)
    /\ [][~pidReady /\ pidReady' /\ planAge <= EntryIgnore
          => twist'.w = Within(-(Gain_p(tool.side) * tool.side), -MaxAngular, MaxAngular)]_tfVars

\* A tool that is off the line and not nearing it makes the robot turn to the
\* line, unless the integral of the other side outweighs it.
SteersToLine ==
    [][/\ tool.known /\ UNCHANGED <<linePlan, tool, lineLimit>> /\ pidReady /\ pidReady'
       /\ tool.side * (tool.side - prevError) >= 0 /\ tool.side * integral' >= 0
       => /\ tool.side > 0 => twist'.w < 0
          /\ tool.side < 0 => twist'.w > 0]_tfVars

\* The tool is brought to the line from the first cycle of a swath on.
ToolIsSteered == EntryIsCalm /\ SteersToLine
=============================================================================
