------------------------------ MODULE Actuator ------------------------------
(***************************************************************************)
(* One linear actuator of a board: its closed loop, run by the control     *)
(* task at 50 Hz, the commands the network task gives it, and the e-stop.  *)
(*                                                                         *)
(* A cycle is two actions: the task first takes the time, then reads the   *)
(* converters for several milliseconds, then runs the loop under the lock. *)
(* A command that arrives in between is stamped later than the cycle's     *)
(* time.  Positions, duties and ages are integers: positions on a scale of *)
(* 0 .. Top, ages in cycles, one past their limit when it is exceeded.     *)
(* Only the configuration survives a reset, so Init stands for every boot. *)
(***************************************************************************)
EXTENDS Integers, FiniteSetsExt

CONSTANTS
    Top,            \* a wiper at 0 or Top is off scale
    Limits,         \* pairs <<r_min, r_max>> a configuration may hold
    Deadband, PwmMin, PwmMax, Gain, Slew, StallDelta,
    OcCycles, StallCycles,
    CmdCycles       \* cmd_timeout_ms; 0 for none

ASSUME ActuatorAssumption ==
    /\ {Top, Deadband, PwmMin, PwmMax, Slew} \subseteq Nat \ {0}
    /\ {Gain, StallDelta, OcCycles, StallCycles, CmdCycles} \subseteq Nat
    /\ Limits \subseteq (0 .. Top) \X (0 .. Top)
    /\ PwmMin <= PwmMax

VARIABLES
    r, valid, goal, duty, fault, inDeadband, pending, invert, enabled, limits,
    cmdAge, ocAge, stallAge, stallRef,
    cycle,          \* "idle", or "sampled": the cycle's time is taken
    stopped,        \* history: a cycle saw the loop open since the last command
    origin,         \* history: what set the goal, "hold" or "command"
    blind           \* history: cycles since a reading, a command or an open loop

actConfig == <<invert, enabled, limits>>
actTimers == <<ocAge, stallAge, stallRef>>
actVars == <<r, valid, goal, duty, fault, inDeadband, pending, actConfig, cmdAge,
             actTimers, cycle, stopped, origin, blind>>

Positions == 0 .. Top
Motion == {"overcurrent", "stall"}
Off == -1                       \* an age that is not running
Later == -1                     \* a command stamped after the cycle's time
BlindLimit == StallCycles + (PwmMin + Slew - 1) \div Slew + 1
Older(age, limit) == IF age > limit THEN age ELSE age + 1
Abs(x) == IF x < 0 THEN -x ELSE x

\* Mutant: limits given the wrong way round are kept.
MutSorted(l) == l
Sorted(l) == IF l[2] < l[1] THEN <<l[2], l[1]>> ELSE l

ClampGoal(x) == Max({limits[1], Min({limits[2], x})})

ActInit ==
    /\ r = 0 /\ valid = FALSE /\ goal = 0 /\ duty = 0 /\ fault = "none"
    /\ inDeadband = TRUE /\ pending = FALSE
    /\ invert \in BOOLEAN /\ enabled \in BOOLEAN /\ limits \in {Sorted(l) : l \in Limits}
    /\ cmdAge = CmdCycles + 1 /\ ocAge = Off /\ stallAge = 0 /\ stallRef = 0
    /\ cycle = "idle" /\ stopped = FALSE /\ origin = "hold" /\ blind = 0

-----------------------------------------------------------------------------
(* Commands of the network task.                                           *)
SetGoalRatio(x) ==
    /\ goal' = ClampGoal(x) /\ pending' = TRUE
    /\ cmdAge' \in (IF cycle = "sampled" THEN {0, Later} ELSE {0})
    /\ fault' = IF fault \in Motion THEN "none" ELSE fault
    /\ stopped' = FALSE /\ origin' = "command" /\ blind' = 0
    /\ UNCHANGED <<r, valid, duty, inDeadband, actConfig, actTimers, cycle>>

HoldAt(x) == goal' = ClampGoal(x) /\ inDeadband' = TRUE /\ origin' = "hold"

ResetFault ==
    /\ fault' = "none" /\ HoldAt(r) /\ blind' = 0
    /\ UNCHANGED <<r, valid, duty, pending, actConfig, cmdAge, actTimers, cycle, stopped>>

\* <dev>/act/<n>/config: fromJson, then hold.
Configure(l, e) ==
    /\ limits' = Sorted(l) /\ enabled' = e
    /\ goal' = Max({limits'[1], Min({limits'[2], r})})
    /\ inDeadband' = TRUE /\ origin' = "hold" /\ blind' = 0
    /\ UNCHANGED <<r, valid, duty, fault, pending, invert, cmdAge, actTimers, cycle, stopped>>

\* motor_direction
Reverse ==
    /\ invert' = ~invert /\ blind' = 0
    /\ UNCHANGED <<r, valid, goal, duty, fault, inDeadband, pending, enabled, limits,
                   cmdAge, actTimers, cycle, stopped, origin>>

Command ==
    \/ \E x \in Positions : SetGoalRatio(x)
    \/ ResetFault
    \/ \E l \in Limits, e \in BOOLEAN : Configure(l, e)
    \/ Reverse

-----------------------------------------------------------------------------
TakeTime ==
    /\ cycle = "idle" /\ cycle' = "sampled"
    /\ cmdAge' = Older(cmdAge, CmdCycles)
    /\ ocAge' = IF ocAge = Off THEN Off ELSE Older(ocAge, OcCycles)
    /\ stallAge' = Older(stallAge, StallCycles)
    /\ UNCHANGED <<r, valid, goal, duty, fault, inDeadband, pending, actConfig,
                   stallRef, stopped, origin, blind>>

(* updatePosition(x), and a cycle whose conversion failed.  A sensor that  *)
(* is back on scale clears its fault and holds.                            *)
OffScale(x) == x \in {0, Top}
Reading(x) ==
    LET back == ~OffScale(x) /\ fault = "sensor"
    IN  [r |-> x, valid |-> TRUE, held |-> ~valid \/ back,
         goal |-> IF ~valid \/ back THEN ClampGoal(x) ELSE goal,
         inDeadband |-> inDeadband \/ back,
         fault |-> IF OffScale(x) THEN "sensor" ELSE IF back THEN "none" ELSE fault,
         ref |-> IF valid THEN stallRef ELSE x, age |-> IF valid THEN stallAge ELSE 0]

NoReading == [r |-> r, valid |-> valid, held |-> FALSE, goal |-> goal,
              inDeadband |-> inDeadband, fault |-> fault, ref |-> stallRef, age |-> stallAge]

\* The unsigned difference of a stamp in the future exceeds every timeout.
TimedOut == CmdCycles > 0 /\ pending /\ (cmdAge = Later \/ cmdAge > CmdCycles)

\* Mutant: only the duty is cut while the loop is open.
MutHolds(allowed) == allowed /\ TimedOut
Holds(allowed) == ~allowed \/ TimedOut

Magnitude(err) == Min({PwmMax, PwmMin + (Abs(err) - Deadband) * Gain})

Target(s, inside) ==
    LET err == s.goal - s.r
        outward == (err > 0 /\ s.r > limits[2]) \/ (err < 0 /\ s.r < limits[1])
        sign == (IF err > 0 THEN 1 ELSE -1) * (IF invert THEN -1 ELSE 1)
    IN  IF inside \/ outward THEN 0 ELSE sign * Magnitude(err)

\* Braking is immediate, reversing passes zero, accelerating is limited.
\* Mutant: acceleration starts from pwm_min and is not limited to the target.
MutSlewed(target) ==
    IF Abs(target) <= Abs(duty) THEN target
    ELSE IF target > duty THEN duty + PwmMin + Slew ELSE duty - PwmMin - Slew

Slewed(target) ==
    LET from == IF duty * target < 0 THEN 0 ELSE duty
    IN  IF Abs(target) <= Abs(from) THEN target
        ELSE IF target > from THEN Min({target, from + Slew}) ELSE Max({target, from - Slew})

\* Mutant: the stall timer starts over in every cycle without a reading.
MutStallRuns(d, s, got) == Abs(d) >= PwmMin /\ Abs(s.r - s.ref) <= StallDelta /\ got
StallRuns(d, s, got) == Abs(d) >= PwmMin /\ Abs(s.r - s.ref) <= StallDelta

\* Mutant: a fault leaves the duty to the next cycle.
MutDutyOf(f, d) == d
DutyOf(f, d) == IF f = "none" THEN d ELSE 0

\* control() of an enabled actuator, after the reading s.
Driven(s, got, over, allowed) ==
    LET held == Holds(allowed)
        t == [s EXCEPT !.goal = IF held THEN ClampGoal(s.r) ELSE @]
        was == held \/ s.inDeadband
        runs == allowed /\ s.fault = "none"
        inside == IF runs THEN Abs(t.goal - t.r) < (IF was THEN 2 ELSE 1) * Deadband ELSE was
        d == Slewed(IF runs THEN Target(t, inside) ELSE 0)
        oc == IF d # 0 /\ over THEN IF ocAge = Off THEN 0 ELSE ocAge ELSE Off
        stalls == StallRuns(d, s, got)
        tripped == IF stalls /\ s.age > StallCycles THEN "stall"
                   ELSE IF oc > OcCycles THEN "overcurrent" ELSE s.fault
    IN  /\ goal' = t.goal /\ inDeadband' = inside
        /\ pending' = (pending /\ ~(allowed /\ TimedOut))
        /\ ocAge' = oc
        /\ stallRef' = IF stalls THEN s.ref ELSE s.r
        /\ stallAge' = IF stalls THEN s.age ELSE 0
        /\ fault' = tripped /\ duty' = DutyOf(tripped, d)
        /\ origin' = IF held \/ s.held THEN "hold" ELSE origin

Control(s, got, over, allowed) ==
    /\ cycle = "sampled" /\ cycle' = "idle"
    /\ r' = s.r /\ valid' = s.valid
    /\ IF enabled /\ s.valid THEN Driven(s, got, over, allowed)
       ELSE /\ goal' = s.goal /\ inDeadband' = s.inDeadband /\ fault' = s.fault /\ duty' = 0
            /\ stallRef' = s.ref /\ stallAge' = s.age
            /\ origin' = IF s.held THEN "hold" ELSE origin
            /\ UNCHANGED <<pending, ocAge>>
    /\ stopped' = (stopped \/ ~allowed)
    /\ blind' = IF got \/ ~allowed THEN 0 ELSE IF blind > BlindLimit THEN blind ELSE blind + 1
    /\ UNCHANGED <<actConfig, cmdAge>>

\* Only an enabled actuator's position is read; over: the current is above
\* i_limit; allowed: act/enable and the loop are closed.
RunLoop ==
    \E over, allowed \in BOOLEAN :
       \/ enabled /\ \E x \in Positions : Control(Reading(x), TRUE, over, allowed)
       \/ Control(NoReading, FALSE, over, allowed)

ActNext == Command \/ TakeTime \/ RunLoop

-----------------------------------------------------------------------------
ActTypeOK ==
    /\ {r, goal, stallRef} \subseteq Positions /\ duty \in -PwmMax .. PwmMax
    /\ {valid, inDeadband, pending, invert, enabled, stopped} \subseteq BOOLEAN
    /\ fault \in Motion \cup {"none", "sensor"}
    /\ limits \in Positions \X Positions
    /\ cmdAge \in Later .. CmdCycles + 1 /\ ocAge \in Off .. OcCycles + 1
    /\ stallAge \in 0 .. StallCycles + 1
    /\ cycle \in {"idle", "sampled"} /\ origin \in {"hold", "command"}
    /\ blind \in 0 .. BlindLimit + 1

\* Whatever limits a configuration brings, and in whatever order with commands
\* and readings, an actuator never drives to a goal outside its soft limits.
GoalWithinLimits == valid => limits[1] <= goal /\ goal <= limits[2]

\* A motion that the e-stop or act/enable interrupted is not taken up again:
\* after it an actuator holds until a new command, also when it was disabled
\* or its sensor was lost meanwhile.
StopForgetsGoal == stopped /\ valid /\ enabled => origin = "hold"

\* An actuator whose position is no longer read does not run on: without a
\* reading and without a command, the stall timer cuts it off.
BlindStops == blind > BlindLimit => duty = 0

\* A faulted actuator is not driven, whichever of its faults met in one cycle.
FaultStops == fault # "none" => duty = 0

\* An actuator moves only when and where it may: to a goal inside its limits,
\* which no stop has cancelled, with a position to go by and without a fault.
DrivesSafely == GoalWithinLimits /\ StopForgetsGoal /\ BlindStops /\ FaultStops
=============================================================================
