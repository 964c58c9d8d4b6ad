------------------------------ MODULE Planners ------------------------------
(***************************************************************************)
(* The path planners that work from OMPL's Reeds-Shepp words: the one of   *)
(* the one-line mission, which can be told to start forward, and the       *)
(* universal one of the field mission; and the straight line of a swath.   *)
(*                                                                         *)
(* Lengths are counted in steps of the interpolation, and one step of an   *)
(* arc turns by a quarter, so that every pose lies on a grid: a pose is a  *)
(* position and a heading in quarter turns.  A word is what OMPL returns,  *)
(* its segments in order: a type and a signed number of steps.  The start  *)
(* is the origin.                                                          *)
(***************************************************************************)
EXTENDS Integers, Sequences, SequencesExt

CONSTANTS
    MaxSegments,    \* segments of a word, at most 5
    MaxSteps,       \* steps of a segment, and of a swath
    Leadout,        \* reverse_leadout_length in steps
    Resolution      \* interpolation_resolution of the straight line

ASSUME PlannersAssumption ==
    /\ {MaxSegments, MaxSteps, Resolution} \subseteq Nat \ {0} /\ Leadout \in Nat

VARIABLES
    request,        \* what createPlan was asked for last
    plan,           \* the path it returned
    word,           \* the word OMPL returned for it
    shown           \* the paths on /plan_forward and /plan_reverse

planVars == <<request, plan, word, shown>>

Types == {"L", "R", "S"}
Segments == [type : Types, steps : (-MaxSteps .. MaxSteps) \ {0}]
Words == {w \in UNION {[1 .. n -> Segments] : n \in 0 .. MaxSegments} :
            \A i \in 1 .. Len(w) - 1 : w[i].type # w[i + 1].type}

Origin == [x |-> 0, y |-> 0, h |-> 0]
Dir(h) == CASE h = 0 -> <<1, 0>> [] h = 1 -> <<0, 1>> [] h = 2 -> <<-1, 0>> [] h = 3 -> <<0, -1>>

\* One step ahead (ds = 1) or back (ds = -1): an arc keeps its centre a radius
\* to the left or right.
StepPose(type, ds, p) ==
    LET side == CASE type = "L" -> 1 [] type = "R" -> -1 [] type = "S" -> 0
        left == Dir((p.h + 1) % 4)
    IN  [x |-> p.x + ds * Dir(p.h)[1] + side * left[1],
         y |-> p.y + ds * Dir(p.h)[2] + side * left[2],
         h |-> (p.h + ds * side) % 4]

Waypoint(p, rev) == [pose |-> p, rev |-> rev]
PoseAt(path) == IF path = <<>> THEN Origin ELSE Last(path).pose

\* The poses of n steps along an arc or a line, from p on.
Poses(type, ds, n, p) ==
    LET at[k \in 0 .. n] == IF k = 0 THEN p ELSE StepPose(type, ds, at[k - 1])
    IN  at

\* A waypoint for each of them.
Advance(path, type, ds, n) ==
    path \o [k \in 1 .. n |-> Waypoint(Poses(type, ds, n, PoseAt(path))[k], ds < 0)]

SignOf(n) == IF n < 0 THEN -1 ELSE 1
Magnitude2(n) == n * SignOf(n)
Along(path, s) == Advance(path, s.type, SignOf(s.steps), Magnitude2(s.steps))

NextIsForward(w, i) == i < Len(w) /\ w[i + 1].steps > 0

\* Mutant: the way back from the leadout is forgotten.
MutWithLeadout(path, w, i) ==
    IF w[i].steps < 0 /\ NextIsForward(w, i)
    THEN Advance(path, w[i].type, -1, Leadout) ELSE path

\* Before a forward segment a reverse one goes on for the leadout, and back.
WithLeadout(path, w, i) ==
    IF w[i].steps < 0 /\ NextIsForward(w, i)
    THEN Advance(Advance(path, w[i].type, -1, Leadout), w[i].type, 1, Leadout)
    ELSE path

SampleRsPath(w) ==
    LET path[i \in 0 .. Len(w)] == IF i = 0 THEN <<>> ELSE WithLeadout(Along(path[i - 1], w[i]), w, i)
    IN  path[Len(w)]

SegmentEnd(s, p) == Poses(s.type, SignOf(s.steps), Magnitude2(s.steps), p)[Magnitude2(s.steps)]
WordEnd(w) ==
    LET end[i \in 0 .. Len(w)] == IF i = 0 THEN Origin ELSE SegmentEnd(w[i], end[i - 1])
    IN  end[Len(w)]

Negated(w) == [i \in 1 .. Len(w) |-> [w[i] EXCEPT !.steps = -@]]

\* The second waypoint lies ahead of the first.
SampledForward(path) == Len(path) >= 2 /\ ~path[2].rev

-----------------------------------------------------------------------------
FirstReverse(w) == w # <<>> /\ w[1].steps < 0

\* Mutant: only a path that is all reverse is looked at again.
MutForwardFirst(w) ==
    IF \A i \in 1 .. Len(w) : w[i].steps < 0 THEN Negated(w) ELSE w

\* A word that starts in reverse, where forward is asked for, is driven with
\* every segment the other way round.
ForwardFirst(w) ==
    IF FirstReverse(w) /\ ~SampledForward(SampleRsPath(w)) THEN Negated(w) ELSE w

AtPlace(path, goal) == PoseAt(path).x = goal.x /\ PoseAt(path).y = goal.y

\* A path that ends elsewhere is given the exact goal as its last waypoint.
CloseGap(path, goal) ==
    IF path = <<>> \/ AtPlace(path, goal) THEN path
    ELSE Append(path, Waypoint(goal, Last(path).rev))

Shown(path) == [forward |-> SelectSeq(path, LAMBDA q : ~q.rev),
                reverse |-> SelectSeq(path, LAMBDA q : q.rev)]

NoRequest == [kind |-> "none", goal |-> Origin, forward |-> FALSE, distance |-> 0]
Asked(kind, goal, forward, distance) ==
    [kind |-> kind, goal |-> goal, forward |-> forward, distance |-> distance]

PlanInit == request = NoRequest /\ plan = <<>> /\ word = <<>> /\ shown = Shown(<<>>)

\* ReedsSheppPlanner::createPlan, under the constraint it last heard.
CreateRsPlan ==
    /\ request.kind = "none"
    /\ \E w \in Words, forward \in BOOLEAN :
          LET goal == WordEnd(w) IN
          /\ request' = Asked("rs", goal, forward, 0)
          /\ IF goal = Origin
             THEN plan' = <<>> /\ word' = <<>> /\ UNCHANGED shown
             ELSE /\ word' = w
                  /\ plan' = CloseGap(SampleRsPath(IF forward THEN ForwardFirst(w) ELSE w), goal)
                  /\ shown' = Shown(plan')

\* UniversalReedsSheppPlanner::createPlan: no constraint, no leadout; a
\* cancellation between two segments returns what there is, not published.
UniversalPath(w) ==
    LET path[i \in 0 .. Len(w)] == IF i = 0 THEN <<>> ELSE Along(path[i - 1], w[i])
    IN  path[Len(w)]

CreateUniversalPlan ==
    /\ request.kind = "none"
    /\ \E w \in Words, n \in 0 .. MaxSegments :
          LET goal == WordEnd(w) IN
          /\ n <= Len(w)
          /\ request' = Asked(IF n = Len(w) THEN "universal" ELSE "cancelled", goal, FALSE, 0)
          /\ word' = w
          /\ IF goal = Origin THEN plan' = <<>> /\ UNCHANGED shown
             ELSE IF n < Len(w) THEN plan' = UniversalPath(SubSeq(w, 1, n)) /\ UNCHANGED shown
             ELSE /\ plan' = CloseGap(UniversalPath(w), goal)
                  /\ shown' = Shown(plan')

\* StraightLine::createPlan: waypoint i lies i / Loops of the way along, with
\* heading 0; the goal itself comes last.  (x counts Loops-ths of a step.)
\* Mutant: rounded up.
MutLoops(distance) == (distance + Resolution - 1) \div Resolution
Loops(distance) == distance \div Resolution

CreateStraightPlan ==
    /\ request.kind = "none"
    /\ \E d \in 0 .. MaxSteps * Resolution + 1 :
          /\ request' = Asked("straight", [x |-> d, y |-> 0, h |-> 1], FALSE, d)
          /\ plan' = Append([i \in 1 .. Loops(d) |->
                                Waypoint([x |-> (i - 1) * d, y |-> 0, h |-> 0], FALSE)],
                            Waypoint([x |-> Loops(d) * d, y |-> 0, h |-> 1], FALSE))
          /\ UNCHANGED <<word, shown>>

NextRequest ==
    /\ request.kind # "none" /\ request' = NoRequest
    /\ plan' = <<>> /\ word' = <<>> /\ shown' = Shown(<<>>)

PlanNext == CreateRsPlan \/ CreateUniversalPlan \/ CreateStraightPlan \/ NextRequest

-----------------------------------------------------------------------------
PlanTypeOK ==
    /\ request.kind \in {"none", "rs", "universal", "cancelled", "straight"}
    /\ word \in Words
    /\ \A i \in 1 .. Len(plan) : plan[i].rev \in BOOLEAN /\ plan[i].pose.h \in 0 .. 3

\* q is one step from p, driven the way its segment says.
Drivable(p, q) == \E t \in Types : q.pose = StepPose(t, IF q.rev THEN -1 ELSE 1, p)

DrivenTo(path, p) ==
    /\ \A i \in 1 .. Len(path) : Drivable(IF i = 1 THEN Origin ELSE path[i - 1].pose, path[i])
    /\ PoseAt(path) = p

\* What lies as far behind the start as p ahead of it.
Mirrored(p) == [x |-> -p.x, y |-> p.y, h |-> (4 - p.h) % 4]

\* A path to the goal's mirror image; from there the goal itself is appended,
\* wherever it is, unless they have the same place.
LeadsToMirror(path, goal) ==
    IF goal.x = 0 THEN DrivenTo(path, Mirrored(goal))
    ELSE path # <<>> /\ DrivenTo(Front(path), Mirrored(goal)) /\ Last(path).pose = goal

\* A path sampled from the word OMPL returned is driven step by step from the
\* start to the goal, heading included, whatever leadouts it was given: no two
\* waypoints are further apart than a step.  A forward request whose word starts
\* in reverse alone need not be: there every segment is driven the other way
\* round, and that leads, step by step, to the mirror image of the goal behind
\* or before the start.
PlanConnects ==
    request.kind \in {"rs", "universal"} /\ plan # <<>> =>
        \/ DrivenTo(plan, request.goal)
        \/ request.forward /\ FirstReverse(word) /\ LeadsToMirror(plan, request.goal)

\* The order of SetRsPlannerConstraints: "'forward' enforces that the first
\* path segment is always driven forward" (with a leadout of at least a step).
StartsForward == request.kind = "rs" /\ request.forward /\ plan # <<>> => ~plan[1].rev

\* The waypoints of a swath are evenly spaced, never closer than the resolution
\* and never twice as far; the last one is the goal.
EvenSwath ==
    request.kind = "straight" /\ request.distance >= Resolution =>
        LET n == Len(plan) - 1 IN
        /\ request.distance >= n * Resolution /\ request.distance < 2 * n * Resolution
        /\ \A i \in 1 .. n : plan[i + 1].pose.x - plan[i].pose.x = request.distance
        /\ Last(plan).pose.h = request.goal.h

\* Where a plan leads: to the goal it was asked for or, turned round to start
\* forward, to its mirror image; forward first where that was asked for; and along
\* a swath evenly.
PlansReachGoalOrMirror == PlanConnects /\ StartsForward /\ EvenSwath
=============================================================================
