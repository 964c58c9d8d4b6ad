------------------------------ MODULE SwathTurn ------------------------------
(***************************************************************************)
(* The headland turn planned in three parts: forward left by 120 degrees,  *)
(* in reverse right by 60 degrees, and an arc that joins the lead-in of    *)
(* the next swath.  Each part is planned from where the robot is.          *)
(*                                                                         *)
(* All headings of the turn are multiples of 60 degrees, and the centres   *)
(* of its arcs are a radius away from the robot: positions are points of   *)
(* the hexagonal lattice with the radius as its unit, given by two         *)
(* coordinates, and headings are sixths of a turn.  (A lead-out or lead-in *)
(* that is not a multiple of the lattice's row distance moves the start or *)
(* the goal and changes nothing else: it is left out.)                     *)
(***************************************************************************)
EXTENDS Integers, Sequences

CONSTANTS Reach     \* the next swath starts at most this many radii away

ASSUME SwathTurnAssumption == Reach \in Nat

VARIABLES
    robot,          \* where the robot is: it has driven the parts planned so far
    swath,          \* P_lead, where the lead-in to the next swath begins
    turn,           \* parts planned: 0 .. 3
    joined,         \* the third part found a connecting arc
    joinedAt        \* the pose at the end of that arc, or of the fallback

turnVars == <<robot, swath, turn, joined, joinedAt>>

\* The unit vectors of the lattice; Left(h) is the normal to the left of h.
Left(h) == CASE h = 0 -> <<1, 0>> [] h = 1 -> <<0, 1>> [] h = 2 -> <<-1, 1>>
             [] h = 3 -> <<-1, 0>> [] h = 4 -> <<0, -1>> [] h = 5 -> <<1, -1>>
Spot == (-Reach .. Reach) \X (-Reach .. Reach)
TurnPose == [at : (-(Reach + 9) .. Reach + 9) \X (-(Reach + 9) .. Reach + 9), h : 0 .. 5]

Plus(p, s, v) == <<p[1] + s * v[1], p[2] + s * v[2]>>
Side(left) == IF left THEN 1 ELSE -1

\* The centre of the circle to the left or right of a pose.
Centre(p, left) == Plus(p.at, Side(left), Left(p.h))

\* Mutant: a reverse arc turns the way a forward one does.
MutArcEnd(p, sixths, left, forward) ==
    LET h == (p.h + Side(left) * sixths) % 6
    IN  [at |-> Plus(Centre(p, left), -Side(left), Left(h)), h |-> h]

\* The pose after an arc of so many sixths of a turn.
ArcEnd(p, sixths, left, forward) ==
    LET h == (p.h + (IF forward THEN 1 ELSE -1) * Side(left) * sixths) % 6
    IN  [at |-> Plus(Centre(p, left), -Side(left), Left(h)), h |-> h]

TurnInit ==
    /\ robot = [at |-> <<0, 0>>, h |-> 0] /\ turn = 0
    /\ swath \in [at : Spot, h : 0 .. 5]
    /\ joined = FALSE /\ joinedAt = robot

Segment1 ==
    /\ turn = 0 /\ turn' = 1 /\ robot' = ArcEnd(robot, 2, TRUE, TRUE)
    /\ UNCHANGED <<swath, joined, joinedAt>>

Segment2 ==
    /\ turn = 1 /\ turn' = 2 /\ robot' = ArcEnd(robot, 1, FALSE, FALSE)
    /\ UNCHANGED <<swath, joined, joinedAt>>

\* The controller leaves the robot elsewhere than planned.
Drift ==
    /\ turn \in {1, 2} /\ \E h \in 0 .. 5 : robot' = [at |-> robot.at, h |-> h]
    /\ UNCHANGED <<swath, turn, joined, joinedAt>>

\* The angle from the robot's place to the lead-in's around a common centre,
\* in the arc's direction: the normals point from a pose to its centre.
Sweep(entry, exit) ==
    LET start == (robot.h + (IF entry THEN 3 ELSE 0)) % 6
        end == (swath.h + (IF exit THEN 3 ELSE 0)) % 6
    IN  IF entry THEN (end - start) % 6 ELSE (start - end) % 6

Joins(entry, exit) ==
    /\ Centre(robot, entry) = Centre(swath, exit)
    /\ Sweep(entry, exit) \in 1 .. 4        \* at most three quarters of a turn

\* Mutant: the circles of the two sides are taken for each other.
MutConnections == {c \in BOOLEAN \X BOOLEAN : Joins(c[1], ~c[2])}
Connections == {c \in BOOLEAN \X BOOLEAN : Joins(c[1], c[2])}

\* Without an arc, straight to the lead-in; then along the lead-in.
Segment3 ==
    /\ turn = 2 /\ turn' = 3
    /\ joined' = (Connections # {})
    /\ IF Connections = {}
       THEN robot' = swath /\ joinedAt' = swath
       ELSE \E c \in Connections :
               /\ \A d \in Connections : c[1] => d[1]       \* right entries are tried first
               /\ joinedAt' = ArcEnd(robot, Sweep(c[1], c[2]), c[1], TRUE)
               /\ robot' = swath
    /\ UNCHANGED swath

NextTurn ==
    /\ turn = 3 /\ turn' = 0 /\ robot' = [at |-> <<0, 0>>, h |-> 0]
    /\ joined' = FALSE /\ joinedAt' = robot'
    /\ UNCHANGED swath

TurnNext == Segment1 \/ Segment2 \/ Drift \/ Segment3 \/ NextTurn

-----------------------------------------------------------------------------
TurnTypeOK ==
    /\ robot \in TurnPose /\ swath \in TurnPose /\ turn \in 0 .. 3
    /\ joined \in BOOLEAN /\ joinedAt \in TurnPose

\* The first two parts turn the robot round: undisturbed, it comes out of the
\* reverse arc heading back along the field, one radius to the left.
TurnsBack == [][turn = 1 /\ turn' = 2 /\ robot = ArcEnd([at |-> <<0, 0>>, h |-> 0], 2, TRUE, TRUE)
                 => robot' = [at |-> <<2, -2>>, h |-> 3]]_turnVars

\* A connecting arc ends where the lead-in begins.
ArcMeetsLeadIn == turn = 3 => joinedAt.at = swath.at

\* The three parts bring the robot round and to the next swath.
TurnJoins == TurnsBack /\ []ArcMeetsLeadIn
=============================================================================
