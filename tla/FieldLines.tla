------------------------------ MODULE FieldLines ------------------------------
(***************************************************************************)
(* The lines of a field on their way through the field navigator and the   *)
(* nodes that pick a line, its turn and its offset: the files, a goal, a   *)
(* goal that preempts a running one, and the legs of a line in the order   *)
(* of the trees.                                                           *)
(*                                                                         *)
(* A line is [id, turn]; its end is a pose on a grid, with a heading in    *)
(* quarter turns.                                                          *)
(***************************************************************************)
EXTENDS Integers, Sequences

CONSTANTS
    Fields,         \* name -> [lines, parsed, offsets]: the lines of the file, how many
                    \* of them can be read, and the numbers that have an offset
    EndPoses        \* where a swath can end

ASSUME FieldLinesAssumption ==
    /\ \A f \in DOMAIN Fields :
         /\ Len(Fields[f].lines) \in Nat /\ DOMAIN Fields[f].lines = 1 .. Len(Fields[f].lines)
         /\ \A i \in DOMAIN Fields[f].lines : Fields[f].lines[i].id # "none"
         /\ Fields[f].parsed \in Int /\ Fields[f].parsed <= Len(Fields[f].lines)
    /\ EndPoses \subseteq [x : Int, y : Int, h : 0 .. 3]

VARIABLES
    navLines,       \* field_lines_ of the navigator
    fieldLines,     \* field_lines on the blackboard
    totalLines,     \* total_lines
    lineIndex,      \* current_line_index
    lineOnBoard,    \* the line whose ends geo_points holds
    turnDirection,  \* turn_direction
    lateralOffset,  \* what the controller was last told
    headland,       \* headland_pose
    leg             \* what the tree does: "idle", "swath", "turn", "hop"

flVars == <<navLines, fieldLines, totalLines, lineIndex, lineOnBoard, turnDirection,
            lateralOffset, headland, leg>>

NoLine == [id |-> "none", turn |-> "end", offset |-> FALSE]
NoPose == [x |-> 0, y |-> 0, h |-> 0]
WithoutOffset(line) == [id |-> line.id, turn |-> line.turn, offset |-> FALSE]
LineAt(lines, i) == IF i \in 0 .. Len(lines) - 1 THEN lines[i + 1] ELSE NoLine

FieldLinesInit ==
    /\ navLines = <<>> /\ fieldLines = <<>> /\ totalLines = 0 /\ lineIndex = 0
    /\ lineOnBoard = NoLine /\ turnDirection = "end" /\ lateralOffset = FALSE
    /\ headland = NoPose /\ leg = "idle"

-----------------------------------------------------------------------------
Missing(f) == Fields[f].parsed < 0
Readable(f) == Fields[f].parsed = Len(Fields[f].lines)

\* loadDirectedLinesFromFile: a file that is not there leaves the lines alone,
\* one that breaks off leaves those before the break.
LoadedLines(f) ==
    IF Missing(f) THEN navLines
    ELSE [i \in 1 .. Fields[f].parsed |-> WithoutOffset(Fields[f].lines[i])]

\* loadSwathOffsets: the entries whose number the field has.
WithOffsets(lines, f) ==
    [i \in 1 .. Len(lines) |->
        [id |-> lines[i].id, turn |-> lines[i].turn,
         offset |-> lines[i].offset \/ (i - 1) \in Fields[f].offsets]]

ShowLine(line) == lineOnBoard' = line /\ turnDirection' = line.turn

\* Mutant: the start is not compared with the new field.
MutStartIndex(start, f) == start
StartIndex(start, f) == IF start >= Len(Fields[f].lines) THEN 0 ELSE start

\* goalReceived, without a progress file.
FieldGoal ==
    /\ leg = "idle"
    /\ \E f \in DOMAIN Fields, start \in 0 .. 3 :
          IF Readable(f)
          THEN LET lines == WithOffsets(LoadedLines(f), f) IN
               /\ navLines' = lines
               /\ IF lines = <<>>
                  THEN UNCHANGED <<fieldLines, totalLines, lineIndex, lineOnBoard, turnDirection, leg>>
                  ELSE /\ fieldLines' = lines /\ totalLines' = Len(lines)
                       /\ lineIndex' = StartIndex(start, f)
                       /\ ShowLine(LineAt(lines, lineIndex')) /\ leg' = "swath"
          ELSE /\ navLines' = LoadedLines(f)
               /\ UNCHANGED <<fieldLines, totalLines, lineIndex, lineOnBoard, turnDirection, leg>>
    /\ UNCHANGED <<lateralOffset, headland>>

\* onPreempt, under the running tree: whether the lines could be read is not
\* asked, and neither the leg nor the map points change.
FieldPreempt ==
    /\ leg # "idle"
    /\ \E f \in DOMAIN Fields :
          LET lines == WithOffsets(LoadedLines(f), f) IN
          /\ navLines' = lines /\ fieldLines' = lines /\ totalLines' = Len(lines)
          /\ lineIndex' = 0
          /\ IF lines = <<>> THEN UNCHANGED <<lineOnBoard, turnDirection>>
             ELSE ShowLine(LineAt(lines, 0))
    /\ UNCHANGED <<lateralOffset, headland, leg>>

EndField == leg' = "idle"

\* SetSwathLateralOffset before the swath: a call that is not answered may have
\* been heard.
SwathLeg ==
    /\ leg = "swath"
    /\ \/ lateralOffset' = LineAt(fieldLines, lineIndex).offset /\ leg' \in {"turn", "idle"}
       \/ UNCHANGED lateralOffset /\ EndField
    /\ UNCHANGED <<navLines, fieldLines, totalLines, lineIndex, lineOnBoard, turnDirection, headland>>

Toward(h) == CASE h = 0 -> <<1, 0>> [] h = 1 -> <<0, 1>> [] h = 2 -> <<-1, 0>> [] h = 3 -> <<0, -1>>
Sin(h) == Toward(h)[2]
Cos(h) == Toward(h)[1]

\* Mutant: the centre of the turn on the other side.
MutHeadlandPose(turn, e) ==
    LET sign == IF turn = "left" THEN 1 ELSE -1
        cx == e.x + sign * Sin(e.h)
        cy == e.y - sign * Cos(e.h)
        h == (e.h + sign) % 4
    IN  [x |-> cx + sign * Sin(h), y |-> cy - sign * Cos(h), h |-> h]

\* ComputeHeadlandPose: the end of a quarter turn of radius 1.
HeadlandPose(turn, e) ==
    LET sign == IF turn = "left" THEN 1 ELSE -1
        cx == e.x - sign * Sin(e.h)
        cy == e.y + sign * Cos(e.h)
        h == (e.h + sign) % 4
    IN  [x |-> cx + sign * Sin(h), y |-> cy - sign * Cos(h), h |-> h]

\* GetTurnSequenceFile: what is not right is left.
SequenceSide(turn) == IF turn = "right" THEN "right" ELSE "left"

\* The turn from one of the ends of the swath; the last line has none.
TurnLeg ==
    /\ leg = "turn"
    /\ IF turnDirection = "end" THEN EndField /\ UNCHANGED headland
       ELSE \/ \E e \in EndPoses : headland' = HeadlandPose(SequenceSide(turnDirection), e) /\ leg' = "hop"
            \/ EndField /\ UNCHANGED headland
    /\ UNCHANGED <<navLines, fieldLines, totalLines, lineIndex, lineOnBoard, turnDirection, lateralOffset>>

\* Mutant: the last line is taken for one before.
MutNoneLeft == lineIndex + 1 > totalLines
NoneLeft == lineIndex + 1 >= totalLines

\* NextFieldLine: after the last line the turn is "end".
HopLeg ==
    /\ leg = "hop" /\ lineIndex' = lineIndex + 1
    /\ IF NoneLeft THEN turnDirection' = "end" /\ UNCHANGED lineOnBoard
       ELSE ShowLine(LineAt(fieldLines, lineIndex'))
    /\ leg' \in {"swath", "idle"}
    /\ UNCHANGED <<navLines, fieldLines, totalLines, lateralOffset, headland>>

FieldLinesNext == FieldGoal \/ FieldPreempt \/ SwathLeg \/ TurnLeg \/ HopLeg

-----------------------------------------------------------------------------
\* Whatever preempts the mission, the nodes find the line they look up in the
\* field they look it up in, and the turn they prepare is the one after the
\* line they show, or none.
LooksUpLines ==
    leg # "idle" =>
        /\ totalLines = Len(fieldLines)
        /\ \/ lineIndex \in 0 .. totalLines - 1
           \/ turnDirection = "end" /\ lineIndex = IF totalLines = 0 THEN 1 ELSE totalLines
           \/ totalLines = 0 /\ lineIndex = 0
        /\ lineOnBoard # NoLine /\ turnDirection \in {lineOnBoard.turn, "end"}

\* The headland pose lies ahead of the end of the swath and on the side of the
\* turn, as far each, and looks to that side.
HeadlandAhead ==
    leg = "hop" => \E e \in EndPoses :
        LET dx == headland.x - e.x
            dy == headland.y - e.y
            left == Toward((e.h + 1) % 4)
            side == dx * left[1] + dy * left[2]
        IN  /\ dx * Cos(e.h) + dy * Sin(e.h) = 1 /\ side \in {-1, 1}
            /\ headland.h = (e.h + side) % 4

FieldLinesOK == LooksUpLines /\ HeadlandAhead
=============================================================================
