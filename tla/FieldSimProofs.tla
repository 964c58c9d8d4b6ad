--------------------------- MODULE FieldSimProofs ---------------------------
(***************************************************************************)
(* FieldSim's safety, for any number of lines and any set of faults.       *)
(*                                                                         *)
(* The order of the lines is not inductive by itself: that the next line   *)
(* may start when the arc is driven depends on which leg runs at which     *)
(* stage, and that the line is the field's depends on the last line never  *)
(* reaching the arc.  LegFitsStage adds these facts.                       *)
(***************************************************************************)
EXTENDS FieldSim, TLAPS

\* The leg that runs fits the stage and the points are the line's; the last
\* line has no turn, so the arc always has a next line to lead to.
LegFitsStage ==
    node # "idle" =>
        /\ map = line /\ outcome = "running"
        /\ node \in {"approach", "swath"} => stage = node
        /\ node \in {"arc", "hop"} => stage = "turn"
        /\ node = "arc" => line # NLines - 1

Inv == TypeOK /\ OrderUnlessHopPaused /\ LegFitsStage

-----------------------------------------------------------------------------
\* The stages and their order, as check_stage.cpp numbers them.
LEMMA StageOrder ==
    /\ Stages = {"approach", "swath", "turn"}
    /\ Order["approach"] = 0 /\ Order["swath"] = 1 /\ Order["turn"] = 2
BY DEF Stages, Order

\* Line 0 is a line of every field.
LEMMA FirstLine == 0 \in Lines
BY FieldAssumption DEF Lines

\* A file that reads as a saved one holds a line and a stage; the files the
\* model builds are files.
LEMMA FileShapes ==
    /\ \A f \in Files : f.line \in Lines /\ f.stage \in Stages
    /\ NoFile \in Files /\ NoFile.kind # "saved" /\ Torn \in Files /\ Torn.kind # "saved"
    /\ \A l \in Lines, s \in Stages :
          /\ Saved(l, s) \in Files
          /\ Saved(l, s).line = l /\ Saved(l, s).stage = s
BY FirstLine, StageOrder DEF Files, NoFile, Torn, Saved

\* At the end of the last line's swath every line was worked.
LEMMA LastLineCompletes ==
    ASSUME TypeOK, line = NLines - 1,
           \A j \in Lines : j \in from .. line - 1 => j \in worked',
           line \in worked'
    PROVE  \A j \in Lines : j >= from => j \in worked'
BY FieldAssumption DEF TypeOK, Lines

LEMMA InitInv == Init => Inv
<1> SUFFICES ASSUME Init PROVE Inv
  OBVIOUS
<1>1. TypeOK
  <2>1. paused \in BOOLEAN /\ hopPaused \in BOOLEAN
    BY Zenon DEF Init, FieldInit
  <2> QED
    BY <2>1, FirstLine, FileShapes, StageOrder DEF Init, FieldInit, TypeOK, Nodes, Outcomes
<1>2. OrderUnlessHopPaused /\ LegFitsStage
  BY FileShapes DEF Init, FieldInit, OrderUnlessHopPaused, LegFitsStage
<1> QED
  BY <1>1, <1>2 DEF Inv

-----------------------------------------------------------------------------
(* One lemma per action: it preserves Inv.                                  *)

\* The guard passes: the leg is chosen by the stage, or the field completes.
LEMMA TraverseLineInv == Inv /\ TraverseLine => Inv'
<1> SUFFICES ASSUME Inv, TraverseLine PROVE Inv'
  OBVIOUS
<1> USE StageOrder, FileShapes
<1>1. /\ node # "idle" /\ map = line /\ outcome = "running" /\ stage \in Stages
      /\ UNCHANGED <<line, stage, map, paused, worked, from, hopPaused>>
  BY DEF Inv, TypeOK, LegFitsStage, TraverseLine, boardVars
<1>2. \/ /\ stage = "turn" /\ line = NLines - 1
         /\ file' = NoFile /\ node' = "idle" /\ outcome' = "succeeded"
      \/ /\ ~(stage = "turn" /\ line = NLines - 1)
         /\ node' = (IF stage = "turn" THEN "arc" ELSE stage)
         /\ UNCHANGED <<file, outcome>>
  BY <1>1 DEF TraverseLine, FieldComplete, End, CheckSkipTurn, CheckStagePast, Inv, TypeOK
<1>3. TypeOK'
  <2>1. paused' \in BOOLEAN /\ hopPaused' \in BOOLEAN
    BY <1>1, Zenon DEF Inv, TypeOK
  <2> QED
    BY <1>1, <1>2, <2>1 DEF Inv, TypeOK, Nodes, Legs, Outcomes
<1>4. LegFitsStage'
  BY <1>1, <1>2 DEF LegFitsStage
<1>5. OrderUnlessHopPaused'
  <2> SUFFICES ASSUME ~hopPaused'
               PROVE  /\ node' # "idle" => Behind(line, IF node = "hop" THEN "approach" ELSE stage)'
                      /\ file'.kind = "saved" => Behind(file.line, file.stage)'
                      /\ outcome' = "succeeded" => AllWorked'
    BY DEF OrderUnlessHopPaused
  <2>1. /\ Behind(line, stage)
        /\ file.kind = "saved" => Behind(file.line, file.stage)
    BY <1>1 DEF Inv, OrderUnlessHopPaused, TraverseLine
  <2>2. outcome' = "succeeded" => AllWorked'
    BY <1>1, <1>2, <2>1, LastLineCompletes DEF Inv, Behind, AllWorked
  <2> QED
    BY <1>1, <1>2, <2>1, <2>2 DEF Behind
<1> QED
  BY <1>3, <1>4, <1>5 DEF Inv

\* The stage moves on to the swath, ahead of the file.
LEMMA ApproachDoneInv == Inv /\ ApproachDone => Inv'
<1> SUFFICES ASSUME Inv, ApproachDone PROVE Inv'
  OBVIOUS
<1>1. TypeOK'
  BY StageOrder DEF Inv, TypeOK, ApproachDone, Nodes, Legs
<1>2. LegFitsStage'
  BY DEF Inv, LegFitsStage, ApproachDone
<1>3. OrderUnlessHopPaused'
  BY DEF Inv, OrderUnlessHopPaused, LegFitsStage, ApproachDone, Behind, AllWorked
<1> QED
  BY <1>1, <1>2, <1>3 DEF Inv

\* The points are the line's own, so it is the line that is worked.
LEMMA SwathDoneInv == Inv /\ SwathDone => Inv'
<1> SUFFICES ASSUME Inv, SwathDone PROVE Inv'
  OBVIOUS
<1> USE StageOrder, FileShapes
<1>1. /\ node = "swath" /\ stage = "swath" /\ map = line /\ outcome = "running"
      /\ line \in Lines /\ stage' = "turn" /\ worked' = worked \cup {line}
      /\ UNCHANGED <<line, map, paused, from, hopPaused>>
  BY DEF Inv, TypeOK, LegFitsStage, SwathDone
<1>2. \/ /\ line = NLines - 1
         /\ file' = NoFile /\ node' = "idle" /\ outcome' = "succeeded"
      \/ /\ line # NLines - 1 /\ node' = "arc" /\ UNCHANGED <<file, outcome>>
  BY DEF SwathDone, FieldComplete, End, CheckSkipTurn
<1>3. TypeOK'
  <2>1. paused' \in BOOLEAN /\ hopPaused' \in BOOLEAN
    BY <1>1, Zenon DEF Inv, TypeOK
  <2> QED
    BY <1>1, <1>2, <2>1 DEF Inv, TypeOK, Nodes, Legs, Outcomes
<1>4. LegFitsStage'
  BY <1>1, <1>2 DEF LegFitsStage
<1>5. OrderUnlessHopPaused'
  <2> SUFFICES ASSUME ~hopPaused'
               PROVE  /\ node' # "idle" => Behind(line, IF node = "hop" THEN "approach" ELSE stage)'
                      /\ file'.kind = "saved" => Behind(file.line, file.stage)'
                      /\ outcome' = "succeeded" => AllWorked'
    BY DEF OrderUnlessHopPaused
  <2>1. /\ \A j \in Lines : j \in from .. line - 1 => j \in worked'
        /\ file.kind = "saved" => Behind(file.line, file.stage)
    BY <1>1 DEF Inv, OrderUnlessHopPaused, Behind
  <2>2. outcome' = "succeeded" => AllWorked'
    BY <1>1, <1>2, <2>1, LastLineCompletes DEF Inv, AllWorked
  <2>3. file'.kind = "saved" => Behind(file.line, file.stage)'
    BY <1>1, <1>2, <2>1 DEF Behind
  <2>4. node' # "idle" => Behind(line, IF node = "hop" THEN "approach" ELSE stage)'
    BY <1>1, <1>2, <2>1 DEF Behind
  <2> QED
    BY <2>2, <2>3, <2>4
<1> QED
  BY <1>3, <1>4, <1>5 DEF Inv

\* The next line is reached with this one worked, or the mission fails.
LEMMA ArcDoneInv == Inv /\ ArcDone => Inv'
<1> SUFFICES ASSUME Inv, ArcDone PROVE Inv'
  OBVIOUS
<1> USE StageOrder, FileShapes
<1>1. /\ node = "arc" /\ stage = "turn" /\ map = line /\ outcome = "running"
      /\ line \in Lines /\ line # NLines - 1 /\ line' = line + 1
      /\ UNCHANGED <<stage, file, paused, worked, from, hopPaused>>
  BY DEF Inv, TypeOK, LegFitsStage, ArcDone
<1>2. line' \in Lines
  BY <1>1, FieldAssumption DEF Lines
<1>3. \/ map' = line' /\ node' = "hop" /\ UNCHANGED outcome
      \/ node' = "idle" /\ outcome' = "failed" /\ UNCHANGED map
  BY DEF ArcDone, End
<1>4. TypeOK'
  <2>1. paused' \in BOOLEAN /\ hopPaused' \in BOOLEAN
    BY <1>1, Zenon DEF Inv, TypeOK
  <2>2. map' \in Lines /\ node' \in Nodes /\ outcome' \in Outcomes
    BY <1>1, <1>2, <1>3 DEF Inv, TypeOK, Nodes, Legs, Outcomes
  <2> QED
    BY <1>1, <1>2, <2>1, <2>2 DEF Inv, TypeOK
<1>5. LegFitsStage'
  BY <1>1, <1>3 DEF LegFitsStage
<1>6. OrderUnlessHopPaused'
  <2> SUFFICES ASSUME ~hopPaused'
               PROVE  /\ node' # "idle" => Behind(line, IF node = "hop" THEN "approach" ELSE stage)'
                      /\ file'.kind = "saved" => Behind(file.line, file.stage)'
                      /\ outcome' = "succeeded" => AllWorked'
    BY DEF OrderUnlessHopPaused
  <2>1. /\ Behind(line, "turn")
        /\ file.kind = "saved" => Behind(file.line, file.stage)
    BY <1>1 DEF Inv, OrderUnlessHopPaused
  <2>2. \A j \in Lines : j \in from' .. line' - 1 => j \in worked'
    BY <1>1, <2>1 DEF Behind, Inv, TypeOK, Lines
  <2>3. node' # "idle" => Behind(line, IF node = "hop" THEN "approach" ELSE stage)'
    BY <1>3, <2>2 DEF Behind
  <2> QED
    BY <1>1, <1>3, <2>1, <2>3 DEF Behind
<1> QED
  BY <1>4, <1>5, <1>6 DEF Inv

\* What a save returns and leaves on disk.
LEMMA SaveLeaves ==
    ASSUME NEW l \in Lines, NEW s \in Stages, NEW w \in SaveResults(l, s)
    PROVE  /\ w.file \in {Saved(l, s), file, Torn}
           /\ w.ret \in {"ok", "refused", "crashed"}
<1>1. \/ w = [ret |-> "ok", file |-> Saved(l, s)]
      \/ w = [ret |-> "refused", file |-> file]
      \/ w \in [ret : {"ok", "crashed"}, file : {Torn}]
  BY DEF SaveResults
<1> QED
  BY <1>1

\* The hop ends on the next line, whose approach begins; the file names that
\* line, an earlier place, or nothing.
LEMMA HopDoneInv == Inv /\ HopDone => Inv'
<1> SUFFICES ASSUME Inv, HopDone PROVE Inv'
  OBVIOUS
<1> USE StageOrder, FileShapes
<1>1. /\ node = "hop" /\ map = line /\ outcome = "running" /\ line \in Lines
      /\ stage' = "approach" /\ UNCHANGED <<line, map, paused, worked, from, hopPaused>>
  BY DEF Inv, TypeOK, LegFitsStage, HopDone
<1>2. /\ file' \in {Saved(line, "approach"), file, Torn}
      /\ \/ node' = "tick" /\ UNCHANGED outcome
         \/ node' = "idle" /\ outcome' \in {"failed", "crashed"}
  BY <1>1, SaveLeaves DEF HopDone, End
<1>3. TypeOK'
  <2>1. paused' \in BOOLEAN /\ hopPaused' \in BOOLEAN
    BY <1>1, Zenon DEF Inv, TypeOK
  <2>2. file' \in Files /\ node' \in Nodes /\ outcome' \in Outcomes
    BY <1>1, <1>2 DEF Inv, TypeOK, Nodes, Outcomes
  <2> QED
    BY <1>1, <2>1, <2>2 DEF Inv, TypeOK
<1>4. LegFitsStage'
  BY <1>1, <1>2 DEF LegFitsStage
<1>5. OrderUnlessHopPaused'
  <2> SUFFICES ASSUME ~hopPaused'
               PROVE  /\ node' # "idle" => Behind(line, IF node = "hop" THEN "approach" ELSE stage)'
                      /\ file'.kind = "saved" => Behind(file.line, file.stage)'
                      /\ outcome' = "succeeded" => AllWorked'
    BY DEF OrderUnlessHopPaused
  <2>1. /\ Behind(line, "approach")
        /\ file.kind = "saved" => Behind(file.line, file.stage)
    BY <1>1 DEF Inv, OrderUnlessHopPaused
  <2>2. file'.kind = "saved" => Behind(file.line, file.stage)'
    BY <1>1, <1>2, <2>1 DEF Behind
  <2> QED
    BY <1>1, <1>2, <2>1, <2>2 DEF Behind
<1> QED
  BY <1>3, <1>4, <1>5 DEF Inv

\* The mission ends early, or its leg is halted: no line, stage or file changes.
LEMMA HaltedInv ==
    ASSUME Inv, UNCHANGED <<boardVars, file, worked, from>>, node # "idle",
           paused' \in BOOLEAN, hopPaused' \in BOOLEAN, hopPaused => hopPaused',
           \/ node' = "idle" /\ outcome' \in {"failed", "cancelled", "crashed"}
           \/ /\ node' = "wait" /\ UNCHANGED outcome
              /\ node = "hop" => hopPaused'
    PROVE  Inv'
<1>1. TypeOK'
  BY DEF Inv, TypeOK, Nodes, Outcomes, boardVars
<1>2. LegFitsStage'
  BY DEF Inv, LegFitsStage, boardVars
<1>3. OrderUnlessHopPaused'
  BY DEF Inv, OrderUnlessHopPaused, LegFitsStage, Behind, AllWorked, boardVars
<1> QED
  BY <1>1, <1>2, <1>3 DEF Inv

LEMMA LegFailedInv == Inv /\ LegFailed => Inv'
<1> SUFFICES ASSUME Inv, LegFailed PROVE Inv'
  OBVIOUS
<1>1. paused' \in BOOLEAN /\ hopPaused' \in BOOLEAN /\ (hopPaused => hopPaused')
  BY Zenon DEF Inv, TypeOK, LegFailed
<1> QED
  BY <1>1, HaltedInv DEF LegFailed, Legs, End

LEMMA PauseSeenInv == Inv /\ PauseSeen => Inv'
<1> SUFFICES ASSUME Inv, PauseSeen PROVE Inv'
  OBVIOUS
<1>1. paused' \in BOOLEAN
  BY Zenon DEF Inv, TypeOK, PauseSeen
<1>2. hopPaused' \in BOOLEAN /\ (hopPaused => hopPaused') /\ (node = "hop" => hopPaused')
  BY Zenon DEF Inv, TypeOK, PauseSeen
<1> QED
  BY <1>1, <1>2, HaltedInv DEF PauseSeen, Legs

LEMMA StopInv ==
    ASSUME Inv, NEW o \in {"cancelled", "crashed"}, Stop(o)
    PROVE  Inv'
<1>1. paused' \in BOOLEAN /\ hopPaused' \in BOOLEAN /\ (hopPaused => hopPaused')
  BY Zenon DEF Inv, TypeOK, Stop
<1> QED
  BY <1>1, HaltedInv DEF Stop, End

\* A goal starts where the file says, or with nothing worked and no file read.
LEMMA GoalInv == Inv /\ Goal => Inv'
<1> SUFFICES ASSUME Inv, Goal PROVE Inv'
  OBVIOUS
<1> USE StageOrder, FileShapes, FirstLine
<1>1. PICK k \in -1 .. NLines : GoalReceived(k)
  BY DEF Goal
<1>2. StartLine(k) \in Lines
  BY DEF StartLine
<1>3. /\ file' \in {file, NoFile} /\ paused' = paused
      /\ \/ map' = line' /\ node' = "tick" /\ outcome' = "running"
         \/ map' = map /\ node' = "idle" /\ outcome' = "failed"
  BY <1>1 DEF GoalReceived
<1>4. \/ /\ file' = file /\ file.kind = "saved" /\ line' = file.line /\ stage' = file.stage
         /\ worked' = worked /\ from' = from
      \/ /\ file'.kind # "saved" /\ stage' = "approach"
         /\ line' = StartLine(k) /\ from' = StartLine(k) /\ worked' = {}
  BY <1>1 DEF GoalReceived
<1>5. TypeOK'
  <2>1. paused' \in BOOLEAN /\ hopPaused' \in BOOLEAN
    BY <1>3, Zenon DEF Inv, TypeOK, Goal
  <2>2. file' \in Files /\ line' \in Lines /\ stage' \in Stages
    BY <1>2, <1>3, <1>4 DEF Inv, TypeOK
  <2>3. worked' \subseteq Lines /\ from' \in Lines
    BY <1>2, <1>4 DEF Inv, TypeOK
  <2>4. map' \in Lines /\ node' \in Nodes /\ outcome' \in Outcomes
    BY <1>3, <2>2 DEF Inv, TypeOK, Nodes, Outcomes
  <2> QED
    BY <2>1, <2>2, <2>3, <2>4 DEF TypeOK
<1>6. LegFitsStage'
  BY <1>3 DEF LegFitsStage
<1>7. OrderUnlessHopPaused'
  <2> SUFFICES ASSUME ~hopPaused'
               PROVE  /\ node' # "idle" => Behind(line, IF node = "hop" THEN "approach" ELSE stage)'
                      /\ file'.kind = "saved" => Behind(file.line, file.stage)'
                      /\ outcome' = "succeeded" => AllWorked'
    BY DEF OrderUnlessHopPaused
  <2>1. file'.kind = "saved" => ~hopPaused
    BY Zenon DEF Goal
  <2>2. Behind(line, stage)'
    BY <1>2, <1>4, <2>1 DEF Inv, OrderUnlessHopPaused, Behind, Lines
  <2>3. file'.kind = "saved" => Behind(file.line, file.stage)'
    BY <1>4, <2>1 DEF Inv, OrderUnlessHopPaused, Behind
  <2> QED
    BY <1>3, <2>2, <2>3
<1> QED
  BY <1>5, <1>6, <1>7 DEF Inv

\* A message on /pause, or no step at all, touches nothing the tree keeps.
LEMMA PauseTopicInv ==
    ASSUME Inv, PauseTopic \/ UNCHANGED vars
    PROVE  Inv'
<1>1. UNCHANGED <<node, line, stage, map, file, outcome, worked, from, hopPaused>>
  BY DEF PauseTopic, vars, fieldVars, boardVars
<1>2. paused' \in BOOLEAN
  BY Zenon DEF Inv, TypeOK, PauseTopic, Pause, Unpause, vars, fieldVars
<1>3. hopPaused' \in BOOLEAN
  BY <1>1, Zenon DEF Inv, TypeOK
<1>4. TypeOK'
  BY <1>1, <1>2, <1>3 DEF Inv, TypeOK
<1>5. OrderUnlessHopPaused' /\ LegFitsStage'
  BY <1>1 DEF Inv, OrderUnlessHopPaused, LegFitsStage, Behind, AllWorked
<1> QED
  BY <1>4, <1>5 DEF Inv

LEMMA NextInv == Inv /\ [Next]_vars => Inv'
<1> SUFFICES ASSUME Inv, [Next]_vars PROVE Inv'
  OBVIOUS
<1>1. CASE Tree
  BY <1>1, TraverseLineInv, ApproachDoneInv, SwathDoneInv, ArcDoneInv, HopDoneInv,
     LegFailedInv, PauseSeenInv DEF Tree
<1>2. CASE Goal
  BY <1>2, GoalInv
<1>3. CASE PauseTopic \/ UNCHANGED vars
  BY <1>3, PauseTopicInv
<1>4. CASE Stop("cancelled")
  BY <1>4, StopInv
<1>5. CASE Stop("crashed")
  BY <1>5, StopInv
<1> QED
  BY <1>1, <1>2, <1>3, <1>4, <1>5 DEF Next

-----------------------------------------------------------------------------
\* Inv holds in every reachable state of the simulator's tree.
LEMMA SimInv == Spec => []Inv
BY InitInv, NextInv, PTL DEF Spec

\* Every variable keeps its type: the arc never leads past the last line, so
\* the points of the hop are always those of a line of the field.
THEOREM SimTypeOK == Spec => []TypeOK
<1>1. Inv => TypeOK
  BY DEF Inv
<1> QED
  BY <1>1, SimInv, PTL

\* Unless a pause fell into a hop, no crash, failed save, failed conversion,
\* cancel or resumed mission passes over a swath or completes the field early.
THEOREM SimKeepsOrder == Spec => []OrderUnlessHopPaused
<1>1. Inv => OrderUnlessHopPaused
  BY DEF Inv
<1> QED
  BY <1>1, SimInv, PTL

\* Whatever leg is driven, its points are those of the blackboard's line, a
\* paused hop included.
THEOREM SimDrivesItsLine == Spec => []DrivesItsLine
<1>1. Inv => DrivesItsLine
  BY DEF Inv, LegFitsStage, DrivesItsLine, Legs
<1> QED
  BY <1>1, SimInv, PTL
=============================================================================
