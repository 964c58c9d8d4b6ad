---------------------------- MODULE FieldMission ----------------------------
(***************************************************************************)
(* What the field behaviour trees share: the navigator plugin that accepts *)
(* a RunField goal, the blackboard it fills, the progress file the trees   *)
(* save and load, and the pause topic their guard listens to.  FieldHw and *)
(* FieldSim extend it with one tree each.                                  *)
(*                                                                         *)
(* A blackboard here is the current line and stage and the line whose      *)
(* map_points the legs drive along.  turn_direction is written together    *)
(* with the line by every node that writes it, so it is a function of the  *)
(* line: "end" for the last line of the directed-turns file.               *)
(***************************************************************************)
EXTENDS Integers

CONSTANTS
    NLines,     \* lines of the field, total_lines
    Faults      \* what may go wrong: a subset of FaultKinds

FaultKinds == {"save", "convert", "planter", "tear"}

ASSUME FieldAssumption == NLines \in Nat \ {0} /\ Faults \subseteq FaultKinds

VARIABLES
    node,       \* the tree's running leaf, "idle" when no mission runs
    line,       \* blackboard current_line_index
    stage,      \* blackboard stage
    map,        \* the line the blackboard's map_points belong to
    file,       \* field_progress.json
    paused,     \* what the pause guard heard last on /pause
    outcome,    \* how the navigator reported the last mission
    worked,     \* history: lines whose swath was driven to its end since the
                \*   last mission that did not resume from a readable file
    from        \* history: the line that mission started at

boardVars == <<line, stage, map>>
fieldVars == <<node, line, stage, map, file, paused, outcome, worked, from>>

Lines == 0 .. NLines - 1
Order == [approach |-> 0, swath |-> 1, turn |-> 2]
Stages == DOMAIN Order
Outcomes == {"none", "running", "succeeded", "failed", "cancelled", "crashed"}

\* A file that is absent, or that does not parse, reads as line 0, approach:
\* what goalReceived and the tree's initialisation fall back to.
NoFile == [kind |-> "none", line |-> 0, stage |-> "approach"]
Torn == [kind |-> "torn", line |-> 0, stage |-> "approach"]

\* Mutant: the next line is saved before the index has advanced.
MutSaved(l, s) ==
    [kind |-> "saved", line |-> IF s = "approach" /\ l > 0 THEN l - 1 ELSE l, stage |-> s]

Saved(l, s) == [kind |-> "saved", line |-> l, stage |-> s]
Files == {NoFile, Torn} \cup [kind : {"saved"}, line : Lines, stage : Stages]

\* Mutants: every other stage counts as past it; only the stage itself does.
MutStageNot(s, check) == s # check
MutStageIs(s, check) == s = check

CheckStagePast(s, check) == Order[s] > Order[check]

\* Mutants: the end is looked for past the last line, or one line too early.
MutSkipTurnLate(l) == l = NLines
MutSkipTurnEarly(l) == l >= NLines - 2

CheckSkipTurn(l) == l = NLines - 1

(***************************************************************************)
(* What SaveFieldProgress returns and leaves on disk.  The file is         *)
(* truncated, then written, and the stream is not looked at again: a full  *)
(* disk is a success with an unreadable file, and a process that dies      *)
(* between the two leaves one as well.                                     *)
(***************************************************************************)
SaveResults(l, s) ==
    {[ret |-> "ok", file |-> Saved(l, s)]}
    \cup (IF "save" \in Faults THEN {[ret |-> "refused", file |-> file]} ELSE {})
    \cup (IF "tear" \in Faults THEN [ret : {"ok", "crashed"}, file : {Torn}] ELSE {})

\* ConvertGeoPoints: FALSE when the /fromLL service is away or answers late.
ConvertResults == IF "convert" \in Faults THEN {TRUE, FALSE} ELSE {TRUE}

-----------------------------------------------------------------------------
(***************************************************************************)
(* A goal: k = -1 resumes, any other start_line_index removes the progress *)
(* file first, and one past the field starts at line 0.  The tree then     *)
(* loads the file again and converts the line's points; without them the   *)
(* mission fails before it moves.                                          *)
(***************************************************************************)
StartLine(k) == IF k \in Lines THEN k ELSE 0

GoalReceived(k) ==
    /\ node = "idle"
    /\ file' = IF k = -1 THEN file ELSE NoFile
    /\ \/ /\ file'.kind = "saved"
          /\ line' = file.line /\ stage' = file.stage
          /\ UNCHANGED <<worked, from>>
       \/ /\ file'.kind # "saved"
          /\ line' = StartLine(k) /\ stage' = "approach"
          /\ worked' = {} /\ from' = StartLine(k)
    /\ \E converted \in ConvertResults :
          \/ converted /\ map' = line' /\ node' = "tick" /\ outcome' = "running"
          \/ ~converted /\ UNCHANGED <<map, node>> /\ outcome' = "failed"
    /\ UNCHANGED paused

\* The mission is over: the tree returned, or was halted, or its process died.
End(o) == node' = "idle" /\ outcome' = o

\* Mutant: the branch succeeds, and the loop goes on.
MutFieldComplete == file' = NoFile /\ node' = "tick" /\ outcome' = "running"

\* The branch "Field complete".
FieldComplete == file' = NoFile /\ End("succeeded")

\* /pause messages, published by the pause manager or an operator.
Pause == ~paused /\ paused' = TRUE
Unpause == paused /\ paused' = FALSE

FieldInit ==
    /\ node = "idle" /\ line = 0 /\ stage = "approach" /\ map = 0
    /\ file = NoFile /\ paused \in BOOLEAN /\ outcome = "none"
    /\ worked = {} /\ from = 0

-----------------------------------------------------------------------------
\* Every line from the start of the field to l was worked, and l too if the
\* stage says that its swath is over.
Behind(l, s) ==
    /\ \A j \in Lines : j \in from .. l - 1 => j \in worked
    /\ s = "turn" => l \in worked

AllWorked == \A j \in Lines : j >= from => j \in worked

\* The progress file records that the swath of l is over.
Recorded(l) ==
    /\ file.kind = "saved"
    /\ l < file.line \/ (l = file.line /\ file.stage = "turn")
=============================================================================
