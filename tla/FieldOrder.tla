----------------------------- MODULE FieldOrder -----------------------------
(***************************************************************************)
(* What a field mission promises, whatever pauses, cancels and crashes     *)
(* happen on the way: the lines of the field are worked in order, none is  *)
(* passed over, and the field is reported complete only when every line    *)
(* from the starting one on was worked.                                    *)
(***************************************************************************)
EXTENDS Integers

CONSTANT NLines

VARIABLES
    from,       \* the line this pass over the field started at
    worked,     \* lines worked in this pass
    reported    \* the mission was reported as a success

vars == <<from, worked, reported>>
Lines == 0 .. NLines - 1

Init == from = 0 /\ worked = {} /\ reported = FALSE

\* A mission continues the pass, or starts a new one.
Begin ==
    /\ reported' = FALSE
    /\ \/ UNCHANGED <<from, worked>>
       \/ from' \in Lines /\ worked' = {}

Work(l) ==
    /\ ~reported
    /\ \A j \in Lines : j \in from .. l - 1 => j \in worked
    /\ worked' = worked \cup {l}
    /\ UNCHANGED <<from, reported>>

Report ==
    /\ \A j \in Lines : j >= from => j \in worked
    /\ reported' = TRUE
    /\ UNCHANGED <<from, worked>>

Next == Begin \/ Report \/ \E l \in Lines : Work(l)
Spec == Init /\ [][Next]_vars
=============================================================================
