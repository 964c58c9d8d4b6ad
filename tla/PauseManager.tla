---------------------------- MODULE PauseManager ----------------------------
(***************************************************************************)
(* pause_manager.py: the node that turns the components' diagnostic        *)
(* reports and the operators' requests into the /pause state the field     *)
(* trees obey.  One action per subscription, service and timer callback;   *)
(* they run one at a time, on the node's single-threaded executor.         *)
(*                                                                         *)
(* A condition is named by its id.  A history entry keeps its id and       *)
(* whether its resolution is still "active"; the time since the last       *)
(* report is an age in ticks that stops once it is stale.                  *)
(*                                                                         *)
(* asked is a history variable: which request the last step served, and    *)
(* which ids its caller asked to end.  No guard reads it; HighWaits does.  *)
(***************************************************************************)
EXTENDS Integers, Sequences, SequencesExt

CONSTANTS
    Reports,        \* reports of present conditions: [id, severity, auto]
    Operators,      \* ids of the operators' manual pauses
    Matches,        \* suppress pattern -> the condition ids it matches
    Config,         \* patterns listed in the suppress_config file
    Filters,        \* sets of ids a resume request's condition_id selects
    StaleTicks,     \* stale_condition_timeout
    HistoryMax      \* history_max_entries

CRITICAL == 1
HIGH == 2
MEDIUM == 3
LOW == 4

Diagnosed == {r.id : r \in Reports}
Ids == Diagnosed \cup Operators
Patterns == DOMAIN Matches
Exact == Patterns \cap Ids

ASSUME PauseAssumption ==
    /\ \A r \in Reports : r.severity \in CRITICAL .. LOW /\ r.auto \in BOOLEAN
    /\ \A p \in Patterns : Matches[p] \subseteq Ids
    /\ \A p \in Exact : Matches[p] = {p}
    /\ Config \subseteq Patterns /\ \A f \in Filters : f \subseteq Ids
    /\ Diagnosed \cap Operators = {}
    /\ StaleTicks \in Nat /\ HistoryMax \in Nat \ {0}

VARIABLES
    active,         \* active_conditions: id -> [severity, auto, age]
    history,        \* sequence of [id, open]
    emergency,      \* emergency_stop_active
    suppressed,     \* suppressed_conditions
    saved,          \* the suppress file on disk
    asked           \* history: the last step's request, [call, ids]

vars == <<active, history, emergency, suppressed, saved, asked>>

Active == DOMAIN active
Calls == {"none", "unpause", "resume", "suppress", "restart"}
Conditions == [severity : CRITICAL .. MEDIUM, auto : BOOLEAN, age : 0 .. StaleTicks + 1]

NodeTypeOK ==
    /\ Active \subseteq Ids /\ \A c \in Active : active[c] \in Conditions
    /\ history \in Seq([id : Ids, open : BOOLEAN]) /\ Len(history) <= HistoryMax
    /\ emergency \in BOOLEAN
    /\ suppressed \subseteq Patterns /\ saved \subseteq Patterns

TypeOK == NodeTypeOK /\ asked \in [call : Calls, ids : SUBSET Ids]

Init ==
    /\ active = <<>> /\ history = <<>> /\ emergency = FALSE
    /\ saved = {} /\ suppressed = Config
    /\ asked = [call |-> "none", ids |-> {}]

-----------------------------------------------------------------------------
IsSuppressed(c) == \E p \in suppressed : c \in Matches[p]

\* Mutant: the severity is not asked for.
MutSelfClearing(c) == active[c].auto

\* Only a MEDIUM condition its component calls clearable goes away by itself.
SelfClearing(c) == active[c].severity = MEDIUM /\ active[c].auto

Trimmed(h) == IF Len(h) > HistoryMax THEN SubSeq(h, Len(h) - HistoryMax + 1, Len(h)) ELSE h
Entered(h, c, open) == Trimmed(Append(h, [id |-> c, open |-> open]))

\* Mutant: earlier "active" entries of the condition are left as they are.
MutSuperseded(h, c) == h

Superseded(h, c) == [i \in DOMAIN h |-> IF h[i].id = c THEN [h[i] EXCEPT !.open = FALSE] ELSE h[i]]

AnyCritical(a) == \E c \in DOMAIN a : a[c].severity = CRITICAL

\* Mutant: the emergency stop is recomputed before the condition is removed.
MutCleared(st, c) ==
    [active |-> [d \in DOMAIN st.active \ {c} |-> st.active[d]],
     history |-> Entered(Superseded(st.history, c), c, FALSE),
     emergency |-> st.emergency /\ AnyCritical(st.active)]

\* The node's state after clear_condition(c).
Cleared(st, c) ==
    LET a == [d \in DOMAIN st.active \ {c} |-> st.active[d]]
    IN  [active |-> a,
         history |-> Entered(Superseded(st.history, c), c, FALSE),
         emergency |-> st.emergency /\ AnyCritical(a)]

\* clear_condition on each member of C that is active, one after the other, in
\* some fixed order of the ids (the code's is the dictionary's).
ClearConditions(C) ==
    LET st == FoldLeft(Cleared, [active |-> active, history |-> history, emergency |-> emergency],
                       SetToSeq(C \cap Active))
    IN  active' = st.active /\ history' = st.history /\ emergency' = st.emergency

\* The step serves a request to end pauses, or none.
Asked(call, ids) == asked' = [call |-> call, ids |-> ids]
NotAsked == Asked("none", {})

\* A new condition enters, with its "active" history entry.
AddCondition(c, severity, auto) ==
    /\ active' = [d \in Active \cup {c} |->
                     IF d = c THEN [severity |-> severity, auto |-> auto, age |-> 0] ELSE active[d]]
    /\ history' = Entered(history, c, TRUE)

-----------------------------------------------------------------------------
\* /pause_request
ManualPause(c) ==
    /\ c \notin Active
    /\ AddCondition(c, HIGH, FALSE)
    /\ NotAsked /\ UNCHANGED <<emergency, suppressed, saved>>

ManualUnpause(c) ==
    /\ c \in Active
    /\ ClearConditions({c})
    /\ Asked("unpause", {c}) /\ UNCHANGED <<suppressed, saved>>

\* /diagnostic_report with condition_active: a known condition is only kept
\* alive, whatever severity the new report carries.
ConditionActive(r) ==
    \/ /\ r.id \in Active
       /\ active' = [active EXCEPT ![r.id].age = 0]
       /\ NotAsked /\ UNCHANGED <<history, emergency, suppressed, saved>>
    \/ /\ r.id \notin Active /\ ~IsSuppressed(r.id) /\ r.severity # LOW
       /\ AddCondition(r.id, r.severity, r.auto)
       /\ emergency' = (emergency \/ r.severity = CRITICAL)
       /\ NotAsked /\ UNCHANGED <<suppressed, saved>>

\* /diagnostic_report of a condition that is over.
ConditionCleared(c) ==
    /\ c \in Active /\ SelfClearing(c)
    /\ ClearConditions({c})
    /\ NotAsked /\ UNCHANGED <<suppressed, saved>>

\* Mutant: the timer looks at HIGH conditions.
MutStale == {c \in Active : /\ active[c].severity = HIGH /\ active[c].auto
                            /\ active[c].age > StaleTicks}

Stale == {c \in Active : SelfClearing(c) /\ active[c].age > StaleTicks}

CheckStale ==
    /\ Stale # {}
    /\ ClearConditions(Stale)
    /\ NotAsked /\ UNCHANGED <<suppressed, saved>>

\* The resume service: the HIGH conditions its filter selects.
Resumable == {c \in Active : active[c].severity = HIGH}

Resume(f) ==
    /\ f \cap Resumable # {}
    /\ ClearConditions(f \cap Resumable)
    /\ Asked("resume", f) /\ UNCHANGED <<suppressed, saved>>

\* Writing the suppress file may fail, which is logged and ignored: the file
\* keeps the old list or, once truncated, no longer parses and reads as empty.
SaveSuppressed == saved' \in {suppressed', saved, {}}

\* Mutant: a suppressed condition that is active stays.
MutSuppress(p) ==
    /\ suppressed' = suppressed \cup {p} /\ SaveSuppressed
    /\ Asked("suppress", {p} \cap Ids) /\ UNCHANGED <<active, history, emergency>>

Suppress(p) ==
    /\ suppressed' = suppressed \cup {p} /\ SaveSuppressed
    /\ ClearConditions({p})
    /\ Asked("suppress", {p} \cap Ids)

Unsuppress(p) ==
    /\ p \in suppressed
    /\ suppressed' = suppressed \ {p} /\ SaveSuppressed
    /\ NotAsked /\ UNCHANGED <<active, history, emergency>>

\* The node dies and is started again: only the suppress list survives.
Restart ==
    /\ active' = <<>> /\ history' = <<>> /\ emergency' = FALSE
    /\ suppressed' = saved \cup Config
    /\ Asked("restart", Ids) /\ UNCHANGED saved

Tick ==
    /\ \E c \in Active : active[c].age <= StaleTicks
    /\ active' = [c \in Active |->
                     [active[c] EXCEPT !.age = IF @ > StaleTicks THEN @ ELSE @ + 1]]
    /\ NotAsked /\ UNCHANGED <<history, emergency, suppressed, saved>>

OperatorStep ==
    \/ \E c \in Operators : ManualPause(c) \/ ManualUnpause(c)
    \/ \E f \in Filters : Resume(f)
    \/ \E p \in Patterns : Suppress(p) \/ Unsuppress(p)

Next ==
    \/ OperatorStep
    \/ \E r \in Reports : ConditionActive(r)
    \/ \E c \in Diagnosed : ConditionCleared(c)
    \/ CheckStale \/ Tick \/ Restart

\* Time passes, and the one-second timer fires.
Spec == Init /\ [][Next]_vars /\ WF_vars(Tick) /\ WF_vars(CheckStale)

-----------------------------------------------------------------------------
(***************************************************************************)
(* Properties.                                                             *)
(***************************************************************************)

\* Zero velocity keeps being sent exactly while a CRITICAL condition is
\* active, through every way a condition can be removed.
EmergencyMatches == emergency = AnyCritical(active)

\* The history calls a pause "active" only while its condition is, and once:
\* get_pause_history never shows an operator a pause that is over.
HistoryTruthful ==
    \A i \in DOMAIN history : history[i].open =>
        /\ history[i].id \in Active
        /\ \A j \in DOMAIN history : history[j].open /\ history[j].id = history[i].id => i = j

\* Nothing but a request that names it, or a restart of the node, ends a pause
\* that waits for the operator: no timer, no late "ok" of the component, and no
\* clearing of another condition.  And the resume service leaves a CRITICAL one on
\* even if its filter names it.
HighWaits ==
    [][\A c \in Active : active[c].severity \in {CRITICAL, HIGH} /\ c \notin DOMAIN active'
          => /\ c \in asked'.ids
             /\ active[c].severity = CRITICAL => asked'.call # "resume"]_vars

\* A suppressed id is not active, in whatever order suppression, reports and
\* restarts come.
SuppressedStaysOut == \A p \in Exact \cap suppressed \cap Diagnosed : p \notin Active

\* A component that stops reporting, or whose "ok" is lost, does not hold the
\* robot forever: a self-clearing condition stays only if it is reported again
\* and again.
SelfClearingClears ==
    \A c \in Diagnosed :
        \/ []<><<\E r \in Reports : r.id = c /\ ConditionActive(r)>>_vars
        \/ []<>~(c \in Active /\ SelfClearing(c))

\* ManageSuppressedConditions.srv:2 "Suppressed conditions are silently ignored
\* - they never trigger a pause", and it supports a trailing wildcard: no
\* suppressed condition is among those that pause the robot.
SuppressedNeverPauses == \A c \in Active \cap Diagnosed : ~IsSuppressed(c)
=============================================================================
