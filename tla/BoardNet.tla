------------------------------ MODULE BoardNet ------------------------------
(***************************************************************************)
(* The network task of board v1: joining WiFi, the access point with the   *)
(* configuration portal, the MQTT session, and the configuration commands, *)
(* which change the working configuration, then the flash, then answer.    *)
(* The board may reset between any two of these steps.                     *)
(*                                                                         *)
(* A configuration is a record: how to reach WiFi and the broker (written  *)
(* to flash in this order), one of the actuators, and the power policy.    *)
(***************************************************************************)
EXTENDS Integers, Sequences

CONSTANTS Settings      \* values of an actuator's or the policy's settings

ASSUME BoardNetAssumption == Settings # {}

VARIABLES
    netMode,            \* "joining", "sta" or "ap"
    wifiUp, brokerUp,   \* environment
    session, subs,      \* MQTT: connected, groups of topics subscribed
    apPending,          \* enterAPPending
    ram, flash,         \* configurations
    job,                \* what the task is in the middle of: the settings it
                        \*   concerns, the steps left, called from mqtt.loop
    acked               \* history: acknowledged settings not replaced since

netVars == <<netMode, wifiUp, brokerUp, session, subs, apPending, ram, flash, job, acked>>

Reach == {"good", "bad"}
NetFields == {"wifi", "broker"}
BoardFields == {"act", "power"}
Fields == NetFields \cup BoardFields
Values(f) == IF f \in NetFields THEN Reach ELSE Settings
Topics == {"netcfg", "main"}
\* Mutant: onMqttConnect is not called.
MutSubscribeTodo == <<"netcfg">>
SubscribeTodo == <<"netcfg", "main">>
Job(of, todo, nested) == [of |-> of, todo |-> todo, nested |-> nested]
Idle == Job({}, <<>>, FALSE)
None == "none"

Linked == wifiUp /\ ram.wifi = "good"

\* setup(): everything volatile, and the configuration of the flash.
Reset ==
    /\ netMode' = "joining" /\ session' = FALSE /\ subs' = {} /\ apPending' = FALSE
    /\ ram' = flash /\ job' = Idle
    /\ UNCHANGED <<wifiUp, brokerUp, flash, acked>>

NetInit ==
    /\ netMode = "joining" /\ wifiUp \in BOOLEAN /\ brokerUp \in BOOLEAN
    /\ session = FALSE /\ subs = {} /\ apPending = FALSE
    /\ flash \in {c \in [Fields -> Reach \cup Settings] : \A f \in Fields : c[f] \in Values(f)}
    /\ ram = flash /\ job = Idle /\ acked = [f \in Fields |-> None]

-----------------------------------------------------------------------------
(* netcfg::begin: WiFi is waited for 60 s, then the portal is opened.      *)
\* Mutant: WiFi is waited for without a limit.
MutJoin ==
    /\ netMode = "joining" /\ Linked /\ netMode' = "sta"
    /\ UNCHANGED <<wifiUp, brokerUp, session, subs, apPending, ram, flash, job, acked>>

Join ==
    /\ netMode = "joining"
    /\ netMode' = IF Linked THEN "sta" ELSE "ap"
    /\ UNCHANGED <<wifiUp, brokerUp, session, subs, apPending, ram, flash, job, acked>>

(* netcfg::loop in station mode.                                           *)
HttpEnterAp ==
    /\ netMode = "sta" /\ job = Idle /\ Linked
    /\ apPending' = TRUE
    /\ UNCHANGED <<netMode, wifiUp, brokerUp, session, subs, ram, flash, job, acked>>

EnterAp ==
    /\ netMode = "sta" /\ job = Idle /\ apPending
    /\ apPending' = FALSE /\ session' = FALSE /\ subs' = {} /\ netMode' = "ap"
    /\ UNCHANGED <<wifiUp, brokerUp, ram, flash, job, acked>>

TryReconnect ==
    /\ netMode = "sta" /\ job = Idle /\ ~apPending /\ ~session
    /\ Linked /\ brokerUp /\ ram.broker = "good"
    /\ session' = TRUE /\ job' = Job({}, SubscribeTodo, FALSE)
    /\ UNCHANGED <<netMode, wifiUp, brokerUp, subs, apPending, ram, flash, acked>>

-----------------------------------------------------------------------------
(* Commands.  New settings are applied in one step, under the lock where   *)
(* another task reads them; what is left to do follows step by step.       *)
CanReceive(topic) == netMode = "sta" /\ session /\ topic \in subs

\* Mutant: a request for the portal does not end the loop's iteration.
MutReceiving == job = Idle \/ (job.todo = <<"restart">> /\ ~job.nested /\ netMode = "sta")

\* The MQTT loop is entered with nothing else to do, and once more between
\* the answer to <dev>/config and the restart.
Nesting == job.todo = <<"restart">> /\ ~job.nested /\ netMode = "sta"
Receiving == (job = Idle /\ ~apPending) \/ Nesting

Accept(new, of, todo) ==
    /\ ram' = new
    /\ job' = Job(of, IF Nesting THEN todo \o <<"restart">> ELSE todo, Nesting)
    /\ acked' = [f \in Fields |-> IF f \in of THEN None ELSE acked[f]]
    /\ UNCHANGED <<netMode, wifiUp, brokerUp, session, subs, apPending, flash>>

\* Mutant: a field that the message does not hold is copied as well.
MutApplyJson == {[ram EXCEPT !.wifi = w] : w \in Reach \cup {None}}
WithNet(w, b) == [ram EXCEPT !.wifi = w, !.broker = b]
ApplyJson == {WithNet(w, b) : w \in Reach, b \in Reach}
NetTodo == <<"wifi", "broker", "ack", "restart">>

ConfigTopic ==
    /\ Receiving /\ CanReceive("netcfg")
    /\ \E c \in ApplyJson : Accept(c, NetFields, NetTodo)

\* The portal's POST /save and /api/config.
PortalSave ==
    /\ netMode = "ap" /\ job = Idle
    /\ \E c \in ApplyJson : Accept(c, NetFields, NetTodo)

EnterApTopic ==
    /\ Receiving /\ CanReceive("netcfg")
    /\ apPending' = TRUE /\ job' = Job(job.of, job.todo, Nesting)
    /\ UNCHANGED <<netMode, wifiUp, brokerUp, session, subs, ram, flash, acked>>

\* Mutant: the answer is sent before the flash is written.
MutBoardTodo(f) == <<"ack", f>>
BoardTodo(f) == <<f, "ack">>

\* act/<n>/config and power/config.
BoardConfig ==
    /\ Receiving /\ CanReceive("main")
    /\ \E f \in BoardFields, v \in Settings : Accept([ram EXCEPT ![f] = v], {f}, BoardTodo(f))

\* motor_direction changes an actuator's settings and saves nothing.
MotorDirection ==
    /\ Receiving /\ CanReceive("main")
    /\ \E v \in Settings \ {ram.act} : ram' = [ram EXCEPT !.act = v]
    /\ job' = Job(job.of, job.todo, Nesting)
    /\ UNCHANGED <<netMode, wifiUp, brokerUp, session, subs, apPending, flash, acked>>

-----------------------------------------------------------------------------
(* The steps of a job.                                                     *)
Step(s) == job.todo # <<>> /\ Head(job.todo) = s
Done == IF Len(job.todo) = 1 THEN Idle ELSE Job(job.of, Tail(job.todo), job.nested)

\* A subscription on a lost connection has no effect.
Subscribe ==
    \E t \in Topics :
       /\ Step(t) /\ job' = Done
       /\ subs' = IF session THEN subs \cup {t} ELSE subs
       /\ UNCHANGED <<netMode, wifiUp, brokerUp, session, apPending, ram, flash, acked>>

Save ==
    \E f \in Fields :
       /\ Step(f) /\ job' = Done
       /\ flash' = [flash EXCEPT ![f] = ram[f]]
       /\ UNCHANGED <<netMode, wifiUp, brokerUp, session, subs, apPending, ram, acked>>

Ack ==
    /\ Step("ack") /\ job' = Done
    /\ acked' = [f \in Fields |-> IF f \in job.of THEN ram[f] ELSE acked[f]]
    /\ UNCHANGED <<netMode, wifiUp, brokerUp, session, subs, apPending, ram, flash>>

Restart == Step("restart") /\ Reset

-----------------------------------------------------------------------------
(* The surroundings.                                                       *)
SessionLost ==
    /\ session /\ session' = FALSE /\ subs' = {}
    /\ UNCHANGED <<netMode, wifiUp, brokerUp, apPending, ram, flash, job, acked>>

EnvChanges ==
    /\ \/ wifiUp' = ~wifiUp /\ UNCHANGED brokerUp
       \/ brokerUp' = ~brokerUp /\ UNCHANGED wifiUp
    /\ IF wifiUp' /\ brokerUp' THEN UNCHANGED <<session, subs>> ELSE session' = FALSE /\ subs' = {}
    /\ UNCHANGED <<netMode, apPending, ram, flash, job, acked>>

Task == Join \/ EnterAp \/ TryReconnect \/ Subscribe \/ Save \/ Ack \/ Restart
Commands == ConfigTopic \/ PortalSave \/ EnterApTopic \/ BoardConfig \/ MotorDirection
NetNext == Task \/ Commands \/ HttpEnterAp \/ Reset \/ SessionLost \/ EnvChanges

-----------------------------------------------------------------------------
NetTypeOK ==
    /\ netMode \in {"joining", "sta", "ap"} /\ subs \subseteq Topics
    /\ {wifiUp, brokerUp, session, apPending, job.nested} \subseteq BOOLEAN
    /\ \A f \in Fields : {ram[f], flash[f]} \subseteq Values(f) /\ acked[f] \in Values(f) \cup {None}
    /\ job.of \subseteq Fields /\ \A n \in 1 .. Len(job.todo) :
          job.todo[n] \in Fields \cup Topics \cup {"ack", "restart"}

\* What the board acknowledged is in the flash, wherever it is reset, and
\* whatever commands it takes while it waits for its restart.
AckedIsSaved == \A f \in Fields : acked[f] # None => flash[f] = acked[f]

\* A board that is connected and has nothing in hand hears every command:
\* connections lost while it subscribes leave no session half subscribed.
HearsCommands == session /\ job = Idle => subs = Topics

\* No network configuration strands the board: with a wrong one, or one torn
\* by a reset, it opens the portal; with a right one it is on the network.
Reachable == netMode = "ap" \/ (netMode = "sta" /\ Linked)
NeverStranded == <>[]wifiUp => []<>Reachable

\* A request for the portal is served, or the board restarts: none waits for ever.
PortalOpens == []<>~apPending

\* The board can always be talked to and remembers what it was told.
KeepsInTouch == [](AckedIsSaved /\ HearsCommands) /\ NeverStranded /\ PortalOpens
=============================================================================
