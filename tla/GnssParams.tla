----------------------------- MODULE GnssParams -----------------------------
(***************************************************************************)
(* The configuration of the GNSS receiver: the driver's parameter cache,   *)
(* the initialisation that sends the start arguments and fetches the rest, *)
(* the timer that sends what the user has set, the answers that are        *)
(* mirrored into the cache, and a receiver that comes, goes, refuses or is *)
(* exchanged for another.                                                  *)
(***************************************************************************)
EXTENDS Naturals, Sequences, FiniteSets

CONSTANTS Params,         \* configuration items
          StartArgs,      \* start argument -> its value
          Unconvertible,  \* items of a type that a batch cannot convert
          CfgValues,      \* values of items
          UserValues,     \* those a user sets
          Receivers,      \* configurations (RAM layer) of the receivers there are
          Factory,        \* the DEFAULT layer of all of them
          Byte,           \* what a byte holds
          Unset,          \* std::nullopt
          MaxConnections, \* bounds on connections
          MaxSets         \* and on what users set

ASSUME ParamsAssumption ==
    /\ CfgValues \subseteq Nat /\ UserValues \subseteq CfgValues
    /\ \A v \in CfgValues : v % Byte \in CfgValues
    /\ Receivers \subseteq [Params -> CfgValues] /\ Factory \in [Params -> CfgValues]
    /\ DOMAIN StartArgs \subseteq Params /\ \A p \in DOMAIN StartArgs : StartArgs[p] \in CfgValues
    /\ Unset \notin CfgValues /\ Unconvertible \subseteq Params /\ Byte \in Nat \ {0}

VARIABLES
    cache,       \* param_cache_map_
    conn,        \* a receiver is attached
    initStep,    \* ublox_dgnss_init_async(): "idle", "send" or "fetch"
    ready,       \* it has been run for this receiver
    wire,        \* messages on their way to the receiver
    chipRam,     \* the receiver's configuration
    answers,     \* values of the receiver waiting in ubx_queue_
    mirrored,    \* the item whose parameter is still to be set, as <<item, value>>
    batch,       \* the parameter timer's step and the items it has collected
    fetching,    \* param_fetch_in_progress_
    late,        \* PARAM_FETCH_TIMEOUT has elapsed
    connections, \* how often a receiver was connected
    touched,     \* items that a user has set (not a variable of the code)
    stale,       \* items mirrored from a receiver that had left (neither)
    refused      \* items of requests that the receiver did not answer (neither)

cfgVars == <<cache, conn, initStep, ready, wire, chipRam, answers, mirrored, batch, fetching, late,
             connections, touched, stale, refused>>
channel == <<wire, chipRam, answers, mirrored>>
ghosts == <<connections, touched, stale, refused>>

ParamState(value, source, status, send) ==
    [value |-> value, source |-> source, status |-> status, send |-> send]

ParamsTypeOK ==
    /\ cache \in [Params -> [value : CfgValues \union {Unset},
                             source : {"unknown", "start", "user", "device"},
                             status : {"initial", "user", "valset", "valget", "loaded"},
                             send : BOOLEAN]]
    /\ initStep \in {"idle", "send", "fetch"}
    /\ {conn, ready, fetching, late} \subseteq BOOLEAN
    /\ chipRam \in [Params -> CfgValues]
    /\ Len(mirrored) \in {0, 2}
    /\ batch.step \in {"idle", "send", "mark", "check"} /\ batch.items \subseteq Params

\* declare_ubx_cfg_param_initial()
Initial(p) == IF p \in DOMAIN StartArgs THEN ParamState(StartArgs[p], "start", "user", FALSE)
                                        ELSE ParamState(Unset, "unknown", "initial", FALSE)

ParamsInit ==
    /\ cache = [p \in Params |-> Initial(p)]
    /\ conn = FALSE /\ initStep = "idle" /\ ready = FALSE
    /\ wire = <<>> /\ chipRam = Factory /\ answers = <<>> /\ mirrored = <<>>
    /\ batch = [step |-> "idle", items |-> {}]
    /\ fetching = FALSE /\ late = FALSE
    /\ connections = 0 /\ touched = {} /\ stale = {} /\ refused = {}

-----------------------------------------------------------------------------
(* The receiver. *)

\* The same receiver or another, with what its RAM layer holds.
Connect ==
    /\ ~conn /\ initStep = "idle" /\ connections < MaxConnections
    /\ conn' = TRUE /\ initStep' = "send" /\ connections' = connections + 1
    /\ chipRam' \in Receivers \union {chipRam}
    /\ UNCHANGED <<cache, ready, wire, answers, mirrored, batch, fetching, late, touched, stale, refused>>

\* Values in ubx_queue_; they are fresh while their receiver is attached (which
\* the code does not ask).
Answer(fresh, cfg) == [fresh |-> fresh, cfg |-> cfg]

\* Mutant: the start arguments are forgotten as well.
MutForgotten(p) == ParamState(Unset, "unknown", "initial", FALSE)

\* reset_device_parameters()
Forgotten(p) == IF cache[p].status = "user" THEN cache[p]
                                            ELSE ParamState(Unset, "unknown", "initial", FALSE)

\* Answers that have been queued are still processed.
Disconnect ==
    /\ conn /\ conn' = FALSE /\ ready' = FALSE
    /\ cache' = [p \in Params |-> Forgotten(p)]
    /\ wire' = <<>>
    /\ answers' = [i \in DOMAIN answers |-> Answer(FALSE, answers[i].cfg)]
    /\ stale' = IF mirrored = <<>> THEN {} ELSE {mirrored[1]}
    /\ UNCHANGED <<initStep, chipRam, mirrored, batch, fetching, late, connections, touched, refused>>

\* cfg_data takes one byte of a value, whatever its width.
LowByte(v) == v % Byte

Items(message) == DOMAIN message.cfg

\* A VALSET changes the RAM layer, a VALGET is answered from the layer it names.
Serve ==
    /\ conn /\ wire # <<>> /\ wire' = Tail(wire)
    /\ LET message == Head(wire) IN
       /\ chipRam' = [p \in Params |-> IF message.op = "set" /\ p \in Items(message)
                                   THEN message.cfg[p] ELSE chipRam[p]]
       /\ answers' = IF message.op = "set" THEN answers
                     ELSE answers \o << Answer(TRUE, [p \in Items(message) |->
                              LowByte(IF message.op = "default" THEN Factory[p] ELSE chipRam[p])]) >>
    /\ UNCHANGED <<cache, conn, initStep, ready, mirrored, batch, fetching, late, ghosts>>

\* A message is not acknowledged, which is only logged, or not answered: a
\* bound is one such message, or MaxSets items that users set, in a behaviour.
Refuse ==
    /\ conn /\ wire # <<>> /\ wire' = Tail(wire)
    /\ refused = {} /\ touched = {}
    /\ refused' = refused \union Items(Head(wire))
    /\ UNCHANGED <<cache, conn, initStep, ready, chipRam, answers, mirrored, batch, fetching, late,
                   connections, touched, stale>>

\* Messages about ps: without an item none is built, and what is submitted while
\* no receiver is attached is dropped.
Sent(messages, ps) == wire' = IF conn /\ ps # {} THEN wire \o messages ELSE wire

ValSet(ps) == [op |-> "set", cfg |-> [p \in ps |-> cache[p].value]]

-----------------------------------------------------------------------------
(* Initialisation: ublox_send_user_params_async(), then                    *)
(* ublox_fetch_device_params_async().                                      *)

WithStatus(status) == {p \in Params : cache[p].status = status}

SendUserParams ==
    /\ initStep = "send" /\ initStep' = "fetch"
    /\ Sent(<<ValSet(WithStatus("user"))>>, WithStatus("user"))
    /\ ready' = conn
    /\ UNCHANGED <<cache, conn, chipRam, answers, mirrored, batch, fetching, late, ghosts>>

\* Mutant: the layers are asked for in the other order.
MutAllLayers(ps) == << [op |-> "ram", cfg |-> [p \in ps |-> 0]], [op |-> "default", cfg |-> [p \in ps |-> 0]] >>

\* cfg_val_get_poll_async_all_layers()
AllLayers(ps) == << [op |-> "default", cfg |-> [p \in ps |-> 0]], [op |-> "ram", cfg |-> [p \in ps |-> 0]] >>

FetchDeviceParams ==
    /\ initStep = "fetch" /\ initStep' = "idle"
    /\ fetching' = TRUE /\ late' = FALSE
    /\ cache' = [p \in Params |->
                   IF cache[p].status = "initial"
                   THEN ParamState(cache[p].value, cache[p].source, "valget", cache[p].send)
                   ELSE cache[p]]
    /\ Sent(AllLayers(WithStatus("initial")), WithStatus("initial"))
    /\ UNCHANGED <<conn, ready, chipRam, answers, mirrored, batch, ghosts>>

Initialisation == SendUserParams \/ FetchDeviceParams

-----------------------------------------------------------------------------
(* update_param_from_device(), and the user. *)

\* on_set_parameters_callback(): without a value, or with one of the device, the
\* value counts as loaded from it.
OnSet(p, v) ==
    IF cache[p].value = Unset \/ cache[p].source = "device"
    THEN ParamState(v, cache[p].source, "loaded", FALSE)
    ELSE ParamState(v, "user", "user", TRUE)

\* The cache is updated first ...
MirrorCache ==
    /\ mirrored = <<>> /\ answers # <<>>
    /\ \E p \in Items(Head(answers)) :
         /\ cache' = [cache EXCEPT ![p] = ParamState(Head(answers).cfg[p], "device", "loaded", FALSE)]
         /\ mirrored' = <<p, Head(answers).cfg[p]>>
         /\ stale' = IF Head(answers).fresh THEN stale \ {p} ELSE stale \union {p}
         /\ answers' = LET left == Items(Head(answers)) \ {p}
                       IN  IF left = {} THEN Tail(answers)
                           ELSE <<Answer(Head(answers).fresh, [q \in left |-> Head(answers).cfg[q]])>>
                                  \o Tail(answers)
    /\ UNCHANGED <<conn, initStep, ready, wire, chipRam, batch, fetching, late, connections, touched, refused>>

\* ... and then the parameter, which calls on_set_parameters_callback().
MirrorParameter ==
    /\ mirrored # <<>> /\ mirrored' = <<>>
    /\ cache' = [cache EXCEPT ![mirrored[1]] = OnSet(mirrored[1], mirrored[2])]
    /\ UNCHANGED <<conn, initStep, ready, wire, chipRam, answers, batch, fetching, late, ghosts>>

UserSet ==
    /\ Cardinality(touched) < MaxSets /\ refused = {}
    /\ \E p \in Params \ touched, v \in UserValues :
         /\ cache' = [cache EXCEPT ![p] = OnSet(p, v)]
         /\ touched' = touched \union {p}
    /\ UNCHANGED <<conn, initStep, ready, channel, batch, fetching, late, connections, stale, refused>>

-----------------------------------------------------------------------------
(* handle_param_processing_callback(): a batch of what the user has set, then *)
(* check_param_fetch_completion().                                            *)

BatchStep(step, items) == batch' = [step |-> step, items |-> items]

Collect ==
    /\ batch.step = "idle"
    /\ LET pending == {p \in WithStatus("user") : cache[p].send}
       IN  BatchStep(IF pending = {} THEN "check" ELSE "send", pending)
    /\ UNCHANGED <<cache, conn, initStep, ready, channel, fetching, late, ghosts>>

\* convert_ros_param_to_ubx_value()
Convertible(ps) == {p \in ps \ Unconvertible : cache[p].value # Unset}

\* Without a receiver, or with nothing that can be converted, the batch fails.
SendBatch ==
    /\ batch.step = "send"
    /\ LET ps == Convertible(batch.items)
       IN  IF conn /\ ps # {} THEN Sent(<<ValSet(ps)>>, ps) /\ BatchStep("mark", batch.items)
                              ELSE wire' = wire /\ BatchStep("check", {})
    /\ UNCHANGED <<cache, conn, initStep, ready, chipRam, answers, mirrored, fetching, late, ghosts>>

MarkBatch ==
    /\ batch.step = "mark" /\ BatchStep("check", {})
    /\ cache' = [p \in Params |-> IF p \in batch.items
                                  THEN ParamState(cache[p].value, cache[p].source, "valset", FALSE)
                                  ELSE cache[p]]
    /\ UNCHANGED <<conn, initStep, ready, channel, fetching, late, ghosts>>

\* Mutant: only the answers end a fetch.
MutFetchOver == WithStatus("valget") = {}

FetchOver == WithStatus("valget") = {} \/ late

CheckFetch ==
    /\ batch.step = "check" /\ BatchStep("idle", {})
    /\ fetching' = (fetching /\ ~FetchOver)
    /\ UNCHANGED <<cache, conn, initStep, ready, channel, late, ghosts>>

Elapse ==
    /\ fetching /\ ~late /\ late' = TRUE
    /\ UNCHANGED <<cache, conn, initStep, ready, channel, batch, fetching, ghosts>>

ParamTask == Collect \/ SendBatch \/ MarkBatch \/ CheckFetch

-----------------------------------------------------------------------------
ParamsNext ==
    \/ Connect \/ Disconnect \/ Serve \/ Refuse
    \/ Initialisation
    \/ MirrorCache \/ MirrorParameter \/ UserSet
    \/ ParamTask \/ Elapse

\* Every receiver that is connected, however often and whichever, gets the start
\* arguments: once it is initialised its RAM layer holds the value of each that
\* no user has changed, when it has taken in what was sent and refused nothing.
StartArgsHold ==
    conn /\ ready => \A p \in DOMAIN StartArgs \ touched :
        p \notin refused /\ (\A i \in DOMAIN wire : p \notin Items(wire[i])) => chipRam[p] = StartArgs[p]

\* What the node shows as loaded from the receiver is, when no answer is missing
\* or under way, what the receiver's RAM layer holds (its lowest byte), and not
\* its default nor a value of the receiver that was there before.
Mirrors ==
    \A p \in Params \ (touched \union stale \union refused) :
        /\ conn /\ cache[p].status = "loaded"
        /\ mirrored = <<>> /\ answers = <<>> /\ wire = <<>>
        => cache[p].value = LowByte(chipRam[p])

GnssParamsOK == StartArgsHold /\ Mirrors

\* A fetch of the receiver's configuration ends, whatever is answered, refused
\* or unplugged meanwhile: none is in progress for ever.
FetchEnds == []<>~fetching
=============================================================================
